------------------------- MODULE TaskOwnershipProofs -------------------------
(***************************************************************************)
(* One process, with a queue that nobody else pops: no task is lost.  With *)
(* its own queue over the database (OneOwner) no task is ever in two       *)
(* places, a finished task stays finished, and what the process answers    *)
(* from memory is what is stored.                                          *)
(***************************************************************************)
EXTENDS TaskManagerProofs

(* Pushing a new element. *)
LEMMA AppendOnce ==
  ASSUME NEW S, NEW q \in Seq(S), NEW x \in S
  PROVE  /\ Elems(Append(q, x)) = Elems(q) \cup {x}
         /\ Once(q) /\ x \notin Elems(q) => Once(Append(q, x))
<1>1. /\ Len(Append(q, x)) = Len(q) + 1 /\ Len(q) \in Nat
      /\ DOMAIN q = 1 .. Len(q) /\ DOMAIN Append(q, x) = 1 .. Len(q) + 1
      /\ \A i \in 1 .. Len(q) : Append(q, x)[i] = q[i]
      /\ Append(q, x)[Len(q) + 1] = x
  OBVIOUS
<1>2. Elems(Append(q, x)) = Elems(q) \cup {x}
  BY <1>1 DEF Elems
<1>3. ASSUME Once(q), x \notin Elems(q) PROVE Once(Append(q, x))
  BY <1>1, <1>3 DEF Once, Elems
<1> QED
  BY <1>2, <1>3

(* Popping the head of a queue that holds nothing twice. *)
LEMMA TailOnce ==
  ASSUME NEW S, NEW q \in Seq(S), q # <<>>
  PROVE  /\ Elems(q) = Elems(Tail(q)) \cup {Head(q)}
         /\ Once(q) => Once(Tail(q)) /\ Head(q) \notin Elems(Tail(q))
<1>1. /\ Len(q) \in Nat \ {0} /\ Len(Tail(q)) = Len(q) - 1
      /\ DOMAIN q = 1 .. Len(q) /\ DOMAIN Tail(q) = 1 .. Len(q) - 1
      /\ \A i \in 1 .. Len(q) - 1 : Tail(q)[i] = q[i + 1]
      /\ Head(q) = q[1]
  OBVIOUS
<1>2. Elems(q) = Elems(Tail(q)) \cup {Head(q)}
  <2>1. ASSUME NEW i \in 1 .. Len(q) PROVE q[i] = Head(q) \/ q[i] \in Elems(Tail(q))
    <3>1. CASE i = 1
      BY <3>1, <1>1
    <3>2. CASE i # 1
      <4>1. i - 1 \in 1 .. Len(q) - 1 /\ Tail(q)[i - 1] = q[i]
        BY <3>2, <1>1
      <4>2. QED
        BY <4>1, <1>1 DEF Elems
    <3>3. QED
      BY <3>1, <3>2
  <2>2. ASSUME NEW i \in 1 .. Len(q) - 1 PROVE Tail(q)[i] \in Elems(q)
    BY <1>1 DEF Elems
  <2>3. Head(q) \in Elems(q)
    BY <1>1 DEF Elems
  <2>4. QED
    BY <2>1, <2>2, <2>3, <1>1 DEF Elems
<1>3. ASSUME Once(q) PROVE Once(Tail(q)) /\ Head(q) \notin Elems(Tail(q))
  BY <1>1, <1>3 DEF Once, Elems
<1> QED
  BY <1>2, <1>3

(* Enqueueing a task that is not waiting keeps the queue free of doubles. *)
LEMMA PushOnce ==
  ASSUME DataTypes, NEW p \in Procs, NEW t \in Tasks, t \notin Waiting(p), Once(queue[QueueOf(p)]),
         queue' = queue \/ queue' = Enqueued(p, t)
  PROVE  Once(queue[QueueOf(p)])' /\ Waiting(p)' \subseteq Waiting(p) \cup {t}
<1>1. QueueOf(p) \in Queues /\ queue[QueueOf(p)] \in Seq(Tasks)
  BY DEF QueueOf, Queues, DataTypes
<1>2. QueueOf(p)' = QueueOf(p)
  BY DEF QueueOf
<1>3. CASE queue' = queue
  BY <1>2, <1>3 DEF Waiting
<1>4. CASE queue' = Enqueued(p, t)
  <2>1. queue'[QueueOf(p)] = Append(queue[QueueOf(p)], t)
    BY <1>1, <1>4 DEF Enqueued, DataTypes
  <2>2. QED
    BY <1>1, <1>2, <2>1, AppendOnce DEF Waiting
<1> QED
  BY <1>3, <1>4

(* A worker whose "completed" write raised although the database has it: it *)
(* is about to write the task as failed.                                    *)
Settling(p) == MaxDbFaults # 0 /\ pc[p] = "raised" /\ rows[cur[p]].status = "completed"

HeldOrSettling(p) ==
  /\ \A t \in Waiting(p) \cup Created(p) \cup recover[p] : Recoverable(t)
  /\ cur[p] # NoTask => Recoverable(cur[p]) \/ Settling(p)
  /\ WorkerBlocks(p) => rows[cur[p]].status = "running" \/ Settling(p)
  /\ phase[p] = "down" => queue[QueueOf(p)] = <<>>

(* Ownership, with that one exception where writes may raise. *)
Owned ==
  /\ \A p \in Procs : HeldOnce(p) /\ HeldOrSettling(p)
  /\ \A t \in Tasks : call[t] = "none" => rows[t] = Nothing

(* A write that raises takes one from the budget of faults. *)
LEMMA FaultsLeft == ASSUME TypeOK, DbFault PROVE MaxDbFaults # 0
  BY BoundAssumption DEF DbFault, TypeOK, DataTypes

(* Owned is inductive when one process owns its queue, whatever writes      *)
(* raise.                                                                   *)
LEMMA OwnedStep ==
  ASSUME OneOwner, TypeOK, Owned, [Next]_vars
  PROVE  Owned'
<1> USE NullAssumption DEF OneOwner, QueueOf, Queues
<1> DEFINE Unborn == \A t \in Tasks : call[t] = "none" => rows[t] = Nothing
<1>t. ASSUME NEW p \in Procs PROVE /\ queue[p] \in Seq(Tasks) /\ recover[p] \subseteq Tasks
                                   /\ p \in DOMAIN queue /\ InStep(p)
  BY DEF TypeOK, ControlTypes, DataTypes
<1>w. ASSUME NEW p \in Procs, WorkerBlocks(p) \/ pc[p] = "got" PROVE cur[p] \in Tasks
  BY <1>w, WorkerTaskType DEF WorkerBlocks
<1>1. ASSUME NEW p \in Procs, Start(p) PROVE Owned'
  <2>1. HeldOnce(p)' /\ HeldOrSettling(p)'
    BY <1>1, <1>t DEF Start, ListRecoverable, calls, data, Owned, HeldOnce, HeldOrSettling, Settling, Waiting, Elems, Once, Created,
       InStep, InFlight, WorkerBlocks, Recoverable, TypeOK, ControlTypes
  <2>2. Unborn'
    BY <1>1 DEF Start, calls, data, Owned
  <2>3. QED
    BY <2>1, <2>2 DEF Owned
<1>2. ASSUME NEW p \in Procs, NEW t \in Tasks, RecoverNext(p, t) PROVE Owned'
  <2>0. /\ t \notin Waiting(p) \cup {cur[p]} \cup Created(p) /\ Recoverable(t) /\ recover'[p] = recover[p] \ {t}
        /\ Created(p)' = Created(p) /\ UNCHANGED <<rows, cur, pc, phase>>
    BY <1>2, <1>t DEF RecoverNext, calls, data, Created, Owned, HeldOnce, HeldOrSettling, TypeOK, ControlTypes
  <2>a. queue' = queue \/ queue' = Enqueued(p, t)
    BY <1>2 DEF RecoverNext, data
  <2>b. Once(queue[p])' /\ Waiting(p)' \subseteq Waiting(p) \cup {t}
    BY <2>0, <2>a, PushOnce DEF Owned, HeldOnce, TypeOK
  <2>1. HeldOnce(p)'
    BY <2>0, <2>b DEF Owned, HeldOnce
  <2>2. HeldOrSettling(p)'
    BY <1>2, <2>0, <2>b DEF RecoverNext, Owned, HeldOrSettling, Settling, WorkerBlocks, Recoverable
  <2>3. Unborn'
    BY <1>2 DEF RecoverNext, calls, data, Owned
  <2>4. QED
    BY <2>1, <2>2, <2>3 DEF Owned
<1>3. ASSUME NEW p \in Procs, FinishStart(p) PROVE Owned'
  <2>1. pc[p] \in {"off", "dead"} /\ phase'[p] = "up" /\ pc'[p] = "idle" /\ UNCHANGED <<cur, recover, calls, data>>
    BY <1>3, <1>t DEF FinishStart, InStep, TypeOK, ControlTypes
  <2>2. HeldOnce(p)' /\ HeldOrSettling(p)'
    BY <2>1 DEF calls, data, Owned, HeldOnce, HeldOrSettling, Settling, Waiting, Created, WorkerBlocks, Recoverable
  <2>3. QED
    BY <2>1, <2>2 DEF calls, data, Owned
<1>4. ASSUME NEW p \in Procs, NEW t \in Tasks, SubmitPersist(p, t) PROVE Owned'
  <2>1. /\ rows[t] = Nothing /\ ~Recoverable(t) /\ t \notin Waiting(p) \cup Created(p) \cup recover[p] \cup {cur[p]}
        /\ ~Settling(p) /\ phase[p] = "up" /\ ~WorkerBlocks(p)
    <3>1. /\ rows[t] = Nothing /\ ~Recoverable(t) /\ phase[p] = "up" /\ ~WorkerBlocks(p) /\ ~Settling(p)
      BY <1>4 DEF SubmitPersist, LoopFree, Owned, Recoverable, Nothing, Settling, WorkerBlocks
    <3>2. QED
      BY <3>1 DEF Owned, HeldOrSettling
  <2>2. Created(p)' \subseteq Created(p) \cup {t}
    BY <1>4 DEF SubmitPersist, Created, TypeOK, ControlTypes
  <2>3. HeldOnce(p)'
    BY <1>4, <2>1, <2>2 DEF SubmitPersist, life, Owned, HeldOnce, Waiting
  <2>4. \A u \in Tasks : Recoverable(u) => Recoverable(u)'
    <3>1. \A u \in Tasks \ {t} : rows'[u] = rows[u]
      BY <1>4 DEF SubmitPersist, Attempted, TypeOK, DataTypes
    <3>2. QED
      BY <2>1, <3>1 DEF Recoverable
  <2>5. t \in Created(p)' => Recoverable(t)'
    <3>1. ASSUME t \in Created(p)' PROVE rows'[t] = Fresh
      <4>1. call'[t] = "created"
        BY <3>1 DEF Created
      <4>2. rows' = [rows EXCEPT ![t] = Fresh]
        BY <1>4, <4>1 DEF SubmitPersist, TypeOK, ControlTypes
      <4>3. QED
        BY <4>2 DEF TypeOK, DataTypes
    <3>2. QED
      BY <3>1 DEF Recoverable, Fresh
  <2>6. HeldOrSettling(p)'
    <3>1. UNCHANGED <<Waiting(p), recover, cur, pc, phase, queue>> /\ phase[p] = "up" /\ ~WorkerBlocks(p)
      BY <1>4 DEF SubmitPersist, life, Waiting, LoopFree
    <3>2. Waiting(p) \cup recover[p] \subseteq Tasks /\ cur[p] \in Tasks \cup {NoTask}
      BY <1>t DEF Waiting, Elems, TypeOK, ControlTypes
    <3>3. \A u \in Waiting(p)' \cup Created(p)' \cup recover'[p] : Recoverable(u)'
      <4>1. \A u \in Waiting(p) \cup Created(p) \cup recover[p] : u \in Tasks /\ Recoverable(u)
        BY <3>2 DEF Owned, HeldOrSettling, Created
      <4>2. \A u \in Waiting(p) \cup Created(p) \cup recover[p] : Recoverable(u)'
        BY <4>1, <2>4
      <4>3. QED
        BY <4>2, <3>1, <2>2, <2>5
    <3>4. cur'[p] # NoTask => Recoverable(cur[p])'
      <4>1. cur[p] # NoTask => cur[p] \in Tasks /\ Recoverable(cur[p])
        BY <2>1, <3>2 DEF Owned, HeldOrSettling
      <4>2. QED
        BY <3>1, <2>4, <4>1 DEF Recoverable
    <3>5. QED
      BY <3>1, <3>3, <3>4 DEF HeldOrSettling, Settling, WorkerBlocks, Recoverable
  <2>7. Unborn'
    BY <1>4 DEF SubmitPersist, Attempted, Owned, TypeOK, ControlTypes, DataTypes
  <2>8. QED
    BY <2>3, <2>6, <2>7 DEF Owned
<1>5. ASSUME NEW p \in Procs, NEW t \in Tasks, SubmitEnqueue(p, t) PROVE Owned'
  <2>1. t \in Created(p) /\ Created(p)' = Created(p) \ {t} /\ t \notin Waiting(p) \cup {cur[p]} \cup recover[p]
    BY <1>5 DEF SubmitEnqueue, Created, Owned, HeldOnce, TypeOK, ControlTypes
  <2>2. Recoverable(t)
    BY <2>1 DEF Owned, HeldOrSettling
  <2>3. Once(queue[p])' /\ Waiting(p)' \subseteq Waiting(p) \cup {t}
    BY <1>5, <2>1, PushOnce DEF SubmitEnqueue, Owned, HeldOnce, TypeOK
  <2>4. HeldOnce(p)'
    BY <1>5, <2>1, <2>3 DEF SubmitEnqueue, life, Owned, HeldOnce
  <2>5. HeldOrSettling(p)'
    BY <1>5, <1>t, <2>1, <2>2, <2>3 DEF SubmitEnqueue, life, Owned, HeldOrSettling, Settling, WorkerBlocks, Recoverable,
       InStep, InFlight
  <2>6. Unborn'
    BY <1>5 DEF SubmitEnqueue, Owned, TypeOK, ControlTypes
  <2>7. QED
    BY <2>4, <2>5, <2>6 DEF Owned
<1>6. ASSUME NEW p \in Procs, NEW t \in Tasks, SubmitReturn(p, t) PROVE Owned'
  BY <1>6 DEF SubmitReturn, life, data, Owned, HeldOnce, HeldOrSettling, Settling, Waiting, Created, WorkerBlocks,
     Recoverable, TypeOK, ControlTypes
<1>7. ASSUME NEW p \in Procs, Dequeue(p) PROVE Owned'
  <2>1. PICK t : t = Head(queue[p])
    OBVIOUS
  <2>2. /\ t \in Waiting(p) /\ Once(queue[p])' /\ Waiting(p) = Waiting(p)' \cup {t} /\ t \notin Waiting(p)'
    BY <1>7, <1>t, <2>1, TailOnce DEF Dequeue, Dequeued, Owned, HeldOnce, Waiting
  <2>3. /\ cur[p] = NoTask /\ ~WorkerBlocks(p) /\ cur'[p] \in {NoTask, t} /\ pc'[p] \in {"idle", "got"}
        /\ Created(p)' = Created(p) /\ phase[p] = "up" /\ UNCHANGED <<phase, recover, calls, rows>>
    BY <1>7, <1>t, <2>1 DEF Dequeue, InStep, LoopFree, Created, calls, TypeOK, ControlTypes
  <2>4. HeldOnce(p)'
    <3>1. NoTask \notin Created(p) \cup recover[p] \cup Waiting(p)
      BY <1>t DEF Waiting, Elems, Created
    <3>2. QED
      BY <2>2, <2>3, <3>1 DEF Owned, HeldOnce
  <2>5. HeldOrSettling(p)'
    BY <2>2, <2>3 DEF Owned, HeldOrSettling, Settling, WorkerBlocks, Recoverable
  <2>6. Unborn'
    BY <2>3 DEF calls, Owned
  <2>7. QED
    BY <2>4, <2>5, <2>6 DEF Owned
<1>8. ASSUME NEW p \in Procs, Drop(p) PROVE Owned'
  BY <1>8, <1>t DEF Drop, calls, data, Owned, HeldOnce, HeldOrSettling, Settling, Waiting, Elems, Created, WorkerBlocks,
     Recoverable, TypeOK, ControlTypes, LoopFree
<1>9. ASSUME NEW p \in Procs, Execute(p) PROVE Owned'
  BY <1>9, <1>w DEF Execute, calls, Owned, HeldOnce, HeldOrSettling, Settling, Waiting, Created, WorkerBlocks,
     Recoverable, TypeOK, ControlTypes
<1>10. ASSUME NEW p \in Procs, Begin(p) \/ RecordCompleted(p) \/ RecordFailed(p) PROVE Owned'
  <2>0. PICK t \in Tasks : t = cur[p]
    BY <1>10, <1>w DEF Begin, RecordCompleted, RecordFailed, WorkerBlocks
  <2>1. /\ Recoverable(t) \/ Settling(p)
        /\ call[t] # "none" /\ t \notin Waiting(p) \cup Created(p) \cup recover[p]
    <3>1. Recoverable(t) \/ Settling(p)
      BY <2>0 DEF Owned, HeldOrSettling
    <3>2. t \notin Waiting(p) \cup Created(p) \cup recover[p]
      BY <2>0 DEF Owned, HeldOnce
    <3>3. rows[t].status # "none"
      BY <2>0, <3>1 DEF Recoverable, Settling
    <3>4. QED
      BY <3>1, <3>2, <3>3 DEF Owned, Nothing
  <2>2. UNCHANGED <<queue, recover, Created(p), phase, call>> /\ phase[p] # "down" /\ Waiting(p)' = Waiting(p)
    BY <1>10, <1>t DEF Begin, RecordCompleted, RecordFailed, calls, Created, InStep, LoopFree, Waiting
  <2>3. cur' = [cur EXCEPT ![p] = NoTask] \/ cur' = cur
    BY <1>10 DEF Begin, RecordCompleted, RecordFailed
  <2>4. NoTask \notin Waiting(p) \cup Created(p) \cup recover[p]
    BY <1>t DEF Waiting, Elems, Created
  <2>5. HeldOnce(p)'
    BY <2>2, <2>3, <2>4 DEF Owned, HeldOnce, TypeOK, ControlTypes
  <2>6. \A u \in Tasks \ {t} : rows'[u] = rows[u]
    BY <1>10, <2>0 DEF Begin, RecordCompleted, RecordFailed, Attempted, TypeOK, DataTypes
  <2>7. /\ cur'[p] = NoTask => ~WorkerBlocks(p)'
        /\ cur'[p] # NoTask => cur'[p] = t /\ (rows'[t].status = "running" \/ Settling(p)')
    <3>1. CASE Begin(p)
      <4>1. Recoverable(t)
        BY <2>1, <3>1 DEF Begin, Settling
      <4>2. \/ cur' = cur /\ pc'[p] = "running" /\ rows' = [rows EXCEPT ![t] = Written(@, "running", FALSE, FALSE)]
            \/ cur'[p] = NoTask /\ pc'[p] = "dead"
        BY <2>0, <3>1 DEF Begin, TypeOK, ControlTypes
      <4>3. QED
        BY <2>0, <4>1, <4>2 DEF Written, Recoverable, WorkerBlocks, TypeOK, DataTypes
    <3>2. CASE RecordCompleted(p)
      <4>1. rows[t].status = "running"
        BY <2>0, <3>2 DEF RecordCompleted, Owned, HeldOrSettling, Settling, WorkerBlocks, Settling
      <4>2. \/ cur'[p] = NoTask /\ pc'[p] = "idle"
            \/ /\ cur' = cur /\ pc'[p] = "raised" /\ DbFault
               /\ rows' = rows \/ rows' = [rows EXCEPT ![t] = Written(@, "completed", TRUE, FALSE)]
        BY <2>0, <3>2 DEF RecordCompleted, Attempted, TypeOK, ControlTypes
      <4>3. cur' = cur => rows'[t].status = "running" \/ rows'[t].status = "completed"
        BY <2>0, <4>1, <4>2 DEF Written, TypeOK, DataTypes
      <4>4. QED
        BY <2>0, <4>2, <4>3, FaultsLeft DEF Settling, WorkerBlocks
    <3>3. CASE RecordFailed(p)
      BY <3>3 DEF RecordFailed, WorkerBlocks, TypeOK, ControlTypes
    <3>4. QED
      BY <1>10, <3>1, <3>2, <3>3
  <2>8. HeldOrSettling(p)'
    <3>1. \A u \in Waiting(p) \cup Created(p) \cup recover[p] : u \in Tasks \ {t} /\ Recoverable(u)
      BY <1>t, <2>1 DEF Owned, HeldOrSettling, Settling, Waiting, Elems, Created
    <3>2. QED
      BY <2>2, <2>6, <2>7, <3>1 DEF HeldOrSettling, Recoverable
  <2>9. Unborn'
    BY <2>1, <2>2, <2>6 DEF Owned
  <2>10. QED
    BY <2>5, <2>8, <2>9 DEF Owned
<1>11. ASSUME NEW p \in Procs, Stop(p) PROVE Owned'
  BY <1>11, <1>t DEF Stop, Cancelled, calls, data, Owned, HeldOnce, HeldOrSettling, Settling, Waiting, Elems, Created, WorkerBlocks,
     Recoverable, TypeOK, ControlTypes
<1>12. ASSUME NEW p \in Procs, Gone(p) PROVE Owned'
  <2>1. Waiting(p)' = {} /\ queue'[p] = <<>> /\ recover'[p] = {} /\ cur'[p] = NoTask /\ pc'[p] = "off" /\ rows' = rows
    BY <1>12, <1>t DEF Gone, RowsAfterExit, Waiting, Elems, TypeOK, ControlTypes
  <2>2. Created(p)' = {}
    BY <1>12 DEF Gone, Created, InFlight, TypeOK, ControlTypes
  <2>3. HeldOnce(p)' /\ HeldOrSettling(p)'
    BY <2>1, <2>2 DEF HeldOnce, HeldOrSettling, Once, WorkerBlocks
  <2>4. Unborn'
    BY <1>12, <2>1 DEF Gone, Owned, TypeOK, ControlTypes
  <2>5. QED
    BY <2>3, <2>4 DEF Owned
<1>13. CASE UNCHANGED vars
  BY <1>13 DEF vars, life, calls, data, Owned, HeldOnce, HeldOrSettling, Settling, Waiting, Created, WorkerBlocks, Recoverable
<1>14. QED
  BY <1>1, <1>2, <1>3, <1>4, <1>5, <1>6, <1>7, <1>8, <1>9, <1>10, <1>11, <1>12, <1>13
     DEF Next, ProcNext, StartStep, RequestStep, WorkerStep, Exit, Crash

(* With one process over the database, no task is ever held twice, and what *)
(* is held is unfinished, or about to be written as failed.                 *)
LEMMA OwnedInvariant == OneOwner => (Spec => []Owned)
<1> SUFFICES ASSUME OneOwner PROVE Spec => []Owned
  OBVIOUS
<1>1. Init => Owned
  BY DEF Init, OneOwner, QueueOf, Queues, Owned, HeldOnce, HeldOrSettling, Once, Waiting, Elems, Created,
     WorkerBlocks
<1>2. TypeOK /\ Owned /\ [Next]_vars => Owned'
  BY OwnedStep
<1>3. QED
  BY <1>1, <1>2, TypeInvariant, PTL DEF Spec

(* Where no write raises, everything held is unfinished. *)
LEMMA OwnedIsOwnership == ASSUME Owned, MaxDbFaults = 0 PROVE Ownership
  BY DEF Owned, Ownership, HeldOrSettling, HeldUnfinished, Settling

(* One process over a database whose writes do not raise: no task is ever   *)
(* held twice, and what is held is unfinished, through stops, crashes and   *)
(* recoveries.                                                              *)
THEOREM OwnershipInvariant == OneOwner /\ MaxDbFaults = 0 => (Spec => []Ownership)
<1> SUFFICES ASSUME OneOwner, MaxDbFaults = 0 PROVE Spec => []Ownership
  OBVIOUS
<1>1. Owned => Ownership
  BY OwnedIsOwnership
<1>2. QED
  BY <1>1, OwnedInvariant, PTL

(* What the worker writes over is unfinished, for it is what it holds. *)
LEMMA TerminalStep ==
  ASSUME OneOwner, TypeOK, Ownership, [Next]_vars, NEW t \in Tasks, rows[t].status \in Terminal
  PROVE  rows'[t] = rows[t]
<1> SUFFICES ASSUME rows'[t] # rows[t] PROVE FALSE
  OBVIOUS
<1>1. call[t] # "none"
  BY DEF Ownership, Nothing, Terminal
<1>2. PICK p \in Procs : cur[p] = t
  BY <1>1, RowStep DEF OneOwner, Creates, Writes
<1>3. Recoverable(t)
  BY <1>2, NullAssumption DEF Ownership, HeldUnfinished
<1>4. QED
  BY <1>3 DEF Recoverable, Terminal

(* One process over a database whose writes do not raise: a stored          *)
(* completed or failed answer is never taken back, neither by a crash nor   *)
(* by the recovery after it.                                                *)
THEOREM TerminalAnswersAreFinal == OneOwner /\ MaxDbFaults = 0 => (Spec => TerminalIsFinal)
<1> SUFFICES ASSUME OneOwner, MaxDbFaults = 0 PROVE Spec => TerminalIsFinal
  OBVIOUS
<1>1. TypeOK /\ Ownership /\ [Next]_vars
        => [\A t \in Tasks : rows[t].status \in Terminal => rows'[t] = rows[t]]_vars
  BY TerminalStep
<1>2. Spec => []Ownership
  BY OwnershipInvariant
<1>3. QED
  BY <1>1, <1>2, TypeInvariant, PTL DEF Spec, TerminalIsFinal

(* A worker writes over a finished row only to settle it as failed. *)
LEMMA EndedRowStep ==
  ASSUME OneOwner, TypeOK, Owned, [Next]_vars, NEW t \in Tasks, rows[t].status \in Terminal
  PROVE  /\ rows'[t].status \in Terminal
         /\ rows[t].status = "failed" => rows'[t] = rows[t]
<1> SUFFICES ASSUME rows'[t] # rows[t] PROVE rows[t].status = "completed" /\ rows'[t].status = "failed"
  BY DEF Terminal
<1>1. call[t] # "none"
  BY DEF Owned, Nothing, Terminal
<1>2. PICK p \in Procs : Writes(p, t, rows'[t])
  BY <1>1, RowStep DEF OneOwner, Creates
<1>3. Settling(p)
  <2>1. ~Recoverable(t) /\ cur[p] = t
    BY <1>2 DEF Recoverable, Terminal, Writes
  <2>2. QED
    BY <2>1, NullAssumption DEF Owned, HeldOrSettling
<1>4. rows[t].status = "completed" /\ rows'[t] = Written(rows[t], "failed", FALSE, TRUE)
  BY <1>2, <1>3 DEF Writes, Settling
<1>5. QED
  BY <1>4 DEF Written

(* One process over the database, whatever writes raise, carried out or     *)
(* not: a task that has ended stays ended.  A completed row is taken back   *)
(* only as failed, and a failed one never.                                  *)
THEOREM EndedTasksStayEnded == OneOwner => (Spec => EndedStaysEnded)
<1> SUFFICES ASSUME OneOwner PROVE Spec => EndedStaysEnded
  OBVIOUS
<1>1. TypeOK /\ Owned /\ [Next]_vars
        => [\A t \in Tasks : rows[t].status \in Terminal =>
              /\ rows'[t].status \in Terminal
              /\ rows[t].status = "failed" => rows'[t] = rows[t]]_vars
  BY EndedRowStep
<1>2. Spec => []Owned
  BY OwnedInvariant
<1>3. QED
  BY <1>1, <1>2, TypeInvariant, PTL DEF Spec, EndedStaysEnded

(* Where no write raises, the rows follow the promised life of a task:      *)
(* every step of the service accepts, begins or finishes one task, or       *)
(* leaves all where they are.                                               *)
THEOREM LifecycleRefinement == OneOwner /\ MaxDbFaults = 0 => (Spec => Lifecycle!Safety)
<1> SUFFICES ASSUME OneOwner, MaxDbFaults = 0 PROVE Spec => Lifecycle!Safety
  OBVIOUS
<1> DEFINE bar == [t \in Tasks |-> rows[t].status]
<1>1. Init => Lifecycle!Init
  BY DEF Init, Lifecycle!Init, Nothing
<1>2. TypeOK /\ TypeOK' /\ Ownership /\ [Next]_vars => [Lifecycle!Next]_bar
  <2> SUFFICES ASSUME TypeOK, TypeOK', Ownership, [Next]_vars, bar' # bar PROVE Lifecycle!Next
    OBVIOUS
  <2> rows \in [Tasks -> Answers] /\ Durable
    BY DEF TypeOK, DataTypes, OneOwner
  <2>1. PICK t \in Tasks, a \in Answers : rows' = [rows EXCEPT ![t] = a]
    BY OneRowStep
  <2>2. rows'[t] = a /\ a.status # rows[t].status /\ bar' = [bar EXCEPT ![t] = a.status]
    BY <2>1
  <2>3. CASE Creates(t, a)
    <3>1. bar[t] = "none" /\ bar' = [bar EXCEPT ![t] = "queued"]
      BY <2>2, <2>3 DEF Creates, Ownership, Nothing, Fresh
    <3>2. QED
      BY <3>1 DEF Lifecycle!Next, Lifecycle!Accept
  <2>4. CASE \E p \in Procs : Writes(p, t, a)
    <3>1. PICK p \in Procs : Writes(p, t, a)
      BY <2>4
    <3>2. Recoverable(t) /\ (WorkerBlocks(p) => rows[t].status = "running")
      BY <3>1, NullAssumption DEF Writes, Ownership, HeldUnfinished
    <3>3. CASE a = Written(rows[t], "running", FALSE, FALSE)
      <4>1. bar[t] = "queued" /\ bar' = [bar EXCEPT ![t] = "running"]
        <5>1. a.status = "running"
          BY <3>2, <3>3 DEF Written, Recoverable
        <5>2. rows[t].status = "queued"
          BY <5>1, <2>2, <3>2 DEF Recoverable
        <5>3. QED
          BY <5>1, <5>2, <2>2
      <4>2. QED
        BY <4>1 DEF Lifecycle!Next, Lifecycle!Begin
    <3>4. CASE \/ pc[p] = "succeeded" /\ a = Written(rows[t], "completed", TRUE, FALSE)
               \/ pc[p] = "raised" /\ a = Written(rows[t], "failed", FALSE, TRUE)
      <4>1. bar[t] = "running" /\ a.status \in Terminal
        BY <3>2, <3>4 DEF Written, WorkerBlocks, Terminal
      <4>2. \E s \in Lifecycle!Terminal : bar' = [bar EXCEPT ![t] = s]
        BY <2>2, <4>1 DEF Terminal, Lifecycle!Terminal
      <4>3. QED
        BY <4>1, <4>2 DEF Lifecycle!Next, Lifecycle!Finish
    <3>5. QED
      BY <3>1, <3>3, <3>4 DEF Writes
  <2>5. rows'[t] # rows[t]
    BY <2>2
  <2>6. QED
    BY <2>2, <2>3, <2>4, <2>5, RowStep
<1>3. Spec => []Ownership
  BY OwnershipInvariant
<1>4. QED
  BY <1>1, <1>2, <1>3, TypeInvariant, PTL DEF Spec, Lifecycle!Safety
------------------------------------------------------------------------------
(* One process, over either queue and either table. *)
OneProcess == \E p : Procs = {p}

(* While p recovers, what is unfinished waits to be looked at or has been   *)
(* enqueued; once it serves with a live worker, it will be run.  Before a   *)
(* start, and after the worker died, nothing is promised.                   *)
Found(p, t) == t \in recover[p] \/ (t \in Waiting(p) /\ env[p][t] # Nothing)

Attended(p, t) ==
  /\ phase[p] = "recovering" => Found(p, t)
  /\ phase[p] = "up" /\ pc[p] # "dead" => WillRun(p, t)

AllAttended ==
  queueFaults = 0 => \A p \in Procs, t \in Tasks \ Unreadable :
                       Recoverable(t) /\ ~MayBeStray(t) => Attended(p, t)

(* A refused submit stays refused, and faults are not undone. *)
LEMMA StraysStay == ASSUME TypeOK, [Next]_vars, NEW t \in Tasks, MayBeStray(t) PROVE MayBeStray(t)'
<1>1. call[t] = "rejected" /\ dbFaults \in Nat /\ dbFaults > 0
  BY DEF MayBeStray, TypeOK, DataTypes
<1>2. call'[t] = "rejected" /\ (dbFaults' = dbFaults \/ dbFaults' = dbFaults + 1)
  <2>1. ASSUME NEW p \in Procs, StartStep(p) \/ RequestStep(p)
        PROVE  call'[t] = "rejected" /\ (dbFaults' = dbFaults \/ dbFaults' = dbFaults + 1)
    BY <2>1, <1>1 DEF StartStep, RequestStep, Start, RecoverNext, FinishStart, SubmitPersist, SubmitEnqueue, SubmitReturn,
       calls, faults, DbFault, TypeOK, ControlTypes
  <2>2. ASSUME NEW p \in Procs, WorkerStep(p)
        PROVE  call'[t] = "rejected" /\ (dbFaults' = dbFaults \/ dbFaults' = dbFaults + 1)
    BY <2>2, <1>1 DEF WorkerStep, Dequeue, Drop, Begin, Execute, RecordCompleted, RecordFailed, calls, faults, DbFault
  <2>3. ASSUME NEW p \in Procs, Stop(p) \/ Gone(p)
        PROVE  call'[t] = "rejected" /\ (dbFaults' = dbFaults \/ dbFaults' = dbFaults + 1)
    BY <2>3, <1>1 DEF Stop, Gone, InFlight, calls, TypeOK, ControlTypes
  <2>4. CASE UNCHANGED vars
    BY <2>4, <1>1 DEF vars, calls, faults
  <2> QED
    BY <2>1, <2>2, <2>3, <2>4 DEF Next, ProcNext, Exit, Crash
<1>3. QED
  BY <1>1, <1>2 DEF MayBeStray

(* No step of the one process drops what it attends to: an id leaves the    *)
(* queue only for the worker, and the worker only with a finished row.      *)
LEMMA AttendedStep ==
  ASSUME OneProcess, TypeOK, AllAttended, [Next]_vars
  PROVE  AllAttended'
<1> USE NullAssumption
<1> SUFFICES ASSUME queueFaults' = 0, NEW p \in Procs, NEW t \in Tasks, t \notin Unreadable, Recoverable(t)',
                    ~MayBeStray(t)'
             PROVE  Attended(p, t)'
  BY DEF AllAttended
<1>t. /\ p \in DOMAIN env /\ t \in DOMAIN env[p] /\ t \in DOMAIN rows /\ InStep(p) /\ QueueOf(p) \in DOMAIN queue
      /\ queue[QueueOf(p)] \in Seq(Tasks) /\ env[p][t] \in Answers /\ rows[t] \in Answers
      /\ QueueOf(p)' = QueueOf(p)
  BY DEF TypeOK, DataTypes, QueueOf, Queues
<1>p. \A q \in Procs : q = p
  BY DEF OneProcess
<1>a. queueFaults = 0 /\ Recoverable(t) => Attended(p, t)
  BY StraysStay DEF AllAttended
<1>1. CASE Start(p)
  BY <1>1, <1>t DEF Start, ListRecoverable, Attended, Found, Recoverable, data, TypeOK, ControlTypes
<1>2. ASSUME NEW u \in Tasks, RecoverNext(p, u) PROVE Attended(p, t)'
  <2>1. queueFaults = 0 /\ Recoverable(t) /\ phase[p] = "recovering" /\ phase' = phase
    BY <1>2 DEF RecoverNext, QueueFault, data, Recoverable, TypeOK, DataTypes
  <2>2. Found(p, t)
    BY <1>a, <2>1 DEF Attended
  <2>3. CASE u \in Unreadable
    <3>1. u # t /\ recover' = [recover EXCEPT ![p] = @ \ {u}] /\ UNCHANGED data
      BY <1>2, <2>3 DEF RecoverNext
    <3>2. QED
      BY <3>1, <2>1, <2>2 DEF Found, Attended, Waiting, data, TypeOK, ControlTypes
  <2>4. CASE u \notin Unreadable
    <3>1. /\ recover' = [recover EXCEPT ![p] = @ \ {u}] /\ env' = [env EXCEPT ![p][u] = Fresh]
          /\ queue' = Enqueued(p, u)
      BY <1>2, <2>1, <2>4 DEF RecoverNext, QueueFault
    <3>2. queue'[QueueOf(p)] = Append(queue[QueueOf(p)], u)
      BY <1>t, <3>1 DEF Enqueued
    <3>3. Waiting(p)' = Waiting(p) \cup {u}
      BY <1>t, <3>2, AppendOnce DEF Waiting
    <3>4. env'[p][t] = IF t = u THEN Fresh ELSE env[p][t]
      BY <1>t, <3>1
    <3>5. QED
      BY <2>1, <2>2, <3>1, <3>3, <3>4 DEF Found, Attended, Fresh, Nothing, TypeOK, ControlTypes
  <2>5. QED
    BY <2>3, <2>4
<1>3. CASE FinishStart(p)
  BY <1>3, <1>a DEF FinishStart, Attended, Found, WillRun, Waiting, Recoverable, data, faults, TypeOK, ControlTypes
<1>4. ASSUME NEW u \in Tasks, SubmitPersist(p, u) PROVE Attended(p, t)'
  <2>1. queueFaults = 0 /\ phase[p] = "up" /\ UNCHANGED <<life, queue>>
    BY <1>4 DEF SubmitPersist, LoopFree
  <2>2. env'[p][t] = IF t = u THEN Fresh ELSE env[p][t]
    BY <1>4, <1>t DEF SubmitPersist
  <2>3. CASE t = u
    <3>1. call'[t] = "created"
      <4>1. call'[t] \in {"created", "rejected"} /\ (call'[t] = "rejected" => dbFaults' > 0)
        BY <1>4, <2>3 DEF SubmitPersist, DbFault, TypeOK, ControlTypes, DataTypes
      <4>2. QED
        BY <4>1 DEF MayBeStray
    <3>2. t \in Created(p)'
      BY <1>4, <2>3, <3>1 DEF SubmitPersist, Created, TypeOK, ControlTypes
    <3>3. QED
      BY <2>1, <2>2, <2>3, <3>2 DEF life, Attended, WillRun, Fresh, Nothing
  <2>4. CASE t # u
    <3>1. Recoverable(t)
      BY <1>4, <2>4, <1>t DEF SubmitPersist, Attempted, Recoverable
    <3>2. t \in Created(p) => t \in Created(p)'
      BY <1>4, <2>4 DEF SubmitPersist, Created, TypeOK, ControlTypes
    <3>3. QED
      BY <1>a, <2>1, <2>2, <2>4, <3>1, <3>2 DEF life, Attended, WillRun, Waiting
  <2>5. QED
    BY <2>3, <2>4
<1>5. ASSUME NEW u \in Tasks, SubmitEnqueue(p, u) PROVE Attended(p, t)'
  <2>1. queueFaults = 0 /\ Recoverable(t) /\ UNCHANGED <<life, env>> /\ queue' = Enqueued(p, u)
    BY <1>5 DEF SubmitEnqueue, QueueFault, Recoverable, TypeOK, DataTypes
  <2>2. phase[p] = "up"
    BY <1>5, <1>t DEF SubmitEnqueue, InStep, InFlight
  <2>3. queue'[QueueOf(p)] = Append(queue[QueueOf(p)], u)
    BY <1>t, <2>1 DEF Enqueued
  <2>4. Waiting(p)' = Waiting(p) \cup {u}
    BY <1>t, <2>3, AppendOnce DEF Waiting
  <2>5. t \in Created(p) => t = u \/ t \in Created(p)'
    BY <1>5 DEF SubmitEnqueue, Created, TypeOK, ControlTypes
  <2>6. QED
    BY <1>a, <2>1, <2>2, <2>4, <2>5 DEF life, Attended, WillRun
<1>6. ASSUME NEW u \in Tasks, SubmitReturn(p, u) PROVE Attended(p, t)'
  <2>1. t \in Created(p) => t \in Created(p)'
    BY <1>6 DEF SubmitReturn, Created, TypeOK, ControlTypes
  <2>2. queueFaults = 0 /\ Recoverable(t) /\ phase[p] = "up" /\ UNCHANGED <<life, data>>
    BY <1>6, <1>t DEF SubmitReturn, InStep, InFlight, faults, data, Recoverable
  <2>3. QED
    BY <1>a, <2>1, <2>2 DEF life, data, Attended, WillRun, Waiting
<1>7. CASE Dequeue(p)
  <2>1. queueFaults = 0 /\ Recoverable(t) /\ phase'[p] = "up" /\ phase[p] = "up" /\ pc[p] # "dead" /\ cur[p] = NoTask
    BY <1>7, <1>t DEF Dequeue, LoopFree, Recoverable, QueueFault, InStep, TypeOK, DataTypes
  <2>2. Waiting(p) = Waiting(p)' \cup {cur'[p]}
    <3>1. queue'[QueueOf(p)] = Tail(queue[QueueOf(p)]) /\ cur'[p] = Head(queue[QueueOf(p)])
      BY <1>7, <1>t, <2>1 DEF Dequeue, Dequeued, QueueFault, TypeOK, ControlTypes, DataTypes
    <3>2. QED
      BY <1>7, <1>t, <3>1, TailOnce DEF Dequeue, Waiting
  <2>3. Created(p)' = Created(p) /\ env' = env
    BY <1>7 DEF Dequeue, Created, calls
  <2>4. QED
    BY <1>a, <2>1, <2>2, <2>3 DEF Attended, WillRun
<1>8. CASE Drop(p)
  <2>1. queueFaults = 0 /\ Recoverable(t) /\ phase[p] = "up" /\ pc[p] # "dead" /\ UNCHANGED <<phase, calls, data>>
    BY <1>8 DEF Drop, LoopFree, Recoverable, faults, data
  <2>2. WillRun(p, t) /\ t # cur[p]
    BY <1>8, <1>a, <2>1 DEF Attended, WillRun, Drop
  <2>3. QED
    BY <2>1, <2>2 DEF Attended, WillRun, Waiting, Created, calls, data
<1>9. CASE Begin(p)
  <2>1. /\ queueFaults = 0 /\ phase[p] = "up" /\ pc[p] # "dead" /\ UNCHANGED <<phase, calls, queue>>
        /\ pc'[p] # "dead" => cur' = cur
    BY <1>9 DEF Begin, LoopFree, TypeOK, ControlTypes
  <2>2. cur[p] \in Tasks /\ env[p][cur[p]] # Nothing /\ env'[p][cur[p]] # Nothing
    BY <1>9, WorkerTaskType DEF Begin, Started, Nothing, TypeOK, DataTypes, Answers
  <2>3. CASE t = cur[p]
    BY <2>1, <2>2, <2>3 DEF Attended, WillRun
  <2>4. CASE t # cur[p]
    <3>1. Recoverable(t) /\ env'[p][t] = env[p][t]
      BY <1>9, <1>t, <2>2, <2>4 DEF Begin, Attempted, Recoverable
    <3>2. QED
      BY <1>a, <2>1, <2>4, <3>1 DEF Attended, WillRun, Waiting, Created, calls
  <2>5. QED
    BY <2>3, <2>4
<1>10. CASE Execute(p)
  <2>1. /\ queueFaults = 0 /\ Recoverable(t) /\ phase[p] = "up" /\ pc[p] # "dead"
        /\ UNCHANGED <<phase, calls, queue, cur>>
    BY <1>10, <1>t DEF Execute, faults, Recoverable, InStep, TypeOK, ControlTypes
  <2>2. env[p][t] # Nothing => env'[p][t] # Nothing
    <3>1. cur[p] \in DOMAIN env[p]
      BY <1>10, WorkerTaskType DEF Execute, TypeOK, DataTypes
    <3>2. env'[p][t] \in {env[p][t], Completed(env[p][t]), Failed(env[p][t])}
      BY <1>10, <1>t, <3>1 DEF Execute
    <3>3. Completed(env[p][t]).status # "none" /\ Failed(env[p][t]).status # "none"
      BY <1>t DEF Completed, Failed, Answers
    <3>4. QED
      BY <3>2, <3>3 DEF Nothing
  <2>3. QED
    BY <1>a, <2>1, <2>2 DEF Attended, WillRun, Waiting, Created, calls
<1>11. CASE RecordCompleted(p) \/ RecordFailed(p)
  <2>0. PICK u \in Tasks : u = cur[p]
    BY <1>11, WorkerTaskType DEF RecordCompleted, RecordFailed
  <2>1. queueFaults = 0 /\ phase[p] = "up" /\ pc[p] # "dead" /\ UNCHANGED <<phase, calls, queue>>
    BY <1>11, <1>t DEF RecordCompleted, RecordFailed, InStep
  <2>2. \/ rows' = [rows EXCEPT ![u] = Written(@, "completed", TRUE, FALSE)] /\ cur'[p] = NoTask /\ env' = env
        \/ cur' = cur /\ env' = [env EXCEPT ![p][u] = Failed(@)]
        \/ rows' = [rows EXCEPT ![u] = Written(@, "failed", FALSE, TRUE)] /\ cur'[p] = NoTask /\ env' = env
        \/ pc'[p] = "dead" /\ env' = env
    BY <1>11, <2>0 DEF RecordCompleted, RecordFailed, TypeOK, ControlTypes
  <2>3. CASE t = u
    <3>1. CASE cur' = cur /\ env' = [env EXCEPT ![p][u] = Failed(@)]
      <4>1. env'[p][t].status = "failed"
        BY <1>t, <2>3, <3>1 DEF Failed, Answers
      <4>2. QED
        BY <2>0, <2>1, <2>3, <3>1, <4>1 DEF Attended, WillRun, Nothing
    <3>2. \A w \in Terminal, r, e \in BOOLEAN : Written(rows[t], w, r, e).status \in Terminal \cup {"none"}
      BY DEF Written
    <3>3. CASE \/ rows' = [rows EXCEPT ![u] = Written(@, "completed", TRUE, FALSE)]
               \/ rows' = [rows EXCEPT ![u] = Written(@, "failed", FALSE, TRUE)]
      <4>1. \/ rows'[t] = Written(rows[t], "completed", TRUE, FALSE)
            \/ rows'[t] = Written(rows[t], "failed", FALSE, TRUE)
        BY <1>t, <2>3, <3>3
      <4>2. rows'[t].status \in Terminal \cup {"none"}
        BY <3>2, <4>1 DEF Terminal
      <4>3. QED
        BY <4>2 DEF Recoverable, Terminal
    <3>4. QED
      BY <2>1, <2>2, <3>1, <3>3 DEF Attended
  <2>4. CASE t # u
    <3>1. Recoverable(t)
      BY <1>11, <1>t, <2>0, <2>4 DEF RecordCompleted, RecordFailed, Attempted, Recoverable
    <3>2. env'[p][t] = env[p][t]
      BY <1>t, <2>2, <2>4
    <3>3. QED
      BY <1>a, <2>0, <2>1, <2>4, <3>1, <3>2 DEF Attended, WillRun, Waiting, Created, calls
  <2>5. QED
    BY <2>3, <2>4
<1>12. CASE Stop(p) \/ Gone(p)
  BY <1>12 DEF Stop, Gone, Attended, TypeOK, ControlTypes
<1>13. CASE UNCHANGED vars
  BY <1>13, <1>a DEF vars, life, calls, data, faults, Attended, Found, WillRun, Waiting, Created, Recoverable
<1>14. QED
  BY <1>p, <1>1, <1>2, <1>3, <1>4, <1>5, <1>6, <1>7, <1>8, <1>9, <1>10, <1>11, <1>12, <1>13
     DEF Next, ProcNext, StartStep, RequestStep, WorkerStep, Exit, Crash

(* A process that shares its queue with nobody loses no task: whatever      *)
(* stops, crashes and database faults came before, once it serves with a    *)
(* live worker every unfinished row is on its way to that worker, but for   *)
(* the row that a submit may leave whose create() raised.                   *)
THEOREM NoTaskIsLost == OneProcess => (Spec => []NoTaskLost)
<1> SUFFICES ASSUME OneProcess PROVE Spec => []NoTaskLost
  OBVIOUS
<1>1. Init => AllAttended
  BY DEF Init, AllAttended, Recoverable, Nothing
<1>2. TypeOK /\ AllAttended /\ [Next]_vars => AllAttended'
  BY AttendedStep
<1>3. AllAttended => NoTaskLost
  BY DEF AllAttended, NoTaskLost, Attended, OneProcess
<1>4. QED
  BY <1>1, <1>2, <1>3, TypeInvariant, PTL DEF Spec
------------------------------------------------------------------------------
\* A worker that has died is not brought back to life by start().
Restored == \A p \in Procs : phase[p] = "recovering" => pc[p] # "dead"

(* A start recovers only where the worker is gone with its process or was   *)
(* stopped; a worker dies only while its process is up.                     *)
LEMMA RestoredInvariant == Spec => []Restored
<1>1. Init => Restored
  BY DEF Init, Restored
<1>2. TypeOK /\ Restored /\ [Next]_vars => Restored'
  <2> SUFFICES ASSUME TypeOK, Restored, [Next]_vars PROVE Restored'
    OBVIOUS
  <2>t. /\ phase \in [Procs -> {"down", "recovering", "up", "stopped"}]
        /\ pc \in [Procs -> {"off", "idle", "got", "running", "succeeded", "raised", "dead"}]
    BY DEF TypeOK, ControlTypes
  <2>i. \A p \in Procs : phase[p] # "up" => pc[p] \in {"off", "dead"}
    BY DEF TypeOK, InStep
  <2>1. ASSUME NEW q \in Procs, StartStep(q) PROVE Restored'
    BY <2>1, <2>t DEF StartStep, Start, RecoverNext, FinishStart, Restored
  <2>2. ASSUME NEW q \in Procs, RequestStep(q) PROVE Restored'
    BY <2>2 DEF RequestStep, SubmitPersist, SubmitEnqueue, SubmitReturn, life, Restored
  <2>3. ASSUME NEW q \in Procs, WorkerStep(q) PROVE Restored'
    <3>1. phase' = phase /\ \A p \in Procs \ {q} : pc'[p] = pc[p]
      BY <2>3, <2>t DEF WorkerStep, Dequeue, Drop, Begin, Execute, RecordCompleted, RecordFailed
    <3>2. phase[q] = "up"
      BY <2>3, <2>t, <2>i DEF WorkerStep, Dequeue, Drop, Begin, Execute, RecordCompleted, RecordFailed
    <3> QED
      BY <3>1, <3>2 DEF Restored
  <2>4. ASSUME NEW q \in Procs, Stop(q) \/ Gone(q) PROVE Restored'
    BY <2>4, <2>t DEF Stop, Cancelled, Gone, Restored
  <2>5. CASE UNCHANGED vars
    BY <2>5 DEF vars, life, Restored
  <2> QED
    BY <2>1, <2>2, <2>3, <2>4, <2>5 DEF Next, ProcNext, Exit, Crash
<1> QED
  BY <1>1, <1>2, TypeInvariant, PTL DEF Spec

(* What the one process keeps in memory: an unfinished envelope has neither *)
(* result nor error; a finished one, unless the worker is about to write    *)
(* it, is what the row says.  Where a write of a row may raise that is so   *)
(* only of a completed one: a failed one may have kept a result, or have    *)
(* taken the worker with it.                                                *)
Reporting(p, t) == cur[p] = t /\ pc[p] \in {"succeeded", "raised"}

Reported(p, t) ==
  /\ env[p][t].status = "completed" \/ MaxDbFaults = 0 => rows[t] = env[p][t]
  /\ pc[p] # "dead" => rows[t].status = env[p][t].status

Envelope(p, t) ==
  /\ env[p][t].status \notin Terminal => ~env[p][t].result /\ ~env[p][t].error
  /\ env[p][t].status \in Terminal /\ ~Reporting(p, t) => Reported(p, t)

InHand(p) ==
  /\ pc[p] = "running"   => env[p][cur[p]] = [status |-> "running", result |-> FALSE, error |-> FALSE]
  /\ pc[p] = "succeeded" => env[p][cur[p]] = [status |-> "completed", result |-> TRUE, error |-> FALSE]
  /\ pc[p] = "raised"    =>
       /\ env[p][cur[p]].status = "failed"
       /\ MaxDbFaults = 0 => env[p][cur[p]] = [status |-> "failed", result |-> FALSE, error |-> TRUE]

InMemory == \A p \in Procs : InHand(p) /\ \A t \in Tasks : Envelope(p, t)

(* What the worker makes of the envelope of a task it executes. *)
LEMMA MarkedRunning ==
  LET a == [status |-> "running", result |-> FALSE, error |-> FALSE]
  IN  /\ Completed(a) = [status |-> "completed", result |-> TRUE, error |-> FALSE]
      /\ Failed(a) = [status |-> "failed", result |-> FALSE, error |-> TRUE]
<1> DEFINE a == [status |-> "running", result |-> FALSE, error |-> FALSE]
           c == [status |-> "completed", result |-> TRUE, error |-> FALSE]
           f == [status |-> "failed", result |-> FALSE, error |-> TRUE]
<1>1. {a, c, f} \subseteq Answers
  BY DEF Answers, Statuses, Terminal
<1>2. \A x, y \in Answers : x.status = y.status /\ x.result = y.result /\ x.error = y.error => x = y
  BY DEF Answers
<1>3. \A x \in Answers : /\ Completed(x) \in Answers /\ Failed(x) \in Answers
                         /\ Completed(x).status = "completed" /\ Completed(x).result = TRUE
                         /\ Failed(x).status = "failed" /\ Failed(x).error = TRUE
                         /\ Completed(x).error = x.error /\ Failed(x).result = x.result
  BY DEF Completed, Failed, Answers, Statuses, Terminal
<1>4. /\ a.result = FALSE /\ a.error = FALSE
      /\ c.status = "completed" /\ c.result = TRUE /\ c.error = FALSE
      /\ f.status = "failed" /\ f.result = FALSE /\ f.error = TRUE
  OBVIOUS
<1> HIDE DEF a, c, f
<1>5. Completed(a) = c
  <2>1. Completed(a).status = c.status /\ Completed(a).result = c.result /\ Completed(a).error = c.error
    BY <1>1, <1>3, <1>4
  <2> QED
    BY <1>1, <1>2, <1>3, <2>1
<1>6. Failed(a) = f
  <2>1. Failed(a).status = f.status /\ Failed(a).result = f.result /\ Failed(a).error = f.error
    BY <1>1, <1>3, <1>4
  <2> QED
    BY <1>1, <1>2, <1>3, <2>1
<1> QED
  BY <1>5, <1>6 DEF a, c, f

(* The worker meets no finished envelope, since what it holds is unfinished *)
(* in the database, or else it is about to write it; that is where Owned is *)
(* needed.                                                                  *)
LEMMA InMemoryStep ==
  ASSUME OneOwner, TypeOK, Restored, Owned, InMemory, [Next]_vars
  PROVE  InMemory'
<1> USE NullAssumption
<1>f. MaxDbFaults = 0 => ~DbFault
  BY FaultsLeft
<1>p. \A p, q \in Procs : p = q
  BY DEF OneOwner
<1>t. ASSUME NEW p \in Procs
      PROVE  /\ env \in [Procs -> [Tasks -> Answers]] /\ rows \in [Tasks -> Answers] /\ InStep(p)
             /\ InHand(p) /\ \A t \in Tasks : Envelope(p, t)
  BY DEF TypeOK, DataTypes, InMemory
<1>h. ASSUME NEW p \in Procs, cur[p] # NoTask PROVE cur[p] \in Tasks /\ (Recoverable(cur[p]) \/ Settling(p))
  BY <1>h DEF TypeOK, ControlTypes, Owned, HeldOrSettling
<1>k. ASSUME NEW p \in Procs, UNCHANGED <<env, rows>>, pc'[p] \notin {"running", "succeeded", "raised"},
             pc[p] \notin {"succeeded", "raised"}, pc'[p] = "dead" \/ pc[p] # "dead"
      PROVE  InHand(p)' /\ \A t \in Tasks : Envelope(p, t)'
  BY <1>k, <1>t DEF InHand, Envelope, Reported, Reporting
<1>g. ASSUME NEW p \in Procs, NEW u \in Tasks, env' = [env EXCEPT ![p][u] = Fresh], UNCHANGED <<pc, cur>>,
             \A t \in Tasks \ {u} : rows'[t] = rows[t], pc[p] \notin {"running", "succeeded", "raised"}
      PROVE  InHand(p)' /\ \A t \in Tasks : Envelope(p, t)'
  <2>1. env'[p][u] = Fresh /\ \A t \in Tasks \ {u} : env'[p][t] = env[p][t]
    BY <1>g, <1>t
  <2> QED
    BY <1>g, <1>t, <2>1 DEF InHand, Envelope, Reported, Reporting, Fresh, Terminal
<1>1. ASSUME NEW p \in Procs, Start(p) \/ FinishStart(p) \/ Dequeue(p) \/ Drop(p) \/ Stop(p)
      PROVE  InMemory'
  <2>1. UNCHANGED <<env, rows>>
    BY <1>1 DEF Start, FinishStart, Dequeue, Drop, Stop, data
  <2>2. /\ pc[p] \notin {"running", "succeeded", "raised"} /\ pc'[p] \notin {"running", "succeeded", "raised"}
        /\ pc'[p] = "dead" \/ pc[p] # "dead"
    BY <1>1, <1>t DEF Start, FinishStart, Dequeue, Drop, Stop, Cancelled, InStep, Restored, TypeOK, ControlTypes
  <2> QED
    BY <1>k, <1>p, <2>1, <2>2 DEF InMemory
<1>2. ASSUME NEW p \in Procs, NEW u \in Tasks, RecoverNext(p, u) PROVE InMemory'
  <2>1. pc[p] \notin {"running", "succeeded", "raised", "dead"} /\ UNCHANGED <<pc, cur, rows>>
    BY <1>2, <1>t DEF RecoverNext, InStep, Restored, data
  <2>2. env' = env \/ env' = [env EXCEPT ![p][u] = Fresh]
    BY <1>2 DEF RecoverNext, data
  <2> QED
    BY <1>k, <1>g, <1>p, <2>1, <2>2 DEF InMemory
<1>3. ASSUME NEW p \in Procs, NEW u \in Tasks, SubmitPersist(p, u) PROVE InMemory'
  <2>1. pc[p] \notin {"running", "succeeded", "raised"} /\ UNCHANGED <<pc, cur>>
    BY <1>3 DEF SubmitPersist, LoopFree, WorkerBlocks, life
  <2>2. env' = [env EXCEPT ![p][u] = Fresh] /\ \A t \in Tasks \ {u} : rows'[t] = rows[t]
    BY <1>3, <1>t DEF SubmitPersist, Attempted
  <2> QED
    BY <1>g, <1>p, <2>1, <2>2 DEF InMemory
<1>4. ASSUME NEW p \in Procs, NEW u \in Tasks, SubmitEnqueue(p, u) \/ SubmitReturn(p, u) PROVE InMemory'
  BY <1>4 DEF SubmitEnqueue, SubmitReturn, life, data, InMemory, InHand, Envelope, Reported, Reporting
<1>5. ASSUME NEW p \in Procs, Begin(p) PROVE InMemory'
  <2>0. PICK t \in Tasks : t = cur[p]
    BY <1>5, <1>t, <1>h DEF Begin, InStep
  <2>1. t \in Tasks /\ Recoverable(t)
    BY <1>5, <1>t, <1>h, <2>0 DEF Begin, InStep, Settling
  <2>2. env[p][t].status \notin Terminal
    BY <1>5, <1>t, <2>1 DEF Begin, Envelope, Reported, Reporting, Recoverable, Terminal
  <2>3. /\ env' = [env EXCEPT ![p][t] = Started(@)]
        /\ rows' = [rows EXCEPT ![t] = Written(@, "running", FALSE, FALSE)] \/ rows' = rows
    BY <1>5, <2>0 DEF Begin, Attempted
  <2>4. env'[p][t] = [status |-> "running", result |-> FALSE, error |-> FALSE]
    <3>1. ~env[p][t].result /\ ~env[p][t].error /\ env[p][t] \in Answers
      BY <1>t, <2>1, <2>2 DEF Envelope
    <3>2. env'[p][t] = Started(env[p][t])
      BY <1>t, <2>1, <2>3
    <3> QED
      BY <3>1, <3>2 DEF Started, Answers
  <2>5. \A u \in Tasks \ {t} : env'[p][u] = env[p][u] /\ rows'[u] = rows[u]
    BY <1>t, <2>1, <2>3
  <2>6. ((pc'[p] = "running" /\ cur'[p] = t) \/ pc'[p] = "dead") /\ pc[p] = "got"
    BY <1>5, <2>0 DEF Begin, TypeOK, ControlTypes
  <2>7. InHand(p)' /\ \A u \in Tasks : Envelope(p, u)'
    <3>1. InHand(p)'
      BY <2>4, <2>6 DEF InHand
    <3>2. Envelope(p, t)'
      BY <2>4 DEF Envelope, Terminal
    <3>3. ASSUME NEW u \in Tasks \ {t} PROVE Envelope(p, u)'
      <4>1. Envelope(p, u) /\ ~Reporting(p, u)
        BY <1>t, <2>6 DEF Reporting
      <4> QED
        BY <2>5, <2>6, <4>1 DEF Envelope, Reported
    <3> QED
      BY <3>1, <3>2, <3>3
  <2> QED
    BY <1>p, <2>7 DEF InMemory
<1>6. ASSUME NEW p \in Procs, Execute(p) PROVE InMemory'
  <2>0. PICK t \in Tasks : t = cur[p]
    BY <1>6, <1>t, <1>h DEF Execute, InStep
  <2>1. t \in Tasks /\ env[p][t] = [status |-> "running", result |-> FALSE, error |-> FALSE]
    BY <1>6, <1>t, <2>0 DEF Execute, InHand
  <2>2. /\ rows' = rows /\ cur'[p] = t
        /\ \/ pc'[p] = "succeeded" /\ env' = [env EXCEPT ![p][t] = Completed(@)]
           \/ pc'[p] = "raised" /\ env' = [env EXCEPT ![p][t] = Failed(@)]
    BY <1>6, <2>0 DEF Execute, TypeOK, ControlTypes
  <2>3. \/ pc'[p] = "succeeded" /\ env'[p][t] = [status |-> "completed", result |-> TRUE, error |-> FALSE]
        \/ pc'[p] = "raised" /\ env'[p][t] = [status |-> "failed", result |-> FALSE, error |-> TRUE]
    <3>1. \/ pc'[p] = "succeeded" /\ env'[p][t] = Completed(env[p][t])
          \/ pc'[p] = "raised" /\ env'[p][t] = Failed(env[p][t])
      BY <1>t, <2>1, <2>2
    <3>2. /\ Completed(env[p][t]) = [status |-> "completed", result |-> TRUE, error |-> FALSE]
          /\ Failed(env[p][t]) = [status |-> "failed", result |-> FALSE, error |-> TRUE]
      BY <2>1, MarkedRunning
    <3> QED
      BY <3>1, <3>2
  <2>4. \A u \in Tasks \ {t} : env'[p][u] = env[p][u]
    BY <1>t, <2>1, <2>2
  <2>5. pc[p] = "running"
    BY <1>6 DEF Execute
  <2>6. InHand(p)'
    BY <2>2, <2>3 DEF InHand
  <2>7. Envelope(p, t)'
    <3>1. Reporting(p, t)'
      BY <2>2, <2>3 DEF Reporting
    <3>2. env'[p][t].status \in {"completed", "failed"}
      BY <2>3
    <3> QED
      BY <3>1, <3>2 DEF Envelope, Terminal
  <2>8. \A u \in Tasks \ {t} : Envelope(p, u)'
    BY <1>t, <2>2, <2>4, <2>5 DEF Envelope, Reported, Reporting
  <2>9. \A u \in Tasks : Envelope(p, u)'
    BY <2>7, <2>8
  <2> QED
    BY <1>p, <2>6, <2>9 DEF InMemory
<1>7. ASSUME NEW p \in Procs, RecordCompleted(p) \/ RecordFailed(p) PROVE InMemory'
  <2>0. PICK t \in Tasks : t = cur[p]
    BY <1>7, <1>t, <1>h DEF RecordCompleted, RecordFailed, InStep
  <2>1. rows[t].status # "none"
    BY <1>7, <1>t, <1>h, <2>0 DEF RecordCompleted, RecordFailed, InStep, Recoverable, Settling
  <2> DEFINE c == [status |-> "completed", result |-> TRUE, error |-> FALSE]
             f == [status |-> "failed", result |-> FALSE, error |-> TRUE]
  <2>w. Written(rows[t], "completed", TRUE, FALSE) = c /\ Written(rows[t], "failed", FALSE, TRUE) = f
    BY <2>1 DEF Written, OneOwner
  <2>2. /\ \A u \in Tasks \ {t} : rows'[u] = rows[u] /\ env'[p][u] = env[p][u]
        /\ pc[p] \in {"succeeded", "raised"} /\ pc'[p] \in {"idle", "raised", "dead"}
    <3>1. env' = env \/ env' = [env EXCEPT ![p][t] = Failed(@)]
      BY <1>7, <2>0 DEF RecordCompleted, RecordFailed
    <3>2. \A u \in Tasks \ {t} : env'[p][u] = env[p][u]
      BY <1>t, <3>1
    <3>3. \A u \in Tasks \ {t} : rows'[u] = rows[u]
      BY <1>7, <1>t, <2>0 DEF RecordCompleted, RecordFailed, Attempted
    <3>4. pc[p] \in {"succeeded", "raised"} /\ pc'[p] \in {"idle", "raised", "dead"}
      BY <1>7 DEF RecordCompleted, RecordFailed, TypeOK, ControlTypes
    <3> QED
      BY <3>2, <3>3, <3>4
  <2>3. Envelope(p, t)' /\ InHand(p)'
    <3>1. CASE pc[p] = "succeeded" /\ pc'[p] = "idle"
      <4>1. /\ env[p][t] = c /\ env' = env
            /\ rows' = [rows EXCEPT ![t] = Written(@, "completed", TRUE, FALSE)]
        BY <3>1, <1>7, <1>t, <2>0 DEF RecordCompleted, RecordFailed, InHand, TypeOK, ControlTypes
      <4>2. env'[p][t] = c /\ rows'[t] = c
        BY <1>t, <2>w, <4>1
      <4> QED
        BY <3>1, <4>2 DEF Envelope, InHand, Reported, Terminal
    <3>2. CASE pc[p] = "succeeded" /\ pc'[p] # "idle"
      <4>1. pc'[p] = "raised" /\ cur'[p] = t /\ MaxDbFaults # 0 /\ env' = [env EXCEPT ![p][t] = Failed(@)]
        BY <3>2, <1>7, <1>f, <2>0 DEF RecordCompleted, RecordFailed, TypeOK, ControlTypes
      <4>2. env'[p][t].status = "failed"
        <5>1. env'[p][t] = Failed(env[p][t])
          BY <1>t, <4>1
        <5> QED
          BY <1>t, <5>1 DEF Failed, Answers
      <4> QED
        BY <4>1, <4>2 DEF Envelope, InHand, Reporting, Terminal
    <3>3. CASE pc[p] = "raised"
      <4>1. env' = env /\ env[p][t].status = "failed" /\ (MaxDbFaults = 0 => env[p][t] = f)
        BY <3>3, <1>7, <1>t, <2>0 DEF RecordCompleted, RecordFailed, InHand
      <4>2. \/ rows' = [rows EXCEPT ![t] = Written(@, "failed", FALSE, TRUE)] /\ pc'[p] = "idle"
            \/ pc'[p] = "dead" /\ MaxDbFaults # 0
        BY <3>3, <1>7, <1>f, <2>0 DEF RecordCompleted, RecordFailed, TypeOK, ControlTypes
      <4>3. (rows'[t] = f /\ pc'[p] = "idle") \/ (pc'[p] = "dead" /\ MaxDbFaults # 0)
        <5>1. CASE rows' = [rows EXCEPT ![t] = Written(@, "failed", FALSE, TRUE)] /\ pc'[p] = "idle"
          BY <5>1, <1>t, <2>w
        <5> QED
          BY <4>2, <5>1
      <4> QED
        BY <4>1, <4>3 DEF Envelope, InHand, Reported, Terminal
    <3> QED
      BY <2>2, <3>1, <3>2, <3>3
  <2> HIDE DEF c, f
  <2>4. \A u \in Tasks : Envelope(p, u)'
    <3>1. ASSUME NEW u \in Tasks \ {t} PROVE Envelope(p, u)'
      <4>1. Envelope(p, u) /\ ~Reporting(p, u) /\ pc[p] # "dead"
        BY <1>t, <2>0, <2>2 DEF Reporting
      <4> QED
        BY <2>2, <4>1 DEF Envelope, Reported
    <3> QED
      BY <2>3, <3>1
  <2> QED
    BY <1>p, <2>3, <2>4 DEF InMemory
<1>8. ASSUME NEW p \in Procs, Gone(p) PROVE InMemory'
  <2>1. pc'[p] = "off" /\ \A t \in Tasks : env'[p][t] = Nothing
    BY <1>8, <1>t DEF Gone, TypeOK, ControlTypes
  <2>2. InHand(p)' /\ \A t \in Tasks : Envelope(p, t)'
    BY <2>1 DEF InHand, Envelope, Nothing, Terminal
  <2> QED
    BY <1>p, <2>2 DEF InMemory
<1>9. CASE UNCHANGED vars
  BY <1>9 DEF vars, life, data, InMemory, InHand, Envelope, Reported, Reporting
<1> QED
  BY <1>1, <1>2, <1>3, <1>4, <1>5, <1>6, <1>7, <1>8, <1>9
     DEF Next, ProcNext, StartStep, RequestStep, WorkerStep, Exit, Crash

(* What the process has in memory agrees with the database all along. *)
LEMMA InMemoryInvariant == OneOwner => (Spec => []InMemory)
<1> SUFFICES ASSUME OneOwner PROVE Spec => []InMemory
  OBVIOUS
<1>1. Init => InMemory
  BY DEF Init, InMemory, InHand, Envelope, Nothing, Terminal
<1>2. TypeOK /\ Restored /\ Owned /\ InMemory /\ [Next]_vars => InMemory'
  BY InMemoryStep
<1>3. Spec => []Owned
  BY OwnedInvariant
<1>4. QED
  BY <1>1, <1>2, <1>3, TypeInvariant, RestoredInvariant, PTL DEF Spec

(* One process over the database whose writes do not raise: whenever it     *)
(* serves, a finished answer from memory is the stored one.                 *)
THEOREM MemoryIsStored == OneOwner /\ MaxDbFaults = 0 => (Spec => []MemoryMatchesStore)
<1> SUFFICES ASSUME OneOwner, MaxDbFaults = 0 PROVE Spec => []MemoryMatchesStore
  OBVIOUS
<1>1. InMemory => MemoryMatchesStore
  BY DEF InMemory, Envelope, Reported, Reporting, MemoryMatchesStore, LoopFree, WorkerBlocks
<1>2. QED
  BY <1>1, InMemoryInvariant, PTL

(* One process over a database whose writes may raise at any point: an      *)
(* answer "completed" from memory is the stored one, with its result, and a *)
(* failed one has the stored status unless its write took the worker.       *)
THEOREM CompletionsAreStored == OneOwner => (Spec => []CompletedMatchesStore)
<1>1. InMemory => CompletedMatchesStore
  BY DEF InMemory, Envelope, Reported, Reporting, CompletedMatchesStore, LoopFree, WorkerBlocks
<1>2. QED
  BY <1>1, InMemoryInvariant, PTL
==============================================================================
