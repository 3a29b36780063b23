----------------------------- MODULE StreamProofs -----------------------------
(***************************************************************************)
(* Theorems about TaskStream.  Its steps are steps of TaskManager, so that *)
(* what is proved of the task service holds of it with its streams; a step *)
(* does one of five things to a stream (StreamStep).                       *)
(***************************************************************************)
EXTENDS TaskStream, TaskOwnershipProofs

(* Every step of the service with its streams is a step of the service. *)
LEMMA StreamStepIsStep ==
  ASSUME [StreamNext]_allVars
  PROVE  [Next]_vars
<1>1. ASSUME NEW p \in Procs,
             \/ QuietStart(p) \/ WorkerTurn(p) \/ DrainedStop(p) \/ QuietExit(p) \/ CrashCuts(p)
             \/ \E t \in Tasks : SubmitTurn(p, t)
      PROVE  ProcNext(p)
  BY <1>1 DEF QuietStart, WorkerTurn, PublishedWork, QuietWork, DrainedStop, QuietExit, CrashCuts, SubmitTurn,
     QuietSubmit, PublishedReturn, ProcNext, WorkerStep, RequestStep
<1>2. ASSUME NEW s \in Streams, StreamTurn(s) \/ Disconnect(s) \/ \E p \in Procs, t \in Tasks : Subscribe(p, s, t)
      PROVE  UNCHANGED vars
  BY <1>2 DEF StreamTurn, Deliver, Cleanup, Disconnect, Subscribe
<1>3. CASE UNCHANGED allVars
  BY <1>3 DEF allVars
<1> QED
  BY <1>1, <1>2, <1>3 DEF StreamNext, Next

(* Whatever is proved of the task service holds of it with its streams. *)
THEOREM StreamsKeepService == StreamSpec => Spec
<1>1. StreamInit => Init
  BY DEF StreamInit
<1>2. [StreamNext]_allVars => [Next]_vars
  BY StreamStepIsStep
<1> QED
  BY <1>1, <1>2, PTL DEF StreamSpec, Spec

------------------------------------------------------------------------------
(* An answer is an answer, from memory, from the database or of neither. *)
LEMMA GetStatusType ==
  ASSUME NEW p \in Procs, NEW t \in Tasks
  PROVE  /\ TypeOK => GetStatus(p, t) \in Answers
         /\ TypeOK' => GetStatus(p, t)' \in Answers
<1>1. /\ TypeOK => env[p][t] \in Answers /\ rows[t] \in Answers
      /\ TypeOK' => env'[p][t] \in Answers /\ rows'[t] \in Answers
  BY DEF TypeOK, DataTypes
<1>2. [status |-> "failed", result |-> FALSE, error |-> TRUE] \in Answers
  BY DEF Answers, Statuses, Terminal
<1> QED
  BY <1>1, <1>2 DEF GetStatus

(* What a step may do to one stream: leave it, publish to it, register it,  *)
(* send its oldest snapshot, or close it.                                   *)
Kept(s) == UNCHANGED <<sub[s], inbox[s], seen[s], peer[s], topic[s]>>

Told(s) ==
  /\ sub[s] \in {"open", "closing"}
  /\ inbox'[s] = Append(inbox[s], GetStatus(peer[s], topic[s])')
  /\ UNCHANGED <<sub[s], seen[s], peer[s], topic[s]>>

Registered(s) ==
  \E p \in Procs, t \in Tasks :
    /\ LoopFree(p) /\ sub[s] = "new" /\ call[t] = "acked" /\ UNCHANGED vars
    /\ sub'[s] = "open" /\ peer'[s] = p /\ topic'[s] = t
    /\ inbox'[s] = <<GetStatus(p, t)>> /\ seen'[s] = seen[s]

Sent(s) ==
  /\ sub[s] = "open" /\ inbox[s] # <<>> /\ UNCHANGED vars
  /\ inbox'[s] = Tail(inbox[s]) /\ seen'[s] = Append(seen[s], Head(inbox[s]))
  /\ sub'[s] = AfterSending(Head(inbox[s]))
  /\ UNCHANGED <<peer[s], topic[s]>>

Closed(s) ==
  /\ sub[s] \in {"open", "closing"}
  /\ \/ sub'[s] = "closing" /\ inbox'[s] = inbox[s]
     \/ sub'[s] \in {"closed", "cut"} /\ inbox'[s] = <<>>
  /\ UNCHANGED <<seen[s], peer[s], topic[s]>>

\* A step after which the subscribers of t in p are told.
Announces(p, t) ==
  \/ SubmitReturn(p, t)
  \/ cur[p] = t /\ pc'[p] \notin {"raised", "dead"} /\ (Begin(p) \/ RecordCompleted(p) \/ RecordFailed(p))

(* A publish reaches the subscribers of its task, and nobody else. *)
LEMMA PublishStep ==
  ASSUME StreamTypeOK, NEW p \in Procs, NEW t \in Tasks, Publish(p, t), NEW s \in Streams
  PROVE  IF peer[s] = p /\ topic[s] = t /\ sub[s] \in {"open", "closing"} THEN Told(s) ELSE Kept(s)
<1>1. UNCHANGED <<sub[s], seen[s], peer[s], topic[s]>>
  BY DEF Publish
<1>2. CASE peer[s] = p /\ topic[s] = t /\ sub[s] \in {"open", "closing"}
  <2>1. inbox'[s] = Append(inbox[s], GetStatus(p, t)')
    BY <1>2 DEF Publish, Subscribers
  <2>2. GetStatus(p, t)' = GetStatus(peer[s], topic[s])'
    BY <1>1, <1>2 DEF GetStatus
  <2> QED
    BY <1>1, <1>2, <2>1, <2>2 DEF Told
<1>3. CASE ~(peer[s] = p /\ topic[s] = t /\ sub[s] \in {"open", "closing"})
  BY <1>1, <1>3 DEF Publish, Subscribers, Kept
<1> QED
  BY <1>2, <1>3

(* A step does one of the five to each stream. *)
LEMMA StreamStep ==
  ASSUME StreamTypeOK, [StreamNext]_allVars, NEW s \in Streams
  PROVE  \/ Kept(s) \/ Registered(s) \/ Sent(s) \/ Closed(s)
         \/ Told(s) /\ Announces(peer[s], topic[s])
<1> DEFINE Goal == \/ Kept(s) \/ Registered(s) \/ Sent(s) \/ Closed(s)
                   \/ Told(s) /\ Announces(peer[s], topic[s])
<1> SUFFICES Goal
  OBVIOUS
<1>q. UNCHANGED streamVars => Kept(s)
  BY DEF streamVars, Kept
<1>1. ASSUME NEW p \in Procs, NEW t \in Tasks, PublishedReturn(p, t) PROVE Goal
  BY <1>1, PublishStep DEF PublishedReturn, Announces
<1>2. ASSUME NEW p \in Procs, PublishedWork(p) PROVE Goal
  <2>1. PICK t \in Tasks : /\ t = cur[p]
                           /\ Begin(p) \/ RecordCompleted(p) \/ RecordFailed(p)
                           /\ PublishUnlessRaised(p, t)
    BY <1>2 DEF PublishedWork
  <2>2. CASE pc'[p] \in {"raised", "dead"}
    BY <1>q, <2>1, <2>2 DEF PublishUnlessRaised
  <2>3. CASE pc'[p] \notin {"raised", "dead"}
    <3>1. Publish(p, t)
      BY <2>1, <2>3 DEF PublishUnlessRaised
    <3>2. Kept(s) \/ (Told(s) /\ peer[s] = p /\ topic[s] = t)
      BY <3>1, PublishStep
    <3> QED
      BY <2>1, <2>3, <3>2 DEF Announces
  <2> QED
    BY <2>2, <2>3
<1>3. ASSUME NEW p \in Procs, CrashCuts(p) PROVE Goal
  BY <1>3 DEF CrashCuts, Kept, Closed, StreamTypeOK
<1>4. ASSUME NEW p \in Procs, NEW t \in Tasks, NEW r \in Streams, Subscribe(p, r, t) PROVE Goal
  BY <1>4 DEF Subscribe, Registered, Kept, StreamTypeOK
<1>5. ASSUME NEW r \in Streams, Deliver(r) PROVE Goal
  BY <1>5 DEF Deliver, Sent, Kept, StreamTypeOK
<1>6. ASSUME NEW r \in Streams, Cleanup(r) \/ Disconnect(r) PROVE Goal
  BY <1>6 DEF Cleanup, Disconnect, Closed, Kept, StreamTypeOK
<1>7. ASSUME NEW p \in Procs,
             \/ QuietStart(p) \/ QuietWork(p) \/ DrainedStop(p) \/ QuietExit(p) \/ \E t \in Tasks : QuietSubmit(p, t)
      PROVE  Goal
  BY <1>q, <1>7 DEF QuietStart, QuietWork, DrainedStop, QuietExit, QuietSubmit
<1>8. CASE UNCHANGED allVars
  BY <1>q, <1>8 DEF allVars
<1> HIDE DEF Goal
<1> QED
  BY <1>1, <1>2, <1>3, <1>4, <1>5, <1>6, <1>7, <1>8 DEF StreamNext, WorkerTurn, SubmitTurn, StreamTurn

\* Nothing was sent before the registration.
Unsent == \A s \in Streams : sub[s] = "new" => seen[s] = <<>>

\* Both, of one stream.
StreamOK(s) ==
  /\ sub[s] = "new" => seen[s] = <<>>
  /\ sub[s] \in {"new", "open", "closing", "closed", "cut"}
  /\ peer[s] \in Procs \cup {NoProc} /\ topic[s] \in Tasks \cup {NoTask}
  /\ inbox[s] \in Seq(Answers) /\ seen[s] \in Seq(Answers)
  /\ sub[s] = "new" <=> topic[s] = NoTask
  /\ sub[s] = "new" <=> peer[s] = NoProc
  /\ sub[s] \notin {"open", "closing"} => inbox[s] = <<>>
  /\ \A i \in DOMAIN seen[s] :
       seen[s][i].status \in Terminal => i = Len(seen[s]) /\ sub[s] # "open"

(* The five keep a stream in its stages. *)
LEMMA StreamOKStep ==
  ASSUME TypeOK, TypeOK', StreamTypeOK, Unsent, [StreamNext]_allVars, NEW s \in Streams
  PROVE  StreamOK(s)'
<1> USE NullAssumption
<1>t. StreamOK(s)
  BY DEF StreamOK, StreamTypeOK, Unsent
<1>1. CASE Kept(s)
  BY <1>1, <1>t DEF Kept, StreamOK
<1>2. CASE Registered(s)
  <2>1. PICK p \in Procs, t \in Tasks :
          /\ sub[s] = "new" /\ UNCHANGED vars /\ sub'[s] = "open" /\ peer'[s] = p /\ topic'[s] = t
          /\ inbox'[s] = <<GetStatus(p, t)>> /\ seen'[s] = seen[s]
    BY <1>2 DEF Registered
  <2>2. GetStatus(p, t) \in Answers
    BY GetStatusType
  <2>3. \A i \in DOMAIN seen[s] : seen[s][i].status \notin Terminal
    BY <1>t, <2>1 DEF StreamOK
  <2> QED
    BY <1>t, <2>1, <2>2, <2>3 DEF StreamOK
<1>3. CASE Sent(s)
  <2> DEFINE first == Head(inbox[s])
  <2>1. first \in Answers /\ Tail(inbox[s]) \in Seq(Answers) /\ Append(seen[s], first) \in Seq(Answers)
    BY <1>3, <1>t DEF Sent, StreamOK
  <2>2. sub'[s] = IF first.status \in Terminal THEN "closing" ELSE "open"
    BY <1>3 DEF Sent, AfterSending
  <2>3. /\ seen'[s] = Append(seen[s], first) /\ inbox'[s] = Tail(inbox[s])
        /\ UNCHANGED <<peer[s], topic[s]>> /\ sub[s] = "open"
    BY <1>3 DEF Sent
  <2> HIDE DEF first
  <2>4. ASSUME NEW i \in DOMAIN seen'[s], seen'[s][i].status \in Terminal
        PROVE  i = Len(seen'[s]) /\ sub'[s] # "open"
    <3>1. /\ DOMAIN seen'[s] = 1 .. Len(seen[s]) + 1 /\ DOMAIN seen[s] = 1 .. Len(seen[s])
          /\ Len(seen'[s]) = Len(seen[s]) + 1 /\ seen'[s][Len(seen[s]) + 1] = first
          /\ \A k \in 1 .. Len(seen[s]) : seen'[s][k] = seen[s][k]
      BY <1>t, <2>1, <2>3 DEF StreamOK
    <3>2. \A k \in DOMAIN seen[s] : seen[s][k].status \notin Terminal
      BY <1>t, <2>3 DEF StreamOK
    <3>3. i = Len(seen[s]) + 1
      BY <2>4, <3>1, <3>2
    <3> QED
      BY <2>2, <2>4, <3>1, <3>3
  <2> QED
    BY <1>t, <2>1, <2>2, <2>3, <2>4 DEF StreamOK
<1>4. CASE Closed(s)
  <2>1. sub[s] \in {"open", "closing"} /\ UNCHANGED <<seen[s], peer[s], topic[s]>>
    BY <1>4 DEF Closed
  <2>2. CASE sub'[s] = "closing" /\ inbox'[s] = inbox[s]
    BY <1>t, <2>1, <2>2 DEF StreamOK
  <2>3. CASE sub'[s] \in {"closed", "cut"} /\ inbox'[s] = <<>>
    BY <1>t, <2>1, <2>3 DEF StreamOK
  <2> QED
    BY <1>4, <2>2, <2>3 DEF Closed
<1>5. CASE Told(s)
  <2>1. peer[s] \in Procs /\ topic[s] \in Tasks /\ UNCHANGED <<peer[s], topic[s]>>
    BY <1>5, <1>t DEF Told, StreamOK
  <2>2. GetStatus(peer[s], topic[s])' \in Answers
    <3>1. ASSUME NEW p \in Procs, NEW t \in Tasks PROVE GetStatus(p, t)' \in Answers
      BY GetStatusType
    <3>2. PICK p \in Procs, t \in Tasks : p = peer[s] /\ t = topic[s]
      BY <2>1
    <3>3. GetStatus(peer[s], topic[s])' = GetStatus(p, t)'
      BY <2>1, <3>2 DEF GetStatus
    <3> QED
      BY <3>1, <3>3
  <2> QED
    BY <1>5, <1>t, <2>2 DEF Told, StreamOK
<1> QED
  BY <1>1, <1>2, <1>3, <1>4, <1>5, StreamStep

(* The two are inductive. *)
LEMMA StreamInvariant == StreamSpec => []StreamTypeOK /\ []Unsent
<1> DEFINE Shapes == /\ sub = [s \in Streams |-> sub[s]] /\ peer = [s \in Streams |-> peer[s]]
                     /\ topic = [s \in Streams |-> topic[s]]
                     /\ inbox = [s \in Streams |-> inbox[s]] /\ seen = [s \in Streams |-> seen[s]]
<1>1. StreamInit => StreamTypeOK /\ Unsent
  BY DEF StreamInit, StreamTypeOK, Unsent
<1>2. TypeOK /\ TypeOK' /\ StreamTypeOK /\ Unsent /\ [StreamNext]_allVars => StreamTypeOK' /\ Unsent'
  <2> SUFFICES ASSUME TypeOK, TypeOK', StreamTypeOK, Unsent, [StreamNext]_allVars
               PROVE  StreamTypeOK' /\ Unsent'
    OBVIOUS
  <2>1. ASSUME NEW s \in Streams PROVE StreamOK(s)'
    BY StreamOKStep
  <2>2. Shapes'
    <3>1. Shapes
      BY DEF StreamTypeOK
    <3>2. ASSUME NEW p \in Procs, NEW t \in Tasks, Publish(p, t) PROVE Shapes'
      BY <3>1, <3>2 DEF Publish
    <3>3. CASE UNCHANGED streamVars
      BY <3>1, <3>3 DEF streamVars
    <3>4. ASSUME NEW p \in Procs, WorkerTurn(p) \/ \E t \in Tasks : SubmitTurn(p, t) PROVE Shapes'
      BY <3>2, <3>3, <3>4 DEF WorkerTurn, PublishedWork, PublishUnlessRaised, QuietWork, SubmitTurn, QuietSubmit,
         PublishedReturn
    <3>5. ASSUME NEW p \in Procs, QuietStart(p) \/ DrainedStop(p) \/ QuietExit(p) PROVE Shapes'
      BY <3>3, <3>5 DEF QuietStart, DrainedStop, QuietExit
    <3>6. ASSUME NEW p \in Procs, CrashCuts(p) PROVE Shapes'
      BY <3>1, <3>6 DEF CrashCuts
    <3>7. ASSUME NEW s \in Streams, StreamTurn(s) \/ Disconnect(s) PROVE Shapes'
      BY <3>1, <3>7 DEF StreamTurn, Deliver, Cleanup, Disconnect
    <3>8. ASSUME NEW p \in Procs, NEW t \in Tasks, NEW s \in Streams, Subscribe(p, s, t) PROVE Shapes'
      BY <3>1, <3>8 DEF Subscribe
    <3>9. CASE UNCHANGED allVars
      BY <3>3, <3>9 DEF allVars
    <3> HIDE DEF Shapes
    <3> QED
      BY <3>4, <3>5, <3>6, <3>7, <3>8, <3>9 DEF StreamNext
  <2> QED
    BY <2>1, <2>2 DEF StreamTypeOK, StreamOK, Unsent
<1>3. StreamSpec => []TypeOK
  BY StreamsKeepService, TypeInvariant, PTL
<1> QED
  BY <1>1, <1>2, <1>3, PTL DEF StreamSpec

(* Whatever the service does, a stream goes through its stages: it sends    *)
(* nothing after a terminal answer and leaves nothing queued when it is     *)
(* gone.                                                                    *)
THEOREM StreamsAreOrderly == StreamSpec => []StreamTypeOK
  BY StreamInvariant, PTL

------------------------------------------------------------------------------
\* A process has ended t when its worker, not dead, has let go of it after the last write.
Ended(p, t) == IsTerminal(env[p][t]) /\ ~Reporting(p, t) /\ pc[p] # "dead"

(* A task is ended by the step of the worker that writes its end. *)
LEMMA EndedStep ==
  ASSUME TypeOK, Restored, [Next]_vars, NEW p \in Procs, NEW t \in Tasks, Ended(p, t)', ~Ended(p, t)
  PROVE  pc[p] \in {"succeeded", "raised"} /\ pc'[p] = "idle" /\ cur[p] = t
<1> USE NullAssumption
<1>d. pc'[p] # "dead"
  BY DEF Ended
<1>t. /\ env \in [Procs -> [Tasks -> Answers]] /\ InStep(p)
      /\ pc \in [Procs -> {"off", "idle", "got", "running", "succeeded", "raised", "dead"}]
      /\ cur \in [Procs -> Tasks \cup {NoTask}]
  BY DEF TypeOK, ControlTypes, DataTypes
<1> DEFINE Goal == pc[p] \in {"succeeded", "raised"} /\ pc'[p] = "idle" /\ cur[p] = t
<1> SUFFICES Goal
  OBVIOUS
<1>k. ASSUME env'[p][t] = env[p][t], pc[p] \notin {"succeeded", "raised", "dead"} \/ UNCHANGED <<pc[p], cur[p]>>
      PROVE  FALSE
  BY <1>k DEF Ended, Reporting
<1>u. ASSUME env'[p][t].status \notin Terminal PROVE FALSE
  BY <1>u DEF Ended, IsTerminal
<1>e. ASSUME NEW q \in Procs, NEW u \in Tasks, NEW a \in Answers, env' = [env EXCEPT ![q][u] = a],
             a.status \notin Terminal, UNCHANGED <<pc[p], cur[p]>>
      PROVE  FALSE
  <2>1. env'[p][t] = a \/ env'[p][t] = env[p][t]
    BY <1>e, <1>t
  <2> QED
    BY <1>e, <1>k, <1>u, <2>1
<1>1. ASSUME NEW q \in Procs, Start(q) \/ FinishStart(q) \/ Dequeue(q) \/ Drop(q) \/ Stop(q) PROVE Goal
  <2>1. env' = env
    BY <1>1 DEF Start, FinishStart, Dequeue, Drop, Stop, data
  <2>2. CASE q = p
    <3>1. pc[p] \notin {"succeeded", "raised", "dead"} \/ UNCHANGED <<pc[p], cur[p]>>
      BY <1>1, <1>d, <1>t, <2>2 DEF Start, FinishStart, Dequeue, Drop, Stop, Cancelled, InStep, Restored
    <3> QED
      BY <1>k, <2>1, <3>1
  <2>3. CASE q # p
    BY <1>1, <1>k, <1>t, <2>1, <2>3 DEF Start, FinishStart, Dequeue, Drop, Stop, Cancelled
  <2> QED
    BY <2>2, <2>3
<1>2. ASSUME NEW q \in Procs, NEW u \in Tasks,
             RecoverNext(q, u) \/ SubmitPersist(q, u) \/ SubmitEnqueue(q, u) \/ SubmitReturn(q, u)
      PROVE  Goal
  <2>1. UNCHANGED <<pc, cur>> /\ (env' = env \/ env' = [env EXCEPT ![q][u] = Fresh])
    BY <1>2 DEF RecoverNext, SubmitPersist, SubmitEnqueue, SubmitReturn, life, data
  <2>2. Fresh \in Answers /\ Fresh.status \notin Terminal
    BY DEF Fresh, Answers, Statuses, Terminal
  <2> QED
    BY <1>e, <1>k, <2>1, <2>2
<1>3. ASSUME NEW q \in Procs, Begin(q) PROVE Goal
  <2>1. PICK u \in Tasks : u = cur[q]
    BY <1>3, WorkerTaskType DEF Begin
  <2>2. /\ env' = [env EXCEPT ![q][u] = Started(@)] /\ pc[q] = "got"
        /\ \A r \in Procs \ {q} : UNCHANGED <<pc[r], cur[r]>>
    BY <1>3, <1>t, <2>1 DEF Begin
  <2>3. env'[q][u] = Started(env[q][u]) /\ Started(env[q][u]).status \notin Terminal
    BY <1>t, <2>1, <2>2 DEF Started, Answers, Terminal
  <2>4. CASE q = p /\ u = t
    BY <1>u, <2>3, <2>4
  <2>5. CASE ~(q = p /\ u = t)
    <3>1. env'[p][t] = env[p][t]
      BY <1>t, <2>1, <2>2, <2>5
    <3>2. pc[p] \notin {"succeeded", "raised", "dead"} \/ UNCHANGED <<pc[p], cur[p]>>
      BY <1>t, <2>2
    <3> QED
      BY <1>k, <3>1, <3>2
  <2> QED
    BY <2>4, <2>5
<1>4. ASSUME NEW q \in Procs, Execute(q) PROVE Goal
  <2>1. PICK u \in Tasks : u = cur[q]
    BY <1>4, WorkerTaskType DEF Execute
  <2>2. /\ UNCHANGED cur /\ pc[q] = "running"
        /\ env' = [env EXCEPT ![q][u] = Completed(@)] \/ env' = [env EXCEPT ![q][u] = Failed(@)]
        /\ pc' = [pc EXCEPT ![q] = "succeeded"] \/ pc' = [pc EXCEPT ![q] = "raised"]
    BY <1>4, <2>1 DEF Execute
  <2>3. CASE q = p /\ u = t
    BY <1>t, <2>1, <2>2, <2>3 DEF Ended, Reporting
  <2>4. CASE ~(q = p /\ u = t)
    <3>1. env'[p][t] = env[p][t]
      BY <1>t, <2>1, <2>2, <2>4
    <3>2. pc[p] \notin {"succeeded", "raised", "dead"} \/ UNCHANGED <<pc[p], cur[p]>>
      BY <1>t, <2>2
    <3> QED
      BY <1>k, <3>1, <3>2
  <2> QED
    BY <2>3, <2>4
<1>5. ASSUME NEW q \in Procs, RecordCompleted(q) \/ RecordFailed(q) PROVE Goal
  <2>1. PICK u \in Tasks : u = cur[q]
    BY <1>5, WorkerTaskType DEF RecordCompleted, RecordFailed
  <2>2. /\ env' = env \/ env' = [env EXCEPT ![q][u] = Failed(@)]
        /\ \/ cur' = [cur EXCEPT ![q] = NoTask] /\ (pc' = [pc EXCEPT ![q] = "idle"] \/ pc' = [pc EXCEPT ![q] = "dead"])
           \/ cur' = cur /\ pc' = [pc EXCEPT ![q] = "raised"]
        /\ pc[q] \in {"succeeded", "raised"}
    BY <1>5, <2>1 DEF RecordCompleted, RecordFailed
  <2>3. CASE q = p /\ u = t
    <3>1. ~(cur' = cur /\ pc' = [pc EXCEPT ![q] = "raised"])
      BY <1>t, <2>1, <2>3 DEF Ended, Reporting
    <3> QED
      BY <1>d, <1>t, <2>1, <2>2, <2>3, <3>1
  <2>4. CASE ~(q = p /\ u = t)
    <3>1. env'[p][t] = env[p][t]
      BY <1>t, <2>2, <2>4
    <3>2. CASE q = p
      BY <1>t, <2>1, <2>2, <2>4, <3>1, <3>2 DEF Ended, Reporting
    <3>3. CASE q # p
      BY <1>k, <1>t, <2>2, <3>1, <3>3
    <3> QED
      BY <3>2, <3>3
  <2> QED
    BY <2>3, <2>4
<1>6. ASSUME NEW q \in Procs, Gone(q) PROVE Goal
  <2>1. CASE q = p
    BY <1>6, <1>t, <1>u, <2>1 DEF Gone, Nothing, Terminal
  <2>2. CASE q # p
    BY <1>6, <1>t, <1>k, <2>2 DEF Gone
  <2> QED
    BY <2>1, <2>2
<1>7. CASE UNCHANGED vars
  BY <1>7, <1>k DEF vars, life, data
<1> HIDE DEF Goal
<1> QED
  BY <1>1, <1>2, <1>3, <1>4, <1>5, <1>6, <1>7 DEF Next, ProcNext, StartStep, RequestStep, WorkerStep, Exit, Crash

(* The step that ends a task publishes. *)
LEMMA ReportIsPublished ==
  ASSUME TypeOK, [StreamNext]_allVars, NEW p \in Procs, pc[p] \in {"succeeded", "raised"}, pc'[p] = "idle"
  PROVE  PublishedWork(p)
<1>t. /\ InStep(p)
      /\ pc \in [Procs -> {"off", "idle", "got", "running", "succeeded", "raised", "dead"}]
  BY DEF TypeOK, ControlTypes
<1>1. ASSUME NEW q \in Procs, QuietStart(q) PROVE FALSE
  <2>1. pc' = pc \/ (phase[q] = "recovering" /\ pc' = [pc EXCEPT ![q] = "idle"])
    BY <1>1 DEF QuietStart, StartStep, Start, RecoverNext, FinishStart
  <2> QED
    BY <1>t, <2>1 DEF InStep
<1>2. ASSUME NEW q \in Procs, QuietWork(q) PROVE FALSE
  BY <1>2, <1>t DEF QuietWork, Dequeue, Drop, Execute
<1>3. ASSUME NEW q \in Procs, PublishedWork(q) PROVE q = p
  BY <1>3, <1>t DEF PublishedWork, Begin, RecordCompleted, RecordFailed
<1>4. ASSUME NEW q \in Procs, DrainedStop(q) PROVE FALSE
  BY <1>4, <1>t DEF DrainedStop, Stop, Cancelled
<1>5. ASSUME NEW q \in Procs, QuietExit(q) \/ CrashCuts(q) PROVE FALSE
  BY <1>5, <1>t DEF QuietExit, CrashCuts, Exit, Crash, Gone
<1>6. ASSUME NEW q \in Procs, NEW u \in Tasks, SubmitTurn(q, u) PROVE FALSE
  BY <1>6 DEF SubmitTurn, QuietSubmit, PublishedReturn, SubmitPersist, SubmitEnqueue, SubmitReturn, life
<1>7. ASSUME NEW s \in Streams, StreamTurn(s) \/ Disconnect(s) \/ \E q \in Procs, u \in Tasks : Subscribe(q, s, u)
      PROVE  FALSE
  BY <1>7 DEF StreamTurn, Deliver, Cleanup, Disconnect, Subscribe, vars, life
<1>8. CASE UNCHANGED allVars
  BY <1>8 DEF allVars, vars, life
<1> QED
  BY <1>1, <1>2, <1>3, <1>4, <1>5, <1>6, <1>7, <1>8 DEF StreamNext, WorkerTurn

\* What a worker that has not died promises, also while some request holds the loop.
Waits(s) ==
  sub[s] = "open" /\ Ended(peer[s], topic[s]) => \E i \in DOMAIN inbox[s] : IsTerminal(inbox[s][i])

(* A stream gets the end of its task with the first snapshot or with the    *)
(* publish, and keeps it until it is sent.                                  *)
LEMMA WaitsStep ==
  ASSUME TypeOK, Restored, StreamTypeOK, StreamTypeOK', [StreamNext]_allVars, NEW s \in Streams, Waits(s)
  PROVE  Waits(s)'
<1> USE NullAssumption
<1> SUFFICES ASSUME sub'[s] = "open", Ended(peer[s], topic[s])'
             PROVE  \E i \in DOMAIN inbox'[s] : IsTerminal(inbox'[s][i])
  BY DEF Waits, IsTerminal
<1>t. /\ inbox[s] \in Seq(Answers) /\ peer[s] \in Procs \cup {NoProc} /\ topic[s] \in Tasks \cup {NoTask}
      /\ sub[s] = "new" <=> topic[s] = NoTask
      /\ sub[s] = "new" <=> peer[s] = NoProc
      /\ sub[s] = "new" => inbox[s] = <<>>
  BY DEF StreamTypeOK
<1>1. CASE Registered(s)
  <2>1. PICK p \in Procs, t \in Tasks : /\ UNCHANGED vars /\ peer'[s] = p /\ topic'[s] = t
                                        /\ inbox'[s] = <<GetStatus(p, t)>>
    BY <1>1 DEF Registered
  <2>2. env[p][t].status \in Terminal
    BY <2>1 DEF Ended, IsTerminal, vars, data
  <2>3. GetStatus(p, t) = env[p][t]
    BY <2>2 DEF GetStatus, Nothing, Terminal
  <2>4. 1 \in DOMAIN inbox'[s] /\ inbox'[s][1] = env[p][t]
    BY <2>1, <2>3
  <2> QED
    BY <2>2, <2>4 DEF IsTerminal
<1>2. CASE Sent(s)
  <2>1. sub[s] = "open" /\ inbox[s] # <<>> /\ inbox'[s] = Tail(inbox[s]) /\ Ended(peer[s], topic[s])
    BY <1>2 DEF Sent, Ended, Reporting, IsTerminal, vars, life, data
  <2>2. ~IsTerminal(Head(inbox[s]))
    BY <1>2 DEF Sent, AfterSending, IsTerminal
  <2>3. PICK i \in DOMAIN inbox[s] : IsTerminal(inbox[s][i])
    BY <2>1 DEF Waits
  <2>4. i # 1 /\ i \in 1 .. Len(inbox[s]) /\ Len(inbox[s]) \in Nat
    BY <1>t, <2>1, <2>2, <2>3 DEF IsTerminal
  <2>5. i - 1 \in DOMAIN Tail(inbox[s]) /\ Tail(inbox[s])[i - 1] = inbox[s][i]
    BY <1>t, <2>1, <2>4
  <2> QED
    BY <2>1, <2>3, <2>5
<1>3. CASE Told(s)
  <2>1. /\ inbox'[s] = Append(inbox[s], GetStatus(peer[s], topic[s])')
        /\ UNCHANGED <<peer[s], topic[s]>>
    BY <1>3 DEF Told
  <2>2. GetStatus(peer[s], topic[s])' = env'[peer[s]][topic[s]] /\ env'[peer[s]][topic[s]].status \in Terminal
    BY <2>1 DEF Ended, IsTerminal, GetStatus, Nothing, Terminal
  <2>3. /\ Len(inbox[s]) + 1 \in DOMAIN inbox'[s]
        /\ inbox'[s][Len(inbox[s]) + 1] = GetStatus(peer[s], topic[s])'
    BY <1>t, <2>1
  <2> QED
    BY <2>2, <2>3 DEF IsTerminal
<1>4. CASE Kept(s)
  <2>1. UNCHANGED <<sub[s], inbox[s], peer[s], topic[s]>>
    BY <1>4 DEF Kept
  <2>2. PICK p \in Procs, t \in Tasks : p = peer[s] /\ t = topic[s]
    BY <1>t, <2>1
  <2>3. Ended(p, t)'
    BY <2>1, <2>2 DEF Ended, Reporting, IsTerminal
  <2>4. CASE Ended(p, t)
    <3>1. Ended(peer[s], topic[s])
      BY <2>2, <2>4
    <3> QED
      BY <2>1, <3>1 DEF Waits
  <2>5. CASE ~Ended(p, t)
    <3>1. pc[p] \in {"succeeded", "raised"} /\ pc'[p] = "idle" /\ cur[p] = t
      BY <2>3, <2>5, EndedStep, StreamStepIsStep
    <3>2. PublishedWork(p)
      BY <3>1, ReportIsPublished
    <3>3. Publish(p, t)
      BY <3>1, <3>2 DEF PublishedWork, PublishUnlessRaised
    <3>4. Told(s)
      BY <2>1, <2>2, <3>3, PublishStep
    <3> QED
      BY <1>3, <3>4
  <2> QED
    BY <2>4, <2>5
<1>5. CASE Closed(s)
  BY <1>5 DEF Closed
<1> QED
  BY <1>1, <1>2, <1>3, <1>4, <1>5, StreamStep

\* NoMissedTerminal, of the processes whose worker has not died.
NoneMissedAlive ==
  \A s \in Streams :
    (sub[s] = "open" /\ LoopFree(peer[s]) /\ pc[peer[s]] # "dead" /\ IsTerminal(env[peer[s]][topic[s]]))
      => \E i \in DOMAIN inbox[s] : IsTerminal(inbox[s][i])

(* Every open stream of a task that its process has ended has the end       *)
(* waiting, unless a write that raised has taken the worker of the process: *)
(* no interleaving of registration, snapshot and publish, no crash, restart *)
(* or fault of a queue loses it, and no write that raises and is survived.  *)
THEOREM LiveWorkersAnnounce == StreamSpec => []NoneMissedAlive
<1> DEFINE AllWait == \A s \in Streams : Waits(s)
<1>1. StreamInit => AllWait
  BY DEF StreamInit, Waits
<1>2. TypeOK /\ Restored /\ StreamTypeOK /\ StreamTypeOK' /\ AllWait /\ [StreamNext]_allVars => AllWait'
  BY WaitsStep
<1>3. AllWait => NoneMissedAlive
  BY DEF Waits, NoneMissedAlive, Ended, Reporting, LoopFree, WorkerBlocks
<1>4. StreamSpec => []TypeOK /\ []Restored
  BY StreamsKeepService, TypeInvariant, RestoredInvariant, PTL
<1> HIDE DEF AllWait
<1> QED
  BY <1>1, <1>2, <1>3, <1>4, StreamsAreOrderly, PTL DEF StreamSpec

(* Only a write that raises ends a worker. *)
LEMMA NobodyDies == MaxDbFaults = 0 => (Spec => [](\A p \in Procs : pc[p] # "dead"))
<1> SUFFICES ASSUME MaxDbFaults = 0 PROVE Spec => [](\A p \in Procs : pc[p] # "dead")
  OBVIOUS
<1> DEFINE Alive == \A p \in Procs : pc[p] # "dead"
<1>1. Init => Alive
  BY DEF Init
<1>2. TypeOK /\ Alive /\ [Next]_vars => Alive'
  <2> SUFFICES ASSUME TypeOK, Alive, [Next]_vars PROVE Alive'
    OBVIOUS
  <2>f. ~DbFault
    BY FaultsLeft
  <2>t. pc \in [Procs -> {"off", "idle", "got", "running", "succeeded", "raised", "dead"}]
    BY DEF TypeOK, ControlTypes
  <2>1. ASSUME NEW q \in Procs, StartStep(q) \/ RequestStep(q) \/ Stop(q) \/ Gone(q) PROVE Alive'
    BY <2>1, <2>t DEF StartStep, Start, RecoverNext, FinishStart, RequestStep, SubmitPersist, SubmitEnqueue,
       SubmitReturn, life, Stop, Cancelled, Gone
  <2>2. ASSUME NEW q \in Procs, WorkerStep(q) PROVE Alive'
    BY <2>2, <2>f, <2>t DEF WorkerStep, Dequeue, Drop, Begin, Execute, RecordCompleted, RecordFailed
  <2>3. CASE UNCHANGED vars
    BY <2>3 DEF vars, life
  <2> QED
    BY <2>1, <2>2, <2>3 DEF Next, ProcNext, Exit, Crash
<1> QED
  BY <1>1, <1>2, TypeInvariant, PTL DEF Spec

(* Where no write of a row raises, no stream misses the end. *)
THEOREM EndsAreAnnounced == MaxDbFaults = 0 => (StreamSpec => []NoMissedTerminal)
<1>1. StreamTypeOK /\ (\A p \in Procs : pc[p] # "dead") /\ NoneMissedAlive => NoMissedTerminal
  BY DEF StreamTypeOK, NoneMissedAlive, NoMissedTerminal
<1> QED
  BY <1>1, NobodyDies, LiveWorkersAnnounce, StreamsAreOrderly, StreamsKeepService, PTL

------------------------------------------------------------------------------
(* All that s was told: what was sent and what is still to be sent. *)
History(s) == seen[s] \o inbox[s]
Live(s)    == sub[s] \in {"open", "closing"}

\* A step that adds nothing to it: it may forget what was not sent.
Shortened(s) ==
  /\ \A i \in DOMAIN History(s)' : i \in DOMAIN History(s) /\ History(s)'[i] = History(s)[i]
  /\ Live(s)' => Live(s)
  /\ sub[s] = "new" <=> sub'[s] = "new"
  /\ UNCHANGED <<peer[s], topic[s]>>

(* A sequence is the beginning of what it is prolonged to. *)
LEMMA JoinedSequence ==
  ASSUME NEW S, NEW a \in Seq(S), NEW b \in Seq(S), NEW i \in DOMAIN a
  PROVE  i \in DOMAIN (a \o b) /\ (a \o b)[i] = a[i]
<1>1. /\ Len(a) \in Nat /\ Len(b) \in Nat /\ Len(a \o b) = Len(a) + Len(b) /\ i \in 1 .. Len(a)
      /\ DOMAIN (a \o b) = 1 .. Len(a) + Len(b)
  OBVIOUS
<1>2. i \in 1 .. Len(a) + Len(b)
  BY <1>1
<1> QED
  BY <1>1, <1>2

(* The types of one stream and of what it was told. *)
LEMMA HistoryType ==
  ASSUME StreamTypeOK, Unsent, NEW s \in Streams
  PROVE  /\ inbox[s] \in Seq(Answers) /\ seen[s] \in Seq(Answers) /\ History(s) \in Seq(Answers)
         /\ peer[s] \in Procs \cup {NoProc} /\ topic[s] \in Tasks \cup {NoTask}
         /\ sub[s] = "new" <=> topic[s] = NoTask
         /\ sub[s] = "new" <=> peer[s] = NoProc
         /\ sub[s] = "new" => History(s) = <<>>
<1>1. /\ inbox[s] \in Seq(Answers) /\ seen[s] \in Seq(Answers)
      /\ peer[s] \in Procs \cup {NoProc} /\ topic[s] \in Tasks \cup {NoTask}
      /\ sub[s] = "new" <=> topic[s] = NoTask
      /\ sub[s] = "new" <=> peer[s] = NoProc
      /\ sub[s] = "new" => inbox[s] = <<>> /\ seen[s] = <<>>
  BY DEF StreamTypeOK, Unsent
<1>2. \A a, b \in Seq(Answers) : a \o b \in Seq(Answers)
  OBVIOUS
<1>3. <<>> \o <<>> = <<>>
  OBVIOUS
<1> QED
  BY <1>1, <1>2, <1>3 DEF History

(* Sending moves a snapshot over within History. *)
LEMMA HistoryStep ==
  ASSUME StreamTypeOK, StreamTypeOK', Unsent, [StreamNext]_allVars, NEW s \in Streams
  PROVE  \/ Registered(s) /\ seen[s] = <<>>
         \/ Told(s) /\ Announces(peer[s], topic[s]) /\ History(s)' = Append(History(s), GetStatus(peer[s], topic[s])')
         \/ Shortened(s)
<1>t. /\ inbox[s] \in Seq(Answers) /\ seen[s] \in Seq(Answers) /\ inbox'[s] \in Seq(Answers) /\ seen'[s] \in Seq(Answers)
      /\ sub[s] = "new" => seen[s] = <<>> /\ inbox[s] = <<>>
  BY DEF StreamTypeOK, Unsent
<1>1. CASE Registered(s)
  BY <1>1, <1>t DEF Registered
<1>2. CASE Told(s) /\ Announces(peer[s], topic[s])
  <2>1. inbox'[s] = Append(inbox[s], GetStatus(peer[s], topic[s])') /\ seen'[s] = seen[s]
    BY <1>2 DEF Told
  <2> DEFINE x == GetStatus(peer[s], topic[s])'
  <2>2. x \in Answers
    <3>1. Len(inbox'[s]) = Len(inbox[s]) + 1 /\ Len(inbox[s]) \in Nat /\ inbox'[s][Len(inbox[s]) + 1] = x
      BY <1>t, <2>1
    <3> QED
      BY <1>t, <3>1
  <2>3. \A a, b \in Seq(Answers), y \in Answers : a \o Append(b, y) = Append(a \o b, y)
    OBVIOUS
  <2> HIDE DEF x
  <2>4. seen[s] \o Append(inbox[s], x) = Append(seen[s] \o inbox[s], x)
    BY <1>t, <2>2, <2>3
  <2> QED
    BY <1>2, <2>1, <2>4 DEF History, x
<1>3. CASE Kept(s)
  BY <1>3 DEF Kept, Shortened, History, Live
<1>4. CASE Sent(s)
  <2>1. /\ sub[s] = "open" /\ inbox[s] # <<>> /\ inbox'[s] = Tail(inbox[s])
        /\ seen'[s] = Append(seen[s], Head(inbox[s])) /\ UNCHANGED <<peer[s], topic[s]>>
        /\ sub'[s] \in {"open", "closing"}
    BY <1>4 DEF Sent, AfterSending
  <2>2. \A a, b \in Seq(Answers) : b # <<>> => Append(a, Head(b)) \o Tail(b) = a \o b
    OBVIOUS
  <2>3. History(s)' = History(s)
    BY <1>t, <2>1, <2>2 DEF History
  <2> QED
    BY <2>1, <2>3 DEF Shortened, Live
<1>5. CASE Closed(s)
  <2>1. Live(s) /\ sub'[s] # "new" /\ UNCHANGED <<seen[s], peer[s], topic[s]>>
    BY <1>5 DEF Closed, Live
  <2>2. CASE inbox'[s] = inbox[s]
    BY <2>1, <2>2 DEF Shortened, History, Live
  <2>3. CASE inbox'[s] = <<>>
    <3>1. History(s)' = seen[s]
      BY <1>t, <2>1, <2>3 DEF History
    <3>2. \A i \in DOMAIN seen[s] : i \in DOMAIN History(s) /\ History(s)[i] = seen[s][i]
      BY <1>t, JoinedSequence DEF History
    <3> QED
      BY <2>1, <3>1, <3>2 DEF Shortened, Live
  <2> QED
    BY <1>5, <2>2, <2>3 DEF Closed
<1> QED
  BY <1>1, <1>2, <1>3, <1>4, <1>5, StreamStep

------------------------------------------------------------------------------
(* What a process answers, in the deployment of OneOwner. *)
Sound == TypeOK /\ AckedIsDurable /\ Owned /\ InMemory

(* The parts of the answer about a task that a client has the id of. *)
LEMMA AnswerParts ==
  ASSUME OneOwner, NEW p \in Procs, NEW t \in Tasks
  PROVE  /\ Sound /\ call[t] = "acked" =>
              /\ rows[t] \in Answers /\ rows[t].status \in Statuses /\ env[p][t] \in Answers
              /\ env[p][t] # Nothing => env[p][t].status \in Statuses
              /\ GetStatus(p, t) = IF env[p][t] # Nothing THEN env[p][t] ELSE rows[t]
         /\ (Sound /\ call[t] = "acked")' =>
              /\ rows'[t] \in Answers /\ rows'[t].status \in Statuses /\ env'[p][t] \in Answers
              /\ env'[p][t] # Nothing => env'[p][t].status \in Statuses
              /\ GetStatus(p, t)' = IF env'[p][t] # Nothing THEN env'[p][t] ELSE rows'[t]
<1>1. \A a \in Answers : a.status = "none" \/ a.status \in Statuses
  BY DEF Answers
<1>2. \A a \in Answers : a.status = "none" /\ ~a.result /\ ~a.error => a = Nothing
  BY DEF Answers, Nothing
<1>3. ASSUME Sound, call[t] = "acked"
      PROVE  /\ rows[t] \in Answers /\ rows[t].status \in Statuses /\ env[p][t] \in Answers
             /\ env[p][t] # Nothing => env[p][t].status \in Statuses
             /\ GetStatus(p, t) = IF env[p][t] # Nothing THEN env[p][t] ELSE rows[t]
  <2>1. rows[t] \in Answers /\ env[p][t] \in Answers /\ rows[t].status # "none" /\ Envelope(p, t)
    BY <1>3 DEF Sound, TypeOK, DataTypes, AckedIsDurable, OneOwner, InMemory
  <2>2. rows[t] # Nothing
    BY <2>1 DEF Nothing
  <2>3. env[p][t].status = "none" => env[p][t] = Nothing
    BY <1>2, <2>1 DEF Envelope, Terminal
  <2> QED
    BY <1>1, <2>1, <2>2, <2>3 DEF GetStatus
<1>4. ASSUME Sound', call'[t] = "acked"
      PROVE  /\ rows'[t] \in Answers /\ rows'[t].status \in Statuses /\ env'[p][t] \in Answers
             /\ env'[p][t] # Nothing => env'[p][t].status \in Statuses
             /\ GetStatus(p, t)' = IF env'[p][t] # Nothing THEN env'[p][t] ELSE rows'[t]
  <2>1. rows'[t] \in Answers /\ env'[p][t] \in Answers /\ rows'[t].status # "none" /\ Envelope(p, t)'
    BY <1>4 DEF Sound, TypeOK, DataTypes, AckedIsDurable, OneOwner, InMemory
  <2>2. rows'[t] # Nothing
    BY <2>1 DEF Nothing
  <2>3. env'[p][t].status = "none" => env'[p][t] = Nothing
    BY <1>2, <2>1 DEF Envelope, Terminal
  <2> QED
    BY <1>1, <2>1, <2>2, <2>3 DEF GetStatus
<1> QED
  BY <1>3, <1>4

\* An end that is stored as it is told: where writes raise, a completed one.
Firm(answer) == IsTerminal(answer) /\ (answer.status = "completed" \/ MaxDbFaults = 0)

(* Such an end, when it is answered, is the one that is stored. *)
LEMMA EndIsStored ==
  ASSUME OneOwner, NEW p \in Procs, NEW t \in Tasks
  PROVE  /\ Sound /\ call[t] = "acked" /\ ~Reporting(p, t) /\ Firm(GetStatus(p, t))
              => rows[t] = GetStatus(p, t) /\ \A q \in Procs : cur[q] # t
         /\ (Sound /\ call[t] = "acked" /\ ~Reporting(p, t))' /\ Firm(GetStatus(p, t)')
              => rows'[t] = GetStatus(p, t)' /\ \A q \in Procs : cur'[q] # t
<1>1. /\ Sound => Envelope(p, t)
      /\ Sound' => Envelope(p, t)'
  BY DEF Sound, InMemory
<1>2. /\ Sound /\ call[t] = "acked" /\ ~Reporting(p, t) /\ Firm(GetStatus(p, t)) => rows[t] = GetStatus(p, t)
      /\ (Sound /\ call[t] = "acked" /\ ~Reporting(p, t))' /\ Firm(GetStatus(p, t)')
           => rows'[t] = GetStatus(p, t)'
  BY <1>1, AnswerParts DEF Envelope, Reported, Firm, IsTerminal
<1>3. /\ Owned /\ rows[t].status \in Terminal /\ cur[p] = t => Reporting(p, t)
      /\ Owned' /\ rows'[t].status \in Terminal /\ cur'[p] = t => Reporting(p, t)'
  BY NullAssumption DEF Owned, HeldOrSettling, Settling, Recoverable, Terminal, Reporting
<1> QED
  BY <1>2, <1>3 DEF OneOwner, Sound, Firm, IsTerminal

(* A finished row that no worker holds is held by none, and stays: the      *)
(* queue only holds what is unfinished.                                     *)
LEMMA SettledStep ==
  ASSUME OneOwner, TypeOK, Owned, [Next]_vars, NEW t \in Tasks, rows[t].status \in Terminal,
         \A q \in Procs : cur[q] # t
  PROVE  rows'[t] = rows[t] /\ \A q \in Procs : cur'[q] # t
<1> USE NullAssumption
<1>1. rows'[t] = rows[t]
  <2>1. call[t] # "none"
    BY DEF Owned, Nothing, Terminal
  <2> QED
    BY <2>1, RowStep DEF OneOwner, Creates, Writes
<1>2. ASSUME NEW q \in Procs, Dequeue(q) PROVE \A r \in Procs : cur'[r] # t
  <2>1. PICK u : u = Head(queue[q])
    OBVIOUS
  <2>2. queue[q] \in Seq(Tasks) /\ queue[q] # <<>>
    BY <1>2 DEF Dequeue, QueueOf, Queues, OneOwner, TypeOK, DataTypes
  <2>3. u \in Waiting(q)
    BY <2>1, <2>2, TailOnce DEF Waiting, QueueOf, OneOwner
  <2>4. Recoverable(u)
    BY <2>3 DEF Owned, HeldOrSettling
  <2>5. u # t
    BY <2>4 DEF Recoverable, Terminal
  <2>6. cur' = cur \/ cur' = [cur EXCEPT ![q] = u]
    BY <1>2, <2>1 DEF Dequeue, QueueOf, OneOwner
  <2> QED
    BY <2>5, <2>6 DEF TypeOK, ControlTypes
<1>3. ASSUME NEW q \in Procs, cur' = cur \/ cur' = [cur EXCEPT ![q] = NoTask] PROVE \A r \in Procs : cur'[r] # t
  BY <1>3 DEF TypeOK, ControlTypes
<1>4. ASSUME NEW q \in Procs, ProcNext(q), ~Dequeue(q) PROVE cur' = cur \/ cur' = [cur EXCEPT ![q] = NoTask]
  BY <1>4 DEF ProcNext, StartStep, RequestStep, WorkerStep, Start, RecoverNext, FinishStart, SubmitPersist, SubmitEnqueue,
     SubmitReturn, life, Drop, Begin, Execute, RecordCompleted, RecordFailed, Stop, Exit, Crash, Gone
<1>5. CASE UNCHANGED vars
  BY <1>1, <1>5 DEF vars, life
<1> QED
  BY <1>1, <1>2, <1>3, <1>4, <1>5 DEF Next

(* An id that was given to a client stays given. *)
LEMMA AckedStays ==
  ASSUME TypeOK, [Next]_vars, NEW t \in Tasks, call[t] = "acked"
  PROVE  call'[t] = "acked"
<1>1. ASSUME NEW q \in Procs, NEW u \in Tasks, SubmitPersist(q, u) \/ SubmitEnqueue(q, u) \/ SubmitReturn(q, u)
      PROVE  call'[t] = "acked"
  BY <1>1 DEF SubmitPersist, SubmitEnqueue, SubmitReturn, TypeOK, ControlTypes
<1>2. ASSUME NEW q \in Procs, Gone(q) PROVE call'[t] = "acked"
  BY <1>2 DEF Gone, InFlight
<1>3. ASSUME UNCHANGED calls PROVE call'[t] = "acked"
  BY <1>3 DEF calls
<1> QED
  BY <1>1, <1>2, <1>3 DEF Next, ProcNext, StartStep, RequestStep, WorkerStep, Exit, Crash, Start, RecoverNext, FinishStart,
     Dequeue, Drop, Begin, Execute, RecordCompleted, RecordFailed, Stop, vars

(* While a process serves, what it answers of a task only moves forward. *)
LEMMA AnswerStep ==
  ASSUME OneOwner, Sound, Sound', [Next]_vars, NEW p \in Procs, NEW t \in Tasks,
         call[t] = "acked", phase[p] = "up", phase'[p] = "up"
  PROVE  call'[t] = "acked" /\ Rank(GetStatus(p, t).status) <= Rank(GetStatus(p, t)'.status)
<1> USE NullAssumption
<1>p. \A q \in Procs : q = p
  BY DEF OneOwner
<1>t. /\ env \in [Procs -> [Tasks -> Answers]] /\ rows \in [Tasks -> Answers] /\ InStep(p)
      /\ phase \in [Procs -> {"down", "recovering", "up", "stopped"}]
      /\ cur \in [Procs -> Tasks \cup {NoTask}]
  BY DEF Sound, TypeOK, ControlTypes, DataTypes
<1>a. call'[t] = "acked"
  BY AckedStays DEF Sound
<1> DEFINE Goal == Rank(GetStatus(p, t).status) <= Rank(GetStatus(p, t)'.status)
<1>b. /\ \A s \in Statuses : Rank(s) \in 1 .. 3
      /\ Rank("queued") = 1 /\ Rank("running") = 2 /\ \A s \in Terminal : Rank(s) = 3
  BY DEF Rank, Statuses, Terminal
<1>v. GetStatus(p, t).status \in Statuses /\ GetStatus(p, t)'.status \in Statuses
  BY <1>a, AnswerParts
<1>k. ASSUME env'[p][t] = env[p][t], rows'[t] = rows[t] \/ env[p][t] # Nothing PROVE Goal
  <2>1. GetStatus(p, t)' = GetStatus(p, t)
    BY <1>a, <1>k, AnswerParts
  <2> QED
    BY <1>b, <1>v, <2>1
<1>1. ASSUME NEW q \in Procs, Start(q) \/ FinishStart(q) \/ Dequeue(q) \/ Drop(q) \/ Stop(q) PROVE Goal
  BY <1>1, <1>k DEF Start, FinishStart, Dequeue, Drop, Stop, data
<1>2. ASSUME NEW u \in Tasks, RecoverNext(p, u) PROVE Goal
  BY <1>2 DEF RecoverNext
<1>3. ASSUME NEW u \in Tasks, SubmitPersist(p, u) PROVE Goal
  <2>1. u # t /\ env' = [env EXCEPT ![p][u] = Fresh] /\ (rows' = rows \/ rows' = [rows EXCEPT ![u] = Fresh])
    BY <1>3 DEF SubmitPersist, Attempted
  <2>2. env'[p][t] = env[p][t] /\ rows'[t] = rows[t]
    BY <1>t, <2>1
  <2> QED
    BY <1>k, <2>2
<1>4. ASSUME NEW u \in Tasks, SubmitEnqueue(p, u) \/ SubmitReturn(p, u) PROVE Goal
  BY <1>4, <1>k DEF SubmitEnqueue, SubmitReturn, data
<1>5. ASSUME Begin(p) PROVE Goal
  <2>1. PICK u \in Tasks : u = cur[p]
    BY <1>5, <1>t DEF Begin, InStep
  <2>2. /\ env' = [env EXCEPT ![p][u] = Started(@)] /\ \A w \in Tasks \ {u} : rows'[w] = rows[w]
        /\ env[p][u] # Nothing /\ pc[p] = "got"
    BY <1>5, <1>t, <2>1 DEF Begin, Attempted
  <2>3. CASE u # t
    <3>1. env'[p][t] = env[p][t] /\ rows'[t] = rows[t]
      BY <1>t, <2>1, <2>2, <2>3
    <3> QED
      BY <1>k, <3>1
  <2>4. CASE u = t
    <3>1. Recoverable(t) /\ Envelope(p, t)
      <4>1. HeldOrSettling(p) /\ Envelope(p, t)
        BY DEF Sound, Owned, InMemory
      <4> QED
        BY <2>1, <2>2, <2>4, <4>1 DEF HeldOrSettling, Settling
    <3>2. env[p][t].status \notin Terminal
      BY <2>2, <3>1 DEF Envelope, Reported, Reporting, Recoverable, Terminal
    <3>3. env[p][t].status \in {"queued", "running"} /\ GetStatus(p, t) = env[p][t]
      BY <2>2, <2>4, <3>2, AnswerParts DEF Statuses
    <3>4. env'[p][t] = Started(env[p][t]) /\ Started(env[p][t]).status = "running"
      BY <1>t, <2>2, <2>4 DEF Started, Answers
    <3>5. env'[p][t] # Nothing
      BY <3>4 DEF Nothing
    <3>6. GetStatus(p, t)' = env'[p][t]
      BY <1>a, <3>5, AnswerParts
    <3> QED
      BY <1>b, <3>3, <3>4, <3>6
  <2> QED
    BY <2>3, <2>4
<1>6. ASSUME Execute(p) PROVE Goal
  <2>1. PICK u \in Tasks : u = cur[p]
    BY <1>6, <1>t DEF Execute, InStep
  <2>2. rows' = rows /\ (env' = [env EXCEPT ![p][u] = Completed(@)] \/ env' = [env EXCEPT ![p][u] = Failed(@)])
    BY <1>6, <2>1 DEF Execute
  <2>3. CASE u # t
    <3>1. env'[p][t] = env[p][t]
      BY <1>t, <2>1, <2>2, <2>3
    <3> QED
      BY <1>k, <2>2, <3>1
  <2>4. CASE u = t
    <3>1. env'[p][t] = Completed(env[p][t]) \/ env'[p][t] = Failed(env[p][t])
      BY <1>t, <2>2, <2>4
    <3>2. env'[p][t].status \in Terminal
      <4>1. \A a \in Answers : Completed(a).status \in Terminal /\ Failed(a).status \in Terminal
        BY DEF Completed, Failed, Answers, Terminal
      <4> QED
        BY <1>t, <3>1, <4>1
    <3>3. GetStatus(p, t)' = env'[p][t]
      BY <1>a, <3>2, AnswerParts DEF Nothing, Terminal
    <3> QED
      BY <1>b, <1>v, <3>2, <3>3
  <2> QED
    BY <2>3, <2>4
<1>7. ASSUME RecordCompleted(p) \/ RecordFailed(p) PROVE Goal
  <2>1. PICK u \in Tasks : u = cur[p]
    BY <1>7, <1>t DEF RecordCompleted, RecordFailed, InStep
  <2>2. /\ env' = env \/ env' = [env EXCEPT ![p][u] = Failed(@)]
        /\ \A w \in Tasks \ {u} : rows'[w] = rows[w]
    BY <1>7, <1>t, <2>1 DEF RecordCompleted, RecordFailed, Attempted
  <2>3. CASE u # t
    <3>1. env'[p][t] = env[p][t] /\ rows'[t] = rows[t]
      BY <1>t, <2>2, <2>3
    <3> QED
      BY <1>k, <3>1
  <2>4. CASE u = t
    <3>1. env[p][t] # Nothing
      <4>1. InHand(p) /\ (pc[p] = "succeeded" \/ pc[p] = "raised")
        BY <1>7 DEF Sound, InMemory, RecordCompleted, RecordFailed
      <4>2. env[p][t].status \in {"completed", "failed"}
        BY <2>1, <2>4, <4>1 DEF InHand
      <4> QED
        BY <4>2 DEF Nothing
    <3>2. env'[p][t] = env[p][t] \/ env'[p][t] = Failed(env[p][t])
      BY <1>t, <2>2, <2>4
    <3>3. CASE env'[p][t] = env[p][t]
      BY <1>k, <3>1, <3>3
    <3>4. CASE env'[p][t] = Failed(env[p][t])
      <4>1. env'[p][t].status \in Terminal
        BY <1>t, <3>4 DEF Failed, Answers, Terminal
      <4>2. GetStatus(p, t)' = env'[p][t]
        BY <1>a, <4>1, AnswerParts DEF Nothing, Terminal
      <4> QED
        BY <1>b, <1>v, <4>1, <4>2
    <3> QED
      BY <3>2, <3>3, <3>4
  <2> QED
    BY <2>3, <2>4
<1>8. ASSUME Gone(p) PROVE Goal
  BY <1>8, <1>t DEF Gone
<1>9. ASSUME UNCHANGED vars PROVE Goal
  BY <1>9, <1>k DEF vars, data
<1>10. ProcNext(p) \/ UNCHANGED vars
  BY <1>p DEF Next
<1>11. Goal
  <2> HIDE DEF Goal
  <2> QED
    BY <1>1, <1>2, <1>3, <1>4, <1>5, <1>6, <1>7, <1>8, <1>9, <1>10
       DEF ProcNext, StartStep, RequestStep, WorkerStep, Exit, Crash
<1> QED
  BY <1>a, <1>11

------------------------------------------------------------------------------
(* A process that stops serving has no stream left: stop() waits for them,  *)
(* a crash cuts them.                                                       *)
LEMMA ServesStep ==
  ASSUME OneOwner, TypeOK, [StreamNext]_allVars, NEW s \in Streams, Live(s), Live(s)', phase[peer[s]] = "up",
         peer[s] \in Procs, UNCHANGED peer[s]
  PROVE  phase'[peer'[s]] = "up"
<1> DEFINE Goal == phase'[peer[s]] = "up"
<1> SUFFICES Goal
  OBVIOUS
<1>t. phase \in [Procs -> {"down", "recovering", "up", "stopped"}]
  BY DEF TypeOK, ControlTypes
<1>1. ASSUME NEW q \in Procs, QuietStart(q) PROVE Goal
  BY <1>1, <1>t DEF QuietStart, StartStep, Start, RecoverNext, FinishStart, OneOwner
<1>2. ASSUME NEW q \in Procs, WorkerTurn(q) PROVE Goal
  BY <1>2 DEF WorkerTurn, PublishedWork, QuietWork, Begin, RecordCompleted, RecordFailed, Dequeue, Drop, Execute
<1>3. ASSUME NEW q \in Procs, DrainedStop(q) PROVE Goal
  BY <1>3, <1>t DEF DrainedStop, Stop, Live
<1>4. ASSUME NEW q \in Procs, QuietExit(q) PROVE Goal
  BY <1>4, <1>t DEF QuietExit, Exit, Gone
<1>5. ASSUME NEW q \in Procs, CrashCuts(q) PROVE Goal
  BY <1>5, <1>t DEF CrashCuts, Crash, Gone, Live
<1>6. ASSUME NEW q \in Procs, NEW u \in Tasks, SubmitTurn(q, u) PROVE Goal
  BY <1>6 DEF SubmitTurn, QuietSubmit, PublishedReturn, SubmitPersist, SubmitEnqueue, SubmitReturn, life
<1>7. ASSUME NEW r \in Streams, StreamTurn(r) \/ Disconnect(r) \/ \E q \in Procs, u \in Tasks : Subscribe(q, r, u)
      PROVE  Goal
  BY <1>7 DEF StreamTurn, Deliver, Cleanup, Disconnect, Subscribe, vars, life
<1>8. ASSUME UNCHANGED allVars PROVE Goal
  BY <1>8 DEF allVars, vars, life
<1> HIDE DEF Goal
<1> QED
  BY <1>1, <1>2, <1>3, <1>4, <1>5, <1>6, <1>7, <1>8 DEF StreamNext

(* What one stream was told: in the order of the task, not ahead of what    *)
(* its process answers, and where it is a firm end, the stored one, which   *)
(* no worker holds any more.                                                *)
InOrder(s) ==
  \A i, j \in DOMAIN History(s) : i < j => Rank(History(s)[i].status) <= Rank(History(s)[j].status)

NotAhead(s) ==
  \A i \in DOMAIN History(s) : Rank(History(s)[i].status) <= Rank(GetStatus(peer[s], topic[s]).status)

EndStored(s) ==
  \A i \in DOMAIN History(s) : Firm(History(s)[i]) =>
    rows[topic[s]] = History(s)[i] /\ \A q \in Procs : cur[q] # topic[s]

Truthful(s) ==
  /\ sub[s] # "new" => call[topic[s]] = "acked"
  /\ Live(s) => phase[peer[s]] = "up" /\ NotAhead(s)
  /\ InOrder(s) /\ EndStored(s)

(* Registering, publishing and all that adds nothing keep a stream truthful. *)
LEMMA TruthfulStep ==
  ASSUME OneOwner, Sound, Sound', StreamTypeOK, StreamTypeOK', Unsent, [StreamNext]_allVars,
         NEW s \in Streams, Truthful(s)
  PROVE  Truthful(s)'
<1> USE NullAssumption
<1>n. [Next]_vars
  BY StreamStepIsStep
<1>t. /\ inbox[s] \in Seq(Answers) /\ seen[s] \in Seq(Answers) /\ History(s) \in Seq(Answers)
      /\ peer[s] \in Procs \cup {NoProc} /\ topic[s] \in Tasks \cup {NoTask}
      /\ sub[s] = "new" <=> topic[s] = NoTask
      /\ sub[s] = "new" <=> peer[s] = NoProc
      /\ sub[s] = "new" => History(s) = <<>>
  BY HistoryType
<1>r. \A x \in Statuses \cup {"none"} : Rank(x) \in 1 .. 3
  BY DEF Rank
<1>s. \A i \in DOMAIN History(s) : Rank(History(s)[i].status) \in 1 .. 3
  <2>1. \A a \in Answers : a.status \in Statuses \cup {"none"}
    BY DEF Answers
  <2>2. \A i \in DOMAIN History(s) : History(s)[i] \in Answers
    BY <1>t
  <2> QED
    BY <1>r, <2>1, <2>2
<1>e. ASSUME sub[s] # "new", UNCHANGED topic[s]
      PROVE  \A i \in DOMAIN History(s) : Firm(History(s)[i]) =>
               rows'[topic'[s]] = History(s)[i] /\ \A q \in Procs : cur'[q] # topic'[s]
  BY <1>e, <1>n, <1>t, SettledStep DEF Truthful, EndStored, Firm, IsTerminal, Sound
<1>1. CASE Registered(s) /\ seen[s] = <<>>
  <2>1. PICK p \in Procs, t \in Tasks :
          /\ LoopFree(p) /\ call[t] = "acked" /\ UNCHANGED vars
          /\ sub'[s] = "open" /\ peer'[s] = p /\ topic'[s] = t
          /\ inbox'[s] = <<GetStatus(p, t)>> /\ seen'[s] = <<>>
    BY <1>1 DEF Registered
  <2> DEFINE x == GetStatus(p, t)
  <2>2. x \in Answers /\ x.status \in Statuses
    BY <2>1, AnswerParts
  <2>3. GetStatus(peer[s], topic[s])' = x
    BY <2>1 DEF GetStatus, vars, data
  <2>4. Firm(x) => rows[t] = x /\ \A q \in Procs : cur[q] # t
    BY <2>1, EndIsStored DEF LoopFree, WorkerBlocks, Reporting
  <2> HIDE DEF x
  <2>5. History(s)' = <<x>>
    <3>1. seen'[s] = <<>> /\ inbox'[s] = <<x>>
      BY <2>1 DEF x
    <3>2. \A y \in Answers : <<>> \o <<y>> = <<y>>
      OBVIOUS
    <3> QED
      BY <2>2, <3>1, <3>2 DEF History
  <2>6. DOMAIN History(s)' = {1} /\ History(s)'[1] = x
    BY <2>5
  <2>7. NotAhead(s)' /\ InOrder(s)'
    BY <1>r, <2>2, <2>3, <2>6 DEF NotAhead, InOrder
  <2>8. EndStored(s)'
    BY <2>1, <2>4, <2>6 DEF EndStored, vars, life, data, Firm, IsTerminal
  <2>9. call'[topic'[s]] = "acked" /\ phase'[peer'[s]] = "up"
    BY <2>1 DEF vars, life, calls, LoopFree
  <2> QED
    BY <2>7, <2>8, <2>9 DEF Truthful
<1>2. CASE /\ Told(s) /\ Announces(peer[s], topic[s])
           /\ History(s)' = Append(History(s), GetStatus(peer[s], topic[s])')
  <2>1. Live(s) /\ Live(s)' /\ sub[s] # "new" /\ UNCHANGED <<sub[s], peer[s], topic[s]>>
    BY <1>2 DEF Told, Live
  <2>2. PICK p \in Procs, t \in Tasks : p = peer[s] /\ t = topic[s]
    BY <1>t, <2>1
  <2>3. phase[p] = "up" /\ phase'[p] = "up" /\ call[t] = "acked"
    BY <2>1, <2>2, ServesStep DEF Truthful, Sound
  <2>4. call'[t] = "acked" /\ Rank(GetStatus(p, t).status) <= Rank(GetStatus(p, t)'.status)
    BY <1>n, <2>3, AnswerStep
  <2>5. ~Reporting(p, t)'
    <3>1. ~SubmitReturn(p, t)
      BY <2>3 DEF SubmitReturn
    <3>2. pc'[p] \notin {"raised", "dead"} /\ (Begin(p) \/ RecordCompleted(p) \/ RecordFailed(p))
      BY <1>2, <2>2, <3>1 DEF Announces
    <3> QED
      BY <3>2 DEF Begin, RecordCompleted, RecordFailed, Reporting, Sound, TypeOK, ControlTypes
  <2> DEFINE x == GetStatus(p, t)'
  <2>6. GetStatus(peer[s], topic[s])' = x
    BY <2>1, <2>2 DEF GetStatus
  <2>7. x \in Answers /\ x.status \in Statuses /\ GetStatus(p, t).status \in Statuses
    BY <2>3, <2>4, AnswerParts
  <2>8. Firm(x) => rows'[t] = x /\ \A q \in Procs : cur'[q] # t
    BY <2>4, <2>5, EndIsStored
  <2>a. \A i \in DOMAIN History(s) : Rank(History(s)[i].status) <= Rank(GetStatus(p, t).status)
    BY <2>1, <2>2 DEF Truthful, NotAhead
  <2>b. Rank(GetStatus(p, t).status) \in 1 .. 3 /\ Rank(x.status) \in 1 .. 3
    BY <1>r, <2>7
  <2>c. Rank(GetStatus(p, t).status) <= Rank(x.status)
    BY <2>4
  <2> HIDE DEF x
  <2>d. \A i \in DOMAIN History(s) : Rank(History(s)[i].status) <= Rank(x.status)
    BY <1>s, <2>a, <2>b, <2>c
  <2>9. /\ Len(History(s)) \in Nat
        /\ DOMAIN History(s) = 1 .. Len(History(s)) /\ DOMAIN History(s)' = 1 .. Len(History(s)) + 1
        /\ \A i \in 1 .. Len(History(s)) : History(s)'[i] = History(s)[i]
        /\ History(s)'[Len(History(s)) + 1] = x
    <3>1. History(s)' = Append(History(s), x)
      BY <1>2, <2>6
    <3> QED
      BY <1>t, <2>7, <3>1
  <2>10. NotAhead(s)'
    <3>1. ASSUME NEW i \in DOMAIN History(s)' PROVE Rank(History(s)'[i].status) <= Rank(x.status)
      BY <2>9, <2>b, <2>d
    <3> QED
      BY <2>6, <3>1 DEF NotAhead
  <2>11. InOrder(s)'
    <3>1. ASSUME NEW i \in DOMAIN History(s)', NEW j \in DOMAIN History(s)', i < j
          PROVE  Rank(History(s)'[i].status) <= Rank(History(s)'[j].status)
      <4>1. i \in DOMAIN History(s) /\ History(s)'[i] = History(s)[i]
        BY <2>9, <3>1
      <4>2. CASE j = Len(History(s)) + 1
        BY <2>9, <2>d, <4>1, <4>2
      <4>3. CASE j # Len(History(s)) + 1
        <5>1. j \in DOMAIN History(s) /\ History(s)'[j] = History(s)[j]
          BY <2>9, <4>3
        <5> QED
          BY <3>1, <4>1, <5>1 DEF Truthful, InOrder
      <4> QED
        BY <4>2, <4>3
    <3> QED
      BY <3>1 DEF InOrder
  <2>12. EndStored(s)'
    <3>1. ASSUME NEW i \in DOMAIN History(s)', Firm(History(s)'[i]) 
          PROVE  rows'[topic'[s]] = History(s)'[i] /\ \A q \in Procs : cur'[q] # topic'[s]
      <4>1. CASE i = Len(History(s)) + 1
        BY <2>1, <2>2, <2>8, <2>9, <3>1, <4>1 DEF Firm, IsTerminal
      <4>2. CASE i # Len(History(s)) + 1
        <5>1. i \in DOMAIN History(s) /\ History(s)'[i] = History(s)[i]
          BY <2>9, <4>2
        <5> QED
          BY <1>e, <2>1, <3>1, <5>1 DEF Firm, IsTerminal
      <4> QED
        BY <4>1, <4>2
    <3> QED
      BY <3>1 DEF EndStored, Firm, IsTerminal
  <2> QED
    BY <2>1, <2>2, <2>3, <2>4, <2>10, <2>11, <2>12 DEF Truthful
<1>3. CASE Shortened(s)
  <2>1. /\ \A i \in DOMAIN History(s)' : i \in DOMAIN History(s) /\ History(s)'[i] = History(s)[i]
        /\ Live(s)' => Live(s)
        /\ sub[s] = "new" <=> sub'[s] = "new"
        /\ UNCHANGED <<peer[s], topic[s]>>
    BY <1>3 DEF Shortened
  <2>2. InOrder(s)'
    BY <2>1 DEF Truthful, InOrder
  <2>3. CASE sub[s] = "new"
    <3>1. DOMAIN History(s)' = {} /\ ~Live(s)'
      <4>1. \A i : i \notin DOMAIN <<>>
        OBVIOUS
      <4>2. DOMAIN History(s) = {}
        BY <1>t, <2>3, <4>1
      <4> QED
        BY <2>1, <2>3, <4>2 DEF Live
    <3> QED
      BY <2>1, <2>2, <2>3, <3>1 DEF Truthful, EndStored
  <2>4. CASE sub[s] # "new"
    <3>1. EndStored(s)'
      BY <1>e, <2>1, <2>4 DEF EndStored, Firm, IsTerminal
    <3>2. PICK p \in Procs, t \in Tasks : p = peer[s] /\ t = topic[s]
      BY <1>t, <2>4
    <3>3. call[t] = "acked"
      BY <2>4, <3>2 DEF Truthful
    <3>4. call'[topic'[s]] = "acked"
      BY <1>n, <2>1, <3>2, <3>3, AckedStays DEF Sound
    <3>5. ASSUME Live(s)' PROVE phase'[peer'[s]] = "up" /\ NotAhead(s)'
      <4>1. Live(s) /\ phase[p] = "up" /\ phase'[p] = "up"
        BY <2>1, <3>2, <3>5, ServesStep DEF Truthful, Sound
      <4>2. Rank(GetStatus(p, t).status) <= Rank(GetStatus(p, t)'.status)
        BY <1>n, <3>3, <4>1, AnswerStep
      <4>3. Rank(GetStatus(p, t).status) \in 1 .. 3 /\ Rank(GetStatus(p, t)'.status) \in 1 .. 3
        <5>1. call'[t] = "acked"
          BY <2>1, <3>2, <3>4
        <5>2. GetStatus(p, t).status \in Statuses /\ GetStatus(p, t)'.status \in Statuses
          BY <3>3, <5>1, AnswerParts
        <5> QED
          BY <1>r, <5>2
      <4>4. \A i \in DOMAIN History(s) : Rank(History(s)[i].status) <= Rank(GetStatus(p, t).status)
        BY <3>2, <4>1 DEF Truthful, NotAhead
      <4>5. GetStatus(peer[s], topic[s])' = GetStatus(p, t)'
        BY <2>1, <3>2 DEF GetStatus
      <4> DEFINE g == Rank(GetStatus(p, t).status)
                 h == Rank(GetStatus(p, t)'.status)
      <4>6. \A i \in DOMAIN History(s) : Rank(History(s)[i].status) <= h
        <5> g \in 1 .. 3 /\ h \in 1 .. 3 /\ g <= h /\ \A i \in DOMAIN History(s) : Rank(History(s)[i].status) <= g
          BY <4>2, <4>3, <4>4
        <5> HIDE DEF g, h
        <5> QED
          BY <1>s
      <4> QED
        BY <2>1, <3>2, <4>1, <4>5, <4>6 DEF NotAhead
    <3> QED
      BY <2>2, <3>1, <3>4, <3>5 DEF Truthful
  <2> QED
    BY <2>3, <2>4
<1> QED
  BY <1>1, <1>2, <1>3, HistoryStep

(* All of it at once, for every stream. *)
LEMMA TruthfulInvariant == OneOwner => (StreamSpec => [](StreamTypeOK /\ \A s \in Streams : Truthful(s)))
<1> SUFFICES ASSUME OneOwner PROVE StreamSpec => [](StreamTypeOK /\ \A s \in Streams : Truthful(s))
  OBVIOUS
<1> DEFINE AllTrue == \A s \in Streams : Truthful(s)
<1>1. StreamInit => AllTrue
  BY DEF StreamInit, Truthful, Live, InOrder, EndStored, History
<1>2. Sound /\ Sound' /\ StreamTypeOK /\ StreamTypeOK' /\ Unsent /\ AllTrue /\ [StreamNext]_allVars => AllTrue'
  BY TruthfulStep
<1>3. StreamSpec => []Sound
  BY StreamsKeepService, TypeInvariant, AckedTasksAreDurable, OwnedInvariant, InMemoryInvariant, PTL DEF Sound
<1> HIDE DEF AllTrue
<1>4. StreamSpec => [](StreamTypeOK /\ AllTrue)
  BY <1>1, <1>2, <1>3, StreamInvariant, PTL DEF StreamSpec
<1> QED
  BY <1>4 DEF AllTrue

(* With one owner a client sees its task only move forward, whatever        *)
(* coroutine took the snapshot it is sent, and also when writes of rows     *)
(* raise and the worker makes a finished task fail, or dies.                *)
THEOREM StreamsMoveForward == OneOwner => (StreamSpec => []ForwardOnly)
<1>1. (\A s \in Streams : Truthful(s)) => ForwardOnly
  BY DEF Truthful, InOrder, History, ForwardOnly
<1> QED
  BY <1>1, TruthfulInvariant, PTL

(* What the clients were told is stored. *)
LEMMA SentEndsAreStored ==
  ASSUME StreamTypeOK, \A s \in Streams : Truthful(s), NEW s \in Streams, NEW i \in DOMAIN seen[s], Firm(seen[s][i])
  PROVE  rows[topic[s]] = seen[s][i]
<1>1. i \in DOMAIN History(s) /\ History(s)[i] = seen[s][i]
  BY JoinedSequence DEF StreamTypeOK, History
<1> QED
  BY <1>1 DEF Truthful, EndStored

(* There, where no write raises, the end a client was told is stored, and   *)
(* stays stored through every crash and recovery.                           *)
THEOREM AnnouncedEndsStay == OneOwner /\ MaxDbFaults = 0 => (StreamSpec => []ToldIsStored)
<1> SUFFICES ASSUME OneOwner, MaxDbFaults = 0 PROVE StreamSpec => []ToldIsStored
  OBVIOUS
<1>1. StreamTypeOK /\ (\A s \in Streams : Truthful(s)) => ToldIsStored
  BY SentEndsAreStored DEF ToldIsStored, Firm
<1> QED
  BY <1>1, TruthfulInvariant, PTL

\* ToldIsStored, of tasks that completed.
CompletedIsStored ==
  \A s \in Streams : \A i \in DOMAIN seen[s] :
    seen[s][i].status = "completed" => rows[topic[s]] = seen[s][i]

(* And where writes may raise, a client that was told "completed" has the   *)
(* stored answer, with its result, for ever: a task whose completed write   *)
(* raised is announced as failed or not at all.                             *)
THEOREM CompletionsStay == OneOwner => (StreamSpec => []CompletedIsStored)
<1> SUFFICES ASSUME OneOwner PROVE StreamSpec => []CompletedIsStored
  OBVIOUS
<1>1. StreamTypeOK /\ (\A s \in Streams : Truthful(s)) => CompletedIsStored
  BY SentEndsAreStored DEF CompletedIsStored, Firm, IsTerminal, Terminal
<1> QED
  BY <1>1, TruthfulInvariant, PTL
===============================================================================
