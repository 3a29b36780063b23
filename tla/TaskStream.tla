------------------------------ MODULE TaskStream ------------------------------
(***************************************************************************)
(* The SSE streams over TaskManager: subscribe_status and _publish_status  *)
(* (app/workers/task_worker.py) under stream_task_status                   *)
(* (app/api/v1/tasks.py).  Every step of the task service is taken         *)
(* together with the publish it ends in.                                   *)
(*                                                                         *)
(* The subscriber lock is never held over a suspension and the subscriber  *)
(* queues are unbounded, so registering with the first snapshot, and       *)
(* publishing to every subscriber, are each one step.  Delivering needs    *)
(* the loop, as does everything a stream does.                             *)
(***************************************************************************)
EXTENDS TaskManager

CONSTANT Streams            \* GET /tasks/{id}/events requests

VARIABLES
  sub,      \* sub[s]: "new", "open", "closing" (finally not yet run), "closed", "cut"
  peer,     \* peer[s]: the process serving s
  topic,    \* topic[s]: the task s follows
  inbox,    \* inbox[s]: snapshots published to s and not yet sent
  seen      \* seen[s]: snapshots sent to the client (history)

streamVars == <<sub, peer, topic, inbox, seen>>
allVars    == <<vars, streamVars>>

\* Members of TaskManager._subscribers[t] of process p.
Subscribers(p, t) ==
  {s \in Streams : sub[s] \in {"open", "closing"} /\ peer[s] = p /\ topic[s] = t}

StreamInit ==
  /\ Init
  /\ sub   = [s \in Streams |-> "new"]
  /\ peer  = [s \in Streams |-> NoProc]
  /\ topic = [s \in Streams |-> NoTask]
  /\ inbox = [s \in Streams |-> <<>>]
  /\ seen  = [s \in Streams |-> <<>>]

------------------------------------------------------------------------------
\* Mutants: a subscriber queue of one place drops what it has no room for; it is a stack.
PublishIfRoom(p, t) ==
  /\ inbox' = [s \in Streams |-> IF s \in Subscribers(p, t) /\ inbox[s] = <<>>
                                 THEN <<GetStatus(p, t)'>> ELSE inbox[s]]
  /\ UNCHANGED <<sub, peer, topic, seen>>
PublishInFront(p, t) ==
  /\ inbox' = [s \in Streams |-> IF s \in Subscribers(p, t)
                                 THEN <<GetStatus(p, t)'>> \o inbox[s] ELSE inbox[s]]
  /\ UNCHANGED <<sub, peer, topic, seen>>

(* _publish_status: the snapshot is taken after the step it announces. *)
Publish(p, t) ==
  /\ inbox' = [s \in Streams |-> IF s \in Subscribers(p, t)
                                 THEN Append(inbox[s], GetStatus(p, t)')
                                 ELSE inbox[s]]
  /\ UNCHANGED <<sub, peer, topic, seen>>

\* A write that raises leaves no chance to publish.
PublishUnlessRaised(p, t) ==
  IF pc'[p] \in {"raised", "dead"} THEN UNCHANGED streamVars ELSE Publish(p, t)

PublishedReturn(p, t) == SubmitReturn(p, t) /\ Publish(p, t)

PublishedWork(p) ==
  \E t \in Tasks :
    /\ t = cur[p]
    /\ Begin(p) \/ RecordCompleted(p) \/ RecordFailed(p)
    /\ PublishUnlessRaised(p, t)

QuietWork(p)    == (Dequeue(p) \/ Drop(p) \/ Execute(p)) /\ UNCHANGED streamVars
QuietStart(p)   == StartStep(p) /\ UNCHANGED streamVars
QuietSubmit(p, t) == (SubmitPersist(p, t) \/ SubmitEnqueue(p, t)) /\ UNCHANGED streamVars

\* The server waits for its open responses before it lets stop() run.
DrainedStop(p) ==
  /\ \A s \in Streams : peer[s] = p => sub[s] \notin {"open", "closing"}
  /\ Stop(p)
  /\ UNCHANGED streamVars

QuietExit(p) == Exit(p) /\ UNCHANGED streamVars

CrashCuts(p) ==
  /\ Crash(p)
  /\ sub'   = [s \in Streams |-> IF peer[s] = p /\ sub[s] \in {"open", "closing"}
                                 THEN "cut" ELSE sub[s]]
  /\ inbox' = [s \in Streams |-> IF peer[s] = p THEN <<>> ELSE inbox[s]]
  /\ UNCHANGED <<peer, topic, seen>>

------------------------------------------------------------------------------
(* subscribe_status: register and push the snapshot under the lock.  A      *)
(* client follows a task it was given the id of.                            *)
Subscribe(p, s, t) ==
  /\ LoopFree(p)
  /\ sub[s] = "new" /\ call[t] = "acked"
  /\ sub'   = [sub EXCEPT ![s] = "open"]
  /\ peer'  = [peer EXCEPT ![s] = p]
  /\ topic' = [topic EXCEPT ![s] = t]
  /\ inbox' = [inbox EXCEPT ![s] = <<GetStatus(p, t)>>]
  /\ UNCHANGED <<vars, seen>>

StaysOpen(answer) == "open"             \* mutant: no break after a terminal status
AfterSending(answer) == IF answer.status \in Terminal THEN "closing" ELSE "open"

(* One turn of the stream's loop; after a terminal snapshot it breaks. *)
Deliver(s) ==
  /\ sub[s] = "open" /\ LoopFree(peer[s])
  /\ inbox[s] # <<>>
  /\ inbox' = [inbox EXCEPT ![s] = Tail(@)]
  /\ seen'  = [seen EXCEPT ![s] = Append(@, Head(inbox[s]))]
  /\ sub'   = [sub EXCEPT ![s] = AfterSending(Head(inbox[s]))]
  /\ UNCHANGED <<vars, peer, topic>>

(* The client went away: the route's loop breaks, or the response task is   *)
(* cancelled where it waits.                                                *)
Disconnect(s) ==
  /\ sub[s] = "open" /\ LoopFree(peer[s])
  /\ sub' = [sub EXCEPT ![s] = "closing"]
  /\ UNCHANGED <<vars, peer, topic, inbox, seen>>

(* The finally block: the generator leaves the subscriber set.  It runs     *)
(* when the abandoned generator is closed, some turns of the loop later.    *)
Cleanup(s) ==
  /\ sub[s] = "closing" /\ LoopFree(peer[s])
  /\ sub'   = [sub EXCEPT ![s] = "closed"]
  /\ inbox' = [inbox EXCEPT ![s] = <<>>]
  /\ UNCHANGED <<vars, peer, topic, seen>>

------------------------------------------------------------------------------
WorkerTurn(p)    == PublishedWork(p) \/ QuietWork(p)
SubmitTurn(p, t) == QuietSubmit(p, t) \/ PublishedReturn(p, t)
StreamTurn(s)    == Deliver(s) \/ Cleanup(s)

StreamNext ==
  \/ \E p \in Procs :
       \/ QuietStart(p) \/ WorkerTurn(p) \/ DrainedStop(p) \/ QuietExit(p) \/ CrashCuts(p)
       \/ \E t \in Tasks : SubmitTurn(p, t) \/ \E s \in Streams : Subscribe(p, s, t)
  \/ \E s \in Streams : StreamTurn(s) \/ Disconnect(s)

StreamSpec == StreamInit /\ [][StreamNext]_allVars

(* As Fairness of TaskManager, and the loop is fair to every stream.        *)
StreamFairness ==
  /\ \A p \in Procs :
       /\ WF_allVars(WorkerTurn(p))
       /\ WF_allVars(QuietStart(p))
       /\ WF_allVars(QuietExit(p))
       /\ \A t \in Tasks :
            /\ WF_allVars(SubmitEnqueue(p, t) /\ UNCHANGED streamVars)
            /\ WF_allVars(PublishedReturn(p, t))
  /\ \A s \in Streams : WF_allVars(StreamTurn(s))

StreamFairSpec == StreamSpec /\ StreamFairness

------------------------------------------------------------------------------
(* Types, and the stages of a stream: it has a process and a task from its  *)
(* registration on, sends nothing after a terminal answer, and leaves       *)
(* nothing queued behind when it is gone.                                   *)
StreamTypeOK ==
  /\ sub \in [Streams -> {"new", "open", "closing", "closed", "cut"}]
  /\ peer \in [Streams -> Procs \cup {NoProc}]
  /\ topic \in [Streams -> Tasks \cup {NoTask}]
  /\ inbox \in [Streams -> Seq(Answers)] /\ seen \in [Streams -> Seq(Answers)]
  /\ \A s \in Streams :
       /\ sub[s] = "new" <=> topic[s] = NoTask
       /\ sub[s] = "new" <=> peer[s] = NoProc
       /\ sub[s] \notin {"open", "closing"} => inbox[s] = <<>>
       /\ \A i \in DOMAIN seen[s] :
            seen[s][i].status \in Terminal => i = Len(seen[s]) /\ sub[s] # "open"

IsTerminal(answer) == answer.status \in Terminal

(* A client that follows a task is told how it ended: whenever the loop is  *)
(* free, an open stream of a task that this process has ended has the       *)
(* terminal answer waiting.  Registration, first snapshot and publish have  *)
(* to leave no gap in which the only terminal publish goes by unseen.       *)
NoMissedTerminal ==
  \A s \in Streams :
    (sub[s] = "open" /\ LoopFree(peer[s]) /\ IsTerminal(env[peer[s]][topic[s]]))
      => \E i \in DOMAIN inbox[s] : IsTerminal(inbox[s][i])

Rank(status) == CASE status = "queued"  -> 1
                  [] status = "running" -> 2
                  [] OTHER              -> 3

(* A client sees a task only move forward: what was sent and what is still  *)
(* to be sent is in the order queued, running, ended, although snapshots    *)
(* and publishes are made by different coroutines.                          *)
ForwardOnly ==
  \A s \in Streams :
    LET told == seen[s] \o inbox[s] IN
    \A i, j \in DOMAIN told : i < j => Rank(told[i].status) <= Rank(told[j].status)

(* The end a client was told is the end that is stored, and stays so across *)
(* crashes, recoveries and reruns: no stream announces an answer that a     *)
(* restart takes back.                                                      *)
ToldIsStored ==
  \A s \in Streams : \A i \in DOMAIN seen[s] :
    IsTerminal(seen[s][i]) => rows[topic[s]] = seen[s][i]

(* Every stream comes to an end: the task it follows ends and its client is *)
(* told, or it is cut or abandoned; and it leaves the subscriber set.       *)
StreamsEnd == \A s \in Streams : sub[s] = "open" ~> sub[s] \in {"closed", "cut"}

(* "SSE shows progress in real time": when a client is sent "running", the  *)
(* task is not yet over.                                                    *)
RunningIsLive ==
  [][\A s \in Streams :
       (seen'[s] # seen[s] /\ seen'[s][Len(seen'[s])].status = "running")
         => rows[topic[s]].status \notin Terminal]_allVars
==============================================================================
