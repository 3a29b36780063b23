---------------------------- MODULE Orchestration ----------------------------
(***************************************************************************)
(* One execution of a request: app/orchestration/service.py (run), with    *)
(* the planner, executor and retriever of app/agents, the tool hub         *)
(* (app/tools/hub.py), the short-term memory (app/memory), the skill       *)
(* files and the audit log of one server process.                          *)
(*                                                                         *)
(* POST /agent/run executes in a thread of the request pool, the worker    *)
(* of TaskManager executes on the loop's thread, so executions of          *)
(* different requests interleave; they share the hub's cache, the          *)
(* memories and the skill directory.  The LangGraph path and the serial    *)
(* path call the same four agents in the same order.                       *)
(***************************************************************************)
EXTENDS Naturals, Sequences, FiniteSets, Functions

CONSTANTS
  Jobs,            \* requests, of tasks and of POST /agent/run
  Request,         \* Request[j]: what j asks for
  MaxTurns,        \* short_memory_turns
  MaxRuns,         \* executions, all jobs together (bound)
  MaxMishaps       \* raising stores and files, skill saves and crashes (bound)

ASSUME BoundAssumption ==
  /\ MaxTurns \in Nat \ {0} /\ MaxRuns \in Nat /\ MaxMishaps \in Nat

Tools      == {"send_email", "create_calendar_event", "file_tool",
               "web_fetch_tool", "web_search_tool", "database_tool"}
Idempotent == Tools \ {"file_tool", "database_tool"}
Roles      == {"employee", "manager", "admin"}      \* required_roles of every tool

Payloads == {"none", "unknown", "file", "fetch", "search", "database"}
Requests == [payload : Payloads, type : {"qa", "automation", "analysis"},
             words : SUBSET {"email", "calendar", "search"},
             auto : BOOLEAN, role : Roles \cup {"other"}, session : STRING]
ASSUME RequestAssumption == Request \in [Jobs -> Requests]

VARIABLES
  stage,      \* stage[j]: where the execution of j is
  attempt,    \* attempt[j]: executions of j so far; <<j, attempt[j]>> is its trace id
  todo,       \* todo[j]: tools the executor has still to invoke
  actions,    \* actions[j]: what the executor has recorded
  before,     \* before[j]: runs of the session answered before this one began (history)
  cache,      \* ToolHub._idempotency_cache: its keys
  done,       \* done[k]: how often the side effect of k took place (history)
  audited,    \* tool invocations in the audit log
  short,      \* short[s]: the remembered turns of session s
  log,        \* log[s]: every turn written to it since the process started (history)
  torn,       \* a skill file on disk is incomplete
  writing,    \* ... and a request is about to complete it
  faults, saves, crashes   \* raising stores and files, skill saves, crashes so far

jobVars == <<stage, attempt, todo, actions, before>>
hubVars == <<cache, done, audited>>
memVars == <<short, log>>
diskVars == <<torn, writing>>
envVars == <<faults, saves, crashes>>
vars    == <<jobVars, hubVars, memVars, diskVars, envVars>>

------------------------------------------------------------------------------
(* The planner: its tool steps. *)

PayloadTool == [file |-> "file_tool", fetch |-> "web_fetch_tool",
                search |-> "web_search_tool", database |-> "database_tool"]

When(condition, step) == IF condition THEN <<step>> ELSE <<>>

Plan(request) ==
  IF request.payload \in DOMAIN PayloadTool THEN <<PayloadTool[request.payload]>>
  ELSE IF request.type # "automation" THEN <<>>
  ELSE When("email" \in request.words, "send_email")
       \o When("calendar" \in request.words, "create_calendar_event")
       \o When("search" \in request.words, "web_search_tool")

Session(j) == Request[j].session
Trace(j)   == <<j, attempt[j]>>
Keys       == Jobs \X (1..MaxRuns) \X Tools

Key(j, tool) == <<j, attempt[j], tool>>

Idle   == {"new", "answered", "raised", "gone"}
Active == {"acting", "ran", "composed", "remembered"}

------------------------------------------------------------------------------
Init ==
  /\ stage   = [j \in Jobs |-> "new"]
  /\ attempt = [j \in Jobs |-> 0]
  /\ todo    = [j \in Jobs |-> <<>>]
  /\ actions = [j \in Jobs |-> <<>>]
  /\ before  = [j \in Jobs |-> {}]
  /\ cache   = {} /\ audited = {}
  /\ done    = [k \in Keys |-> 0]
  /\ short   = [s \in {Session(j) : j \in Jobs} |-> <<>>]
  /\ log     = [s \in {Session(j) : j \in Jobs} |-> <<>>]
  /\ torn = FALSE /\ writing = FALSE
  /\ faults = 0 /\ saves = 0 /\ crashes = 0

(* The bound on executions; its first part follows from the second, by an   *)
(* induction that is left to the model checker.                             *)
MayRun(j) == attempt[j] < MaxRuns /\ FoldFunction(+, 0, attempt) < MaxRuns

Calm  == faults + saves + crashes < MaxMishaps
Fault == Calm /\ faults' = faults + 1

Answered(s) == {<<j, attempt[j]>> : j \in {i \in Jobs : Session(i) = s /\ stage[i] = "answered"}}

(* A new trace id, the plan and the retrieval.  A job is executed again     *)
(* when its task is recovered or was enqueued twice, or its client repeats  *)
(* the call.  A raising retrieval ends the run.                             *)
Begin(j) ==
  /\ stage[j] \in Idle /\ MayRun(j)
  /\ attempt' = [attempt EXCEPT ![j] = @ + 1]
  /\ todo'    = [todo EXCEPT ![j] = IF Request[j].auto THEN Plan(Request[j]) ELSE <<>>]
  /\ actions' = [actions EXCEPT ![j] = IF Request[j].auto THEN <<>>
                                       ELSE <<[tool |-> "policy_gate", status |-> "skipped"]>>]
  /\ before'  = [before EXCEPT ![j] = Answered(Session(j))]
  /\ \/ stage' = [stage EXCEPT ![j] = "acting"] /\ UNCHANGED faults
     \/ stage' = [stage EXCEPT ![j] = "raised"] /\ Fault
  /\ UNCHANGED <<hubVars, memVars, diskVars, saves, crashes>>

RecordedDone(j, status) ==                     \* mutant: failures are swallowed
  [actions EXCEPT ![j] = Append(@, [tool |-> Head(todo[j]), status |-> "success"])]
RecordedSuccesses(j, status) ==                \* mutant: failures leave no action
  IF status = "failed" THEN actions
  ELSE [actions EXCEPT ![j] = Append(@, [tool |-> Head(todo[j]), status |-> status])]
Recorded(j, status) == [actions EXCEPT ![j] = Append(@, [tool |-> Head(todo[j]), status |-> status])]

NextStepRetrying(j) ==                         \* mutant: a failed step is tried once more
  todo' = [todo EXCEPT ![j] = IF Len(actions'[j]) = 1 /\ actions'[j][1].status = "failed"
                              THEN @ ELSE Tail(@)]
NextStep(j) == todo' = [todo EXCEPT ![j] = Tail(@)]

(* ToolHub.invoke, up to the return of the tool.  A role the tool does not  *)
(* list is refused, a tool that raises may have had its effect, and either  *)
(* becomes a failed action.                                                 *)
Invoke(j) ==
  LET key == Key(j, Head(todo[j]))
      Fails(times) == /\ done' = [done EXCEPT ![key] = @ + times]
                      /\ actions' = Recorded(j, "failed")
                      /\ NextStep(j)
                      /\ UNCHANGED stage
  IN
  /\ stage[j] = "acting" /\ todo[j] # <<>>
  /\ IF Request[j].role \notin Roles THEN Fails(0)
     ELSE IF key \in cache
     THEN /\ actions' = Recorded(j, "success")
          /\ NextStep(j)
          /\ UNCHANGED <<stage, done>>
     ELSE \/ /\ done'  = [done EXCEPT ![key] = @ + 1]
             /\ stage' = [stage EXCEPT ![j] = "ran"]
             /\ UNCHANGED <<todo, actions>>
          \/ \E times \in {0, 1} : Fails(times)
  /\ UNCHANGED <<attempt, before, cache, audited, memVars, diskVars, envVars>>

(* ToolHub.invoke, after the return of the tool: if the audit file cannot   *)
(* be written the invocation fails, although the tool has done its work.    *)
AuditTool(j) ==
  LET key == Key(j, Head(todo[j])) IN
  /\ stage[j] = "ran"
  /\ \/ /\ audited' = audited \cup {key}
        /\ cache'   = IF Head(todo[j]) \in Idempotent THEN cache \cup {key} ELSE cache
        /\ actions' = Recorded(j, "success")
        /\ UNCHANGED faults
     \/ /\ Fault
        /\ actions' = Recorded(j, "failed")
        /\ UNCHANGED <<audited, cache>>
  /\ stage' = [stage EXCEPT ![j] = "acting"]
  /\ NextStep(j)
  /\ UNCHANGED <<attempt, before, done, memVars, diskVars, saves, crashes>>

(* _compose_prompt reads the memories and every skill file; a file that is  *)
(* half written does not parse, and the run ends.                           *)
Compose(j) ==
  /\ stage[j] = "acting" /\ todo[j] = <<>>
  /\ before' = [before EXCEPT ![j] = {}]
  /\ stage'  = [stage EXCEPT ![j] = IF torn THEN "raised" ELSE "composed"]
  /\ UNCHANGED <<attempt, todo, actions, hubVars, memVars, diskVars, envVars>>

(* The deque of a session keeps its last MaxTurns turns. *)
PushedOldest(turns, turn) ==                   \* mutant: the window keeps the oldest turns
  LET all == Append(turns, turn) IN IF Len(all) > MaxTurns THEN turns ELSE all
Pushed(turns, turn) ==
  LET all == Append(turns, turn) IN IF Len(all) > MaxTurns THEN Tail(all) ELSE all

(* The model call, which falls back to the prompt itself when every         *)
(* provider raises, and the review touch nothing that executions share and  *)
(* never raise: the answer becomes a turn of the session.                   *)
Answer(j) ==
  /\ stage[j] = "composed"
  /\ short' = [short EXCEPT ![Session(j)] = Pushed(@, Trace(j))]
  /\ log'   = [log EXCEPT ![Session(j)] = Append(@, Trace(j))]
  /\ stage' = [stage EXCEPT ![j] = "remembered"]
  /\ UNCHANGED <<attempt, todo, actions, before, hubVars, diskVars, envVars>>

(* The audit record of the run reads the skill files once more; that read   *)
(* and the write of the record are outside any try.                         *)
Conclude(j) ==
  /\ stage[j] = "remembered"
  /\ \/ /\ ~torn
        /\ stage' = [stage EXCEPT ![j] = "answered"]
        /\ UNCHANGED faults
     \/ /\ stage' = [stage EXCEPT ![j] = "raised"]
        /\ Fault \/ (torn /\ UNCHANGED faults)
  /\ UNCHANGED <<attempt, todo, actions, before, hubVars, memVars, diskVars, saves, crashes>>

------------------------------------------------------------------------------
(* SkillCenter.save_skill truncates the file, then writes it. *)
SaveSkill ==
  /\ ~writing /\ Calm
  /\ torn' = TRUE /\ writing' = TRUE
  /\ saves' = saves + 1
  /\ UNCHANGED <<jobVars, hubVars, memVars, faults, crashes>>

SkillSaved ==
  /\ writing
  /\ torn' = FALSE /\ writing' = FALSE
  /\ UNCHANGED <<jobVars, hubVars, memVars, envVars>>

(* The process dies: executions, cache and memories go; the effects, the    *)
(* audit log and the skill files stay as they are.                          *)
Crash ==
  /\ Calm
  /\ crashes' = crashes + 1
  /\ stage'   = [j \in Jobs |-> IF stage[j] = "new" THEN "new" ELSE "gone"]
  /\ todo'    = [j \in Jobs |-> <<>>]
  /\ actions' = [j \in Jobs |-> <<>>]
  /\ before' = [j \in Jobs |-> {}]
  /\ cache'  = {}
  /\ short'  = [s \in DOMAIN short |-> <<>>]
  /\ log'    = [s \in DOMAIN log |-> <<>>]
  /\ writing' = FALSE
  /\ UNCHANGED <<attempt, done, audited, torn, faults, saves>>

JobStep(j) ==
  Begin(j) \/ Invoke(j) \/ AuditTool(j) \/ Compose(j) \/ Answer(j) \/ Conclude(j)

Next == (\E j \in Jobs : JobStep(j)) \/ SaveSkill \/ SkillSaved \/ Crash

Spec == Init /\ [][Next]_vars
------------------------------------------------------------------------------
Outcomes == [tool : Tools \cup {"policy_gate"}, status : {"success", "failed", "skipped"}]
Traces   == Jobs \X (1..MaxRuns)

(* Types, and the executor's place in the plan: what is recorded and what   *)
(* is still to do make up the plan of the request, in its order, whatever   *)
(* was refused, raised or served from the cache in between.                 *)
ToolsOf(outcomes) == [i \in DOMAIN outcomes |-> outcomes[i].tool]

TypeOK ==
  /\ stage \in [Jobs -> Idle \cup Active]
  /\ attempt \in [Jobs -> 0..MaxRuns]
  /\ todo \in [Jobs -> Seq(Tools)] /\ actions \in [Jobs -> Seq(Outcomes)]
  /\ before \in [Jobs -> SUBSET Traces]
  /\ cache \subseteq Keys /\ audited \subseteq Keys /\ done \in [Keys -> Nat]
  /\ short \in [{Session(j) : j \in Jobs} -> Seq(Traces)] /\ log \in [DOMAIN short -> Seq(Traces)]
  /\ torn \in BOOLEAN /\ writing \in BOOLEAN /\ {faults, saves, crashes} \subseteq Nat
  /\ \A j \in Jobs : stage[j] \notin {"new", "gone"} /\ Request[j].auto =>
       ToolsOf(actions[j]) \o todo[j] = Plan(Request[j])

(* One execution has the side effect of a tool at most once: a failing      *)
(* tool, a failing audit file or a failing model call never makes the       *)
(* executor invoke it again.                                                *)
OncePerRun == \A k \in Keys : done[k] <= 1

(* The actions a client is answered with are the truth about this           *)
(* execution: a tool reported as a success has had its effect and is in the *)
(* audit log, and an effect of it that was not audited was reported as      *)
(* failed.                                                                  *)
Statuses(j, tool) == {a.status : a \in {b \in Range(actions[j]) : b.tool = tool}}

ReportedTruly ==
  \A j \in Jobs : stage[j] = "answered" =>
    \A tool \in Tools :
      LET key == Key(j, tool) IN
      /\ "success" \in Statuses(j, tool) => done[key] > 0 /\ key \in audited
      /\ done[key] > 0 /\ key \notin audited => "failed" \in Statuses(j, tool)

Position(s, turn) == CHOOSE i \in DOMAIN log[s] : log[s][i] = turn

(* The prompt of a run has the turn of every run of the session that was    *)
(* answered before it began, unless short_memory_turns later ones displaced *)
(* it: memory is written after the answer and read in the middle of other   *)
(* runs.                                                                    *)
SeesEarlierAnswers ==
  [][\A j \in Jobs : stage[j] = "acting" /\ stage'[j] = "composed" =>
       LET window == short[Session(j)] IN
       \A turn \in before[j] :
         \/ turn \in Range(window)
         \/ /\ Len(window) = MaxTurns
            /\ \A later \in Range(window) :
                 Position(Session(j), later) > Position(Session(j), turn)]_vars

(* The side effect of an idempotent tool takes place once for a job, also   *)
(* when the job is executed again (hub.py:58).                              *)
NeverRepeated ==
  \A j \in Jobs, tool \in Idempotent :
    \A n, m \in 1..attempt[j] :
      done[<<j, n, tool>>] > 0 /\ done[<<j, m, tool>>] > 0 => n = m
==============================================================================
