# A verification of the orchestration service

`src/` is a FastAPI service that answers enterprise requests with a small
pipeline of agents, either at once (`POST /agent/run`) or as a task that a
background worker executes and whose status clients poll or follow over SSE.
This directory holds TLA+ models of its core, the TLC runs that check them, and
the theorems TLAPS proves about them.

File and line numbers refer to `src/`; `PROJECT.json` maps every definition that
models code to its lines and lists runs, mutants, findings, hazards and theorems.

## 1. Inventory

| component | state | operations | talks to |
|---|---|---|---|
| Task service: `workers/task_worker.py`, `workers/queue_backend.py`, `storage/repositories/task_repo.py`, `api/v1/tasks.py`, lifespan in `main.py` | envelopes `_tasks` and the worker in each process, the queue (per process, or one Redis list), status rows (database, or `_mem`) | start with recovery, submit, worker loop, get_status, stop | orchestrator (synchronous call), queue, database, streams |
| Status streams: `subscribe_status`, `_publish_status`, `stream_task_status` | subscriber queues per task, under a lock | subscribe, publish, deliver, clean up | task service, HTTP clients |
| Orchestrator and agents: `orchestration/`, `agents/` | none of its own; the state of a run | run: plan, retrieve, execute tools, compose, generate, review, remember, audit | tool hub, router, memory, skills, audit, knowledge |
| Tool hub: `tools/hub.py` | registry, idempotency cache | register, invoke | tools, audit, metrics |
| Model router: `models/` | rules, fallback order (read once) | route, generate | providers |
| Memory: `memory/` | deque of turns per session; long-term records with a TTL | add, window, search | orchestrator |
| Prompt and context: `prompts/`, `context/` | none | assemble, estimate, truncate, summarise | orchestrator |
| Accounts: `auth/`, `auth_repo.py`, `api/v1/auth.py`, `users.py` | user rows, refresh tokens | login, refresh, logout, create, update, bootstrap | database |
| Knowledge: `rag/`, `knowledge_repo.py` | chunks | ingest, search | retriever |
| Feedback: `learning/`, `feedback_repo.py` | feedback rows, `_last_tenant_id` | submit, process_batch | feedback route |
| Skills: `skills/` | JSON files, cache | save, load, latest, merge with SKILL.md | orchestrator, skill routes |
| Container: `core/dependencies.py` | which backends were chosen | build, fall back | all |
| Tools: `tools/` | files of the workspace, pages; nothing of their own | read, write, list, fetch, search, query, mail, calendar | hub |
| Observability, ORM, shell | log, counters, schemas | input and output | |

What is hard here:

* **One loop, one blocking worker.** The worker is a coroutine that calls the
  orchestrator and the database synchronously. From the `running` write to the
  last publish of a task it never suspends, and the loop of that process serves
  nobody; only Redis calls really suspend. Other processes, and crashes, come in
  anywhere. Which steps are atomic follows from where the code awaits, not from
  how it looks.
* **Three copies of a task**: its envelope in memory, its row, its id in a queue.
  They are written one after the other, any write may raise, whether the database has
  carried it out or not, a crash keeps some of them and drops the others, and recovery
  rebuilds from the rows alone.
* **A snapshot is taken when it is published and sent later**, by another coroutine.
* **Runs in threads** share the hub's cache, the memories and the skill
  files without locks, and tools act before they are audited.
* **Routes in threads.** FastAPI runs every plain `def` route in a pool. A call of
  the auth service, of the knowledge base or of the learning pipeline is a sequence
  of transactions, each of which opens a session of its own: what one of them has
  read may be out of date in the next, and any of them may raise after the others
  have been committed, or after its own commit when only the answer was lost.
* **Every component has two shapes**, with a database and without, chosen when the
  process starts. Uniqueness is a constraint of a table in one and the key of a
  dictionary in the other.

What makes each part correct: an accepted task is not lost, is held by one owner,
runs boundedly often, ends, and its end is final (task service); clients see tasks
move forward, hear the end, and what they heard is what is stored (streams); a tool
acts once per run and is reported truly, and a prompt sees earlier answers
(orchestrator); acknowledged changes of users stay, a refresh token is exchanged
once, tokens say what was true of a user (accounts); an acknowledged text is found
(knowledge); a report is about the tenant of the client, and complete (feedback); the newest whole
template is used (skills); processes of one deployment share what they are meant to
(container); a read is sound and a fetch bounded (tools); the task survives the
budgets and a fallback is told (prompt and router).

## 2. Modules

| module | what it is |
|---|---|
| `TaskLifecycle` | abstract specification of one task's life: queued, running, completed or failed, with its liveness |
| `TaskManager` | the task service: any number of processes, both queues, both repositories, faults and crashes; its properties |
| `TaskStream` | extends `TaskManager`: every step of the service joined with the publish it ends in, and the streams |
| `Orchestration` | the runs of one process over the hub, the memory, the skill files and the audit log |
| `Accounts` | users and sessions: the transactions of the auth service and the user routes |
| `Knowledge` | ingestion and search of texts, in the table and in the list |
| `Feedback` | the learning pipeline that all requests share |
| `Skills` | skill files, the cache of each process, and the choice of versions |
| `Deployment` | which table and queue the processes of a deployment come up with |
| `FileTool`, `WebTools` | what happens inside a call of these tools, with their policy |
| `Generation` | prompt, context and model of one run |
| `MCTaskManager`, `MCTaskStream`, `MCOrchestration`, `MCAccounts`, `MCServices` | small instances: sets of model values, symmetry; `MCServices` puts `Feedback`, `Skills`, `Deployment`, the tools and `Generation` side by side |
| `MCPlatform` | `MCServices`, `MCOrchestration` and `Knowledge` side by side |
| `TaskManagerProofs` | `TypeInvariant`, `AckedTasksAreDurable`, `RunsAreBounded`, and their lemmas |
| `TaskOwnershipProofs` | `OwnershipInvariant`, `TerminalAnswersAreFinal`, `EndedTasksStayEnded`, `LifecycleRefinement`, `NoTaskIsLost`, `MemoryIsStored`, `CompletionsAreStored` |
| `StreamProofs` | `StreamsKeepService`, `StreamsAreOrderly`, `LiveWorkersAnnounce`, `EndsAreAnnounced`, `StreamsMoveForward`, `AnnouncedEndsStay`, `CompletionsStay` |
| `OrchestrationProofs` | `ExecutionFollowsPlan`, `ToolsActOnce`, `ActionsAreTrue`, `PromptsRemember` |
| `AccountsProofs`, `AccessProofs` | type correctness and soundness of calls; the rows; the tokens |
| `ServiceProofs` | `ProductionShares`, `ReportsAreComplete`, `WebStaysBounded`, `ReadsAreSound` |
| `LibraryProofs` | facts about numbers, orders and recursive functions; skills, knowledge and generation |

How they fit together: `TaskStream` is the only module that extends another one of the
service, since a stream reads what the service writes in the same step. The rest meet
in calls that share no variable. A task's execution in `TaskManager` is one run of
`Orchestration`, which returns or raises; a tool of `Orchestration` is one call of
`FileTool` or `WebTools`, which returns, fails or raises; its `Compose` and `Answer`
are `Generation` and the reads of `Skills` and `Knowledge`; `Deployment` says which
constants of `TaskManager` (`Durable`, the queue) a process gets.

A definition marked `mutant` stands before the one it varies. It is a plausible
slip (a forgotten status filter, a doubled push, a full queue) and is used by no
definition; put in place of the original it breaks the property `PROJECT.json` names.

### TaskManager and the code

* `phase[p]` is the lifespan of process p: `down`, `recovering` (inside `start`),
  `up`, `stopped` (after `TaskManager.stop`). `pc[p]` and `cur[p]` are where
  `_worker_loop` is and what it holds; `dead` is a loop an exception has left.
* `env[p][t]` is `_tasks`, `rows[t]` the status table, `queue[q]` the waiting ids.
  An answer is a status and whether a result and an error are set; their text is
  left out. A lost update is visible in these three fields.
* `submit` is `SubmitPersist` (envelope and row), `SubmitEnqueue` (the await of
  the queue) and `SubmitReturn` (publish and answer). With the memory queue the
  three are one step as far as this process' loop is concerned: `LoopFree` holds
  everyone else back, since `put` on an unbounded queue does not suspend.
* `_worker_loop` is `Dequeue`, `Drop` (no envelope: discarded, line 178),
  `Begin` (the running write, outside the try), `Execute`, `RecordCompleted`
  (its write may raise, which the except branch turns into a failed task) and
  `RecordFailed`. A write that raises (`DbFault`) may have been carried out, when only
  its acknowledgement was lost: `Attempted` has both outcomes, and so have a raising
  RPUSH and BLPOP (`QueueFault`). So a completed row may be there when the
  except branch writes the task as failed, a refused submit may leave a row, and an id
  that BLPOP has popped may be lost while the worker, which catches the exception, lives on.
  BLPOP also removes the id from the list before the coroutine resumes; a stop or crash then
  loses it.
* `Start`, `RecoverNext` and `FinishStart` are `start` with
  `_recover_pending_tasks`: the list is read once and worked off. A row whose
  request does not validate (`Unreadable`) is logged and passed over (lines 215 to 217):
  it keeps its status, and nobody runs it.
* `Stop` cancels the worker where it can be cancelled (at an await), `Exit` ends
  the process after it, `Crash` ends it anywhere. `SameProcessRestart` lets
  `start` follow `stop` on the same object, as tests do.
* Environment, bounded by constants: `MaxRestarts`, `MaxDbFaults`,
  `MaxQueueFaults`.

The in-memory repository is the branch `Durable = FALSE`. No run uses it: rows do
not survive the process, and what would be checked is the memory queue over a
table nobody recovers. The code keeps a result or error a row already has
there and overwrites them in the database; `Written` has both.

### TaskStream and the code

`sub[s]` is a request for `/tasks/{id}/events`, `inbox[s]` its subscriber queue,
`seen[s]` what was sent. `Subscribe` registers and takes the first snapshot in one
step (both are under the lock and nothing suspends), `Deliver` needs a free loop,
and a terminal answer is the last one. `Disconnect` and `Cleanup` are the client
going away and the `finally`. A stop first drains the open streams, as the HTTP
server does before the lifespan ends; a crash cuts them.

### Orchestration and the code

A run goes through `Begin` (trace id, plan, retrieval), per tool `Invoke` (role,
cache, the tool itself) and `AuditTool` (audit record, cache), then `Compose`
(memory and skill files), `Answer` (model, review, memory) and `Conclude` (the audit
record, which reads the skill files again). The LangGraph path and the serial one
call the same agents in the same order and are one model. `SaveSkill` and
`SkillSaved` are the truncation and the write of `Path.write_text`; `Crash` between
them leaves a torn file. Plans come from the payload or from the words of the input,
and distinct tools stand for distinct parameters, since a plan names a tool once.
`done[k]` counts effects under an idempotency key and is history, as are `before`
and `log`. Long-term memory, citations and confidence decide no later step
and are left out; a model call never raises (`models/router.py:94`).

### Accounts and the code

`users[n]` is the row of a (tenant, name) and `tokens[i]` the row of a refresh token;
`access[i]` is the role in the access token issued with it. `pc[c]` is the transaction
that call c makes next, so that one action is one session of `auth_repo.py`:

| call | transactions |
|---|---|
| login | `Login` (read and check), `IssueTokens` |
| refresh | `RefreshToken`, `RefreshUser`, `RefreshRevoke`, `IssueTokens` |
| logout | `Logout` |
| update_user | `UpdateRead`; `UpdateSelect` and `UpdateWrite`, the two halves of one session |
| create_user | `CreateUser` |
| bootstrap-admin | `BootstrapLook`, `BootstrapCount`, `BootstrapInsert` |

`NotAdmin` is a user route that is refused: its dependency looks at the role in the access token and not at
the row. `UpdateWrite` writes the fields whose new value is not the one just selected, as
SQLAlchemy does, which is why two updates mix. `Commits` is a write that is committed and may still raise, `Raise`
a transaction that is rolled back, both counted by `MaxFaults`; `Expire` is the passing of
time. Ids are fresh uuids, and are the call that draws them. Without a database the
dictionaries replace entries where the table refuses (`Inserts`). `after` and `held`
are history.

### The other services and the code

* `Knowledge`: `Ingest` splits a text and selects the rows of its chunks, `Commit` is the
  transaction that upserts them, refused as a whole when a chunk was inserted in the
  meantime, and raising or not once it is committed; `Abort` is a connection lost before the commit.
  In memory chunks are appended. `Search` ranks
  what `search` selects: the newest `Window` rows of the tenant, or the whole list.
* `Feedback`: `Submit` sets the shared tenant field, `Record` stores the judgement (and may raise
  all the same), `Report` counts those of the tenant the field has by then.
* `Skills`: `Truncate`, `WriteFile`, `Remember` are `save_skill`; `Load` and `Keep` are
  `load_skill` around its read of the file. `LatestVersion` and `Merged` are
  `list_latest_skills` and the merge with SKILL.md, written over `VersionGt`. The name of a skill
  is a field of every version that is saved; the name of the latest one counts (`IsNamed`). Ids and
  versions are taken to tell the files `<id>_<version>.json` apart.
* `Deployment`: `BuildRows`, `BuildQueue`, `BuildClient` are the probes of
  `core/dependencies.py` in their order, with `Toggle` between any two of them. What falls back is in the memory of
  one process (`Memory(p)`) and shared with nobody.
* `FileTool`: a write opens the file (`OpenForWrite`) and fills it (`FinishWrite`), a read looks
  at the size (`GuardSize`) and then reads (`ReadDocument`). Files may be there before any call
  (`Found`), which is how a pdf or doc, never written, comes to be read. Of a second document written into the
  same open file the longer one may stick out: that is `Broken`.
* `WebTools`: `Get` is a round of `_safe_get`, `TakeHit` a result of `web_search_tool`
  that is fetched or taken as it is.
* `Generation`: a text is a sequence of named parts with numbers of words. `Cut`,
  `Truncated`, `Summarized` are the budget, `Assemble` and `Build` the prompt and the
  context, `Primary` and `Fallback` the router's `generate`.

## 3. Passing runs

| run | instance | distinct states | question |
|---|---|---|---|
| `memory_stream` | 2 tasks, 1 process, memory queue, 2 streams with 1 restart or 1 stream with 2, fair | 227 019 | with its own queue: `Ownership`, `MemoryMatchesStore`, `NoTaskLost`, `RunsBounded`, `TerminalIsFinal`, `EventuallySettled`, `ImplementsLifecycle`; of the streams: `StreamTypeOK`, `NoMissedTerminal`, `ForwardOnly`, `ToldIsStored`, `StreamsEnd` |
| `redis_single` | 2 tasks (one unreadable), 1 process, shared list, 2 restarts, in place too, 2 database faults, fair | 36 451 | an id may be swallowed or repeated, a write may raise, carried out or not: `NoTaskLost`, `EventuallyAnswered` |
| `redis_pair` | 1 task, 2 processes, 2 restarts, 2 database faults, 1 queue fault | 145 260 | several processes and faults: `TypeOK`, `RunsBounded`, `AckedIsDurable` |
| `accounts` | 3 calls, 2 names, 2 passwords, 1 fault, with and without a database, empty or with a logged-in administrator | 817 041 | `AccountsTypeOK`, `AckedChangeStays`, `SpentOnce`, `GrantedAsHeld`, `RevokedForACause`, `BootstrapIsFirst`, `AckedUserIsKept` |
| `platform` | one part at a time, the sum of: | 684 625 | |
| ... runs | 3 requests, 3 runs, 1 mishap, window of 1 turn | 363 215 | `TypeOK`, `OncePerRun`, `ReportedTruly`, `SeesEarlierAnswers` |
| ... knowledge | 3 ingestions, 2 sources of one tenant and 1 of another, table and list | 83 837 | `AckedTextStays`, `StoredInOnePiece`, `FoundUnlessCrowded` |
| ... skills | 3 calls in 2 processes, 2 skills, 2 versions, 2 names | 154 339 | `LoadIsLatest`, `TornForACause`, `NewestIsUsed` |
| ... files | 3 calls on 4 paths, empty or with files | 74 013 | `ReadIsSound` |
| ... the rest | prompts and routes; 3 requests of 2 tenants; 2 processes that start; 4 addresses | 9 221 | `TaskIsKept`, `FallbackIsTold`, `ReportIsComplete`, `ProductionIsShared`, `WebIsBounded` |

The properties, in words:

* `Ownership`: a task is in one place (queue, worker, a submit about to enqueue it,
  or recovery) and what is held is unfinished in the database.
* `MemoryMatchesStore`: when the loop is free, a terminal envelope equals its row.
* `NoTaskLost`: while all processes serve with a live worker, somebody holds every
  unfinished readable row together with an envelope, but for the row a refused submit may have
  left (`MayBeStray`).
* `RunsBounded`: one execution for the submit plus one for every start.
* `TerminalIsFinal`: a stored end never changes. `AckedIsDurable`: an acknowledged
  task has a row. `EventuallySettled`: it ends for good. `EventuallyAnswered`: it ends, unless
  a raising write has taken the worker and nothing restarts the process.
* `ImplementsLifecycle`: the rows implement `TaskLifecycle` with its liveness.
* `NoMissedTerminal`: an open stream of a task that ended has the end in its inbox.
  `ForwardOnly`: sent and waiting snapshots are in order. `ToldIsStored`: an end a
  client was told is the end in the database, after restarts too. `StreamsEnd`:
  every stream closes.
* `OncePerRun`: a run has an effect once at most. `ReportedTruly`: successes in the
  answer took place and are audited, an effect without audit is reported failed.
  `SeesEarlierAnswers`: the prompt has the turn of each run of the session that was
  answered before this run began, unless later turns displaced it.
* `AckedChangeStays`: an acknowledged change of a field of a user is undone only by an
  update that overlapped it, or that changes the same field and did not end before it.
  `AckedUserIsKept`: with a database an acknowledged user keeps his name and id.
  `BootstrapIsFirst`: the bootstrap creates nobody beside a user it could have counted.
* `SpentOnce`: a refresh token is refused after the answer to its refresh or logout.
  `RevokedForACause`: nobody's session ends through a call that was refused.
  `GrantedAsHeld`: issued tokens are true of a user at a moment of the call.
* `AckedTextStays`: the chunks of an acknowledged text are stored or were replaced by a
  text not finished before it. `StoredInOnePiece`: every chunk is one of a text all of whose chunks
  are stored, acknowledged or committed without an answer; nothing remains of a transaction that
  was refused.
  `FoundUnlessCrowded`: a search finds a matching chunk unless better or newer ones take its place.
* `ReportIsComplete`: the counts a client is told of a tenant lack no judgement of that tenant
  acknowledged before.
* `LoadIsLatest`: a loaded template is not older than an acknowledged one of the same
  process. `TornForACause`: a file that does not parse has an overlapping, failed or
  unfinished save. `NewestIsUsed`: under a name, the highest of the numeric versions that are the
  newest of their skills and bear that name, stated without the order of files in which the code
  goes through them.
* `ProductionIsShared`: processes started in production have the rows of one table and, with the
  redis setting, one queue.
* `ReadIsSound`: a read returns no replaced document, and one that is too large or
  incomplete only because of a write that can be blamed. `WebIsBounded`: the number of requests, their
  policy and the number of results.
* `TaskIsKept`: the context exceeds its budget by one word at most, and the task is in it whole
  unless skills and tools alone have used the budget up. `FallbackIsTold`: an unmarked answer is
  of the provider the first matching rule names.
* The type invariants also say how control states fit together: worker with lifespan,
  stream with task, recorded actions with the plan.

**Why the bounds are enough.** Two restarts are what it takes to interrupt a
recovery and recover again; the second task waits, or is being
submitted, while the worker has the first. Properties of the shared list are about
one id meeting two processes, so `redis_pair` has one task and two of everything
else. Two streams on two tasks allow both the same topic and different ones; `memory_stream` has either a second client or a second restart
(`Together`, which holds back nothing that has to happen). In
`platform` three runs are needed for a turn to be displaced by another while a third
is under way; the window of one turn makes it happen at once. `MaxMishaps = 1` places
one raising write, one skill save or one crash at every point.

In `accounts` every property relates two calls, and the third is the one that disturbs
them; the requests are one change of each field, both names and every token a client may
hold. A second fault would only make a second call end like the first. In the knowledge base
a text has one or two chunks, and the list of a tenant exceeds `Limit = 1` and `Window = 2` (5 and 300
in the code), so that crowding out happens; two sources belong to one tenant and one to another.
The versions 1.10.0 and 1.9 are in the wrong order as file names,
two skills may share a name, and one call saves under another name, so that a skill is renamed by a
version. `MaxRedirects = 1` has a fetch that is redirected once and one that is refused a second
time; the files are missing at first, or there with small documents and a large one; `MaxTokens = 60` lies between the lengths of the prompts, so that they are cut in
skills, tools, task, evidence and memory. The components of `MCPlatform` share no variable, so interleaving
them adds nothing to the states of each: the variable `subject` chooses the one that
moves, the others stay in one initial state. Calls, sources and hosts that differ in their names only come in
one order there, as stated in the modules. Symmetry, in `accounts` and `redis_pair`, permutes calls, tasks and processes no
definition distinguishes.

**Deadlock.** All runs set `CHECK_DEADLOCK FALSE`: once the bounded environment is
used up and all work is done, the system rests, and that is no error. That it does
not rest too early is what the liveness properties say.

**Fairness.** `FairSpec` has weak fairness of each worker (asyncio runs what is
ready and the orchestrator returns), of the steps of a start once begun and of starting a
process that is down (it is supervised), of the last step of an exit, and of the rest of
a submit. Submitting, stopping, crashing and every fault are free to occur or not.
`StreamFairSpec` adds delivery and cleanup of a stream, which the loop runs when they
are ready. The other modules state no liveness and no fairness: their calls are plain
functions that return or raise, and nothing in them waits.

## 4. Runs that show a disagreement

| run | property | what happens |
|---|---|---|
| `redis_restart` | `TerminalIsFinal` | the list survives a crash, recovery enqueues the row again, and the second copy takes a completed task back to running (`task_worker.py:224`) |
| `redis_scaled` | `NoTaskLost` | a process pops an id submitted through another one, finds no envelope and discards it (`task_worker.py:179`) |
| `worker_dies` | `EventuallySettled` | one raising status write leaves `_worker_loop` and nobody restarts it (`task_worker.py:183`) |
| `stream_realtime` | `RunningIsLive` | the loop is blocked while the task runs, so `running` is sent when it is over (`task_worker.py:186`) |
| `feedback_tenants` | `ReportIsOwn` | two tenants submit at the same time, and one is told the counts of the other: the tenant is a field of the shared pipeline (`pipeline.py:29`) |
| `prod_memory` | `ProductionNeedsBoth` | with any queue setting but `redis` a process of production starts without Redis, on a queue of its own (`dependencies.py:208`) |
| `tool_rerun` | `NeverRepeated` | the idempotency key has the fresh trace id in it; executed again, a task repeats its effects (`executor.py:52`) |

Each contradicts a sentence of the repository, quoted in `PROJECT.json`.
They delimit the passing runs: `TerminalIsFinal` and `Ownership` are claimed
for a queue of its own, `NoTaskLost` for one process, liveness without raising writes or while the worker lives,
`ReportIsComplete` for whatever tenant a report is about, `ProductionIsShared` for the queue only
with the `redis` setting.

Three more behaviours are in the model and outside the passing properties. When the
`completed` write raises after the envelope was marked, the except branch
makes a failed task that still has a result in memory, over a completed row if the write was
carried out; so `MemoryMatchesStore`, `TerminalIsFinal`, `Ownership` and `ImplementsLifecycle` are
checked without database faults. What is left of them is proved (`EndedTasksStayEnded`, `CompletionsAreStored`), and
`redis_single` checks that such a task is not lost. When the `create` of a
submit raises although the row was committed, the client has an error and the row stays queued until
the next start. When the `failed` write raises too, no publish
follows (`task_worker.py:196`) and a stream waits until it is cut.

## 5. What is proved

`TaskManagerProofs`, for all values of the constants (any number of tasks and
processes, both backends, any budget of faults):

* `TypeInvariant`: `Spec => []TypeOK`. `TypeOK` is inductive as it stands because it
  ties `cur`, `phase`, `recover` and the submits in flight to the worker's program
  counter (`InStep`). One step of the proof per action; lemmas for the queues
  (`EnqueuedType`, `DequeuedType`), the rows (`WrittenType`) and the counters.
* `AckedTasksAreDurable`: `Spec => []AckedIsDurable`. Over the database no action takes
  a row back to `none` (`RowStep`, `OneRowStep`, `RowsStay`), and a submit becomes
  `created` in the step that writes its row.
* `RunsAreBounded`: `IsFiniteSet(Procs) => (Spec => []RunsBounded)`. The bound alone is not
  inductive: a task may be on its way to a worker several times over. `Accounted` adds to the
  executions that were the ones that may still come (`Debt`: copies in the queues,
  processes executing it, processes whose recovery will enqueue it, the submit that has yet to).
  A push, a pop and an execution move a unit within the sum
  (`PushCopies`, `PopCopies`, `SubmitAccounted`); only a restart may add one.

`TaskOwnershipProofs`, all but `NoTaskIsLost` under `OneOwner` (memory queue, database,
one process that is not restarted in place):

* The invariant is `Owned`: a task is held once, and what is held is unfinished, except that a worker
  whose `completed` write raised after the database had carried it out is about to write the task as failed
  (`Settling`). That the queue has no task twice is not inductive without knowing that a submit
  and recovery hold nothing that waits already, nor is that what waits is unfinished
  without knowing the same of the worker, the submits and recovery. It rests on `TypeOK` and on lemmas
  about sequences (`AppendOnce`, `TailOnce`, `PushOnce`), with one step per action, for any number of raising writes.
* `OwnershipInvariant`: `OneOwner /\ MaxDbFaults = 0 => (Spec => []Ownership)`. Without raising writes nobody settles.
* `TerminalAnswersAreFinal`, also where no write raises: a row is only written for a task that is held, and
  held tasks are unfinished. `EndedTasksStayEnded`, for any number of raising writes (`EndedStaysEnded`: an
  ended task stays ended, and a failed row never changes): a worker writes over a finished row only to settle a completed one as failed.
* `LifecycleRefinement`, where no write raises: every step maps to `Accept`, `Begin`, `Finish` or a stutter of
  `TaskLifecycle`; `Begin` needs that a held task is queued, or running already
  when it is run again, and `Finish` that the worker's row is `running`.
* `NoTaskIsLost`: `OneProcess => (Spec => []NoTaskLost)`, for either queue, either table and
  any faults of the database. The invariant, `AllAttended`, also speaks of a process that starts: an
  unfinished row is in its list of what to recover, or enqueued already, or is one a refused submit may have left.
* `CompletionsAreStored`: `OneOwner => (Spec => []CompletedMatchesStore)`, where writes of rows may raise at any
  point, carried out or not: a completed envelope is what the row says, and a failed one has the status of the row
  unless the worker has died. `InMemory` says what an envelope is at each point of the worker, and that a finished
  one differs from its row only between `Execute` and the write, or, having failed, in the result that
  `RecordCompleted` leaves behind (line 188), or after both writes raised. It needs `Owned`
  (a worker that was handed a finished task would mark it as running with its old result) and `Restored`
  (`start()` does not bring a dead worker back).
* `MemoryIsStored`: `OneOwner /\ MaxDbFaults = 0 => (Spec => []MemoryMatchesStore)`, from the same `InMemory`:
  without raising writes the exceptions do not arise.

`StreamProofs`. Every step of `StreamSpec` is one of `Spec` (`StreamsKeepService`), so the invariants
above hold of the service with its streams, and does one of five things to a stream
(`StreamStep`): nothing, publish to it, register it, send, close.

* `StreamsAreOrderly`: `StreamSpec => []StreamTypeOK`, for all values of the constants; inductive
  together with `Unsent` (a stream that is not registered has sent nothing).
* `LiveWorkersAnnounce`: `StreamSpec => []NoneMissedAlive`, for all values of the constants. `NoneMissedAlive` is
  `NoMissedTerminal` of the processes whose worker has not died, and looks only at moments at which the
  loop is free; the invariant, `Waits`, holds as soon as the worker has let go of the task
  (`Ended`), which is the step that publishes (`EndedStep`, `ReportIsPublished`). A worker that a raising write
  ends leaves without publishing, and `Restored` keeps it from coming back with its envelopes.
* `EndsAreAnnounced`: `MaxDbFaults = 0 => (StreamSpec => []NoMissedTerminal)`, since then no worker dies (`NobodyDies`).
* `StreamsMoveForward`: `OneOwner => (StreamSpec => []ForwardOnly)`, with any number of raising writes. The
  invariant, `Truthful`, speaks of all that a stream was told (`History`: sent, then queued; sending does not
  change it): it is in order, not ahead of what the process answers now, and its firm ends are stored: those
  that completed and, where no write raises, all (`Firm`). What the
  process answers moves forward while it serves (`AnswerStep`, from `Owned` and `InMemory`),
  no stream survives the process that serves it (`ServesStep`), and a stored end stays (`TerminalStep`).
* `AnnouncedEndsStay` and `CompletionsStay`, from the same invariant: under `OneOwner`, every end a client was told
  is stored where no write raises, and a completed one is stored in any case.

`OrchestrationProofs`, for any requests, any numbers of executions and mishaps:

* `ExecutionFollowsPlan` (`TypeOK`), `ToolsActOnce` (`OncePerRun`) and `ActionsAreTrue`
  (`ReportedTruly`) follow from one invariant, `RunInv`. For each job it says where the
  execution is in its plan (`Follows`: what is left names no tool twice), what the hub
  knows of its trace ids (`Acted`: none has acted for an id to come, nor for a
  tool that is still left, unless it has just run) and what is recorded (`Truth`). `OncePerRun` alone is
  not inductive: that the next tool has not acted needs the plan without repetitions
  (`PlanFits`) and the fresh trace id (`BeginKeeps`); and a tool that has run and is not audited is the one
  exception of `Truth`. `RecordsKeeps` treats the ways an outcome is recorded at once (the cache never answers, `NextIsNew`),
  `OthersKept` the other jobs. The guard of `Begin` carries `attempt[j] < MaxRuns` beside the
  sum of all attempts, which implies it, since the prover knows nothing of the library's folds.
* `PromptsRemember` (`SeesEarlierAnswers`), for any size of the window, has an invariant of its own,
  `MemInv`: the window is the end of the session's log, and the log has no turn twice and
  none of an execution that has not answered (`Remembers`); the turns a run may count
  on are in the log (`Reads`). A turn has then one place in the log (`OnePlace`), inside the
  window or before `MaxTurns` later ones.

`AccountsProofs`, `AccessProofs`, for any calls, names, passwords and faults:

* `AccountsTypeCorrect`, `AccountsSound`: `AccountsTypeOK` is not inductive, because a transaction reads a
  row another one found. `Stages` says what request and what memory each stage has,
  `Backed` that a client's token has a row, `PastIsOver` that a call recorded as earlier has ended.
* `RowsAreNamed`: a row has the name it is stored under and no two have one id (`Rows`), so that
  `NameOf` is at most one row; every other theorem about users cites it.
* `BootstrapComesFirst` needs `Counted` (what a bootstrap past the count knows of the rows);
  `CreatedUserIsKept` follows from `Rows` and the step that answers.
* `UpdatesAreKept` needs what the two reads of an update in flight can differ in from an
  acknowledged change: `Targets` (the row exists), `ReadStays` and `SeenStays` (the row, and the
  user, as read, have the change unless the two overlap), then `ChangeStays`.
* `RevocationHasACause` from `TokensStep`; `TokensAreSpentOnce` with `Exchange` (a refresh past its third transaction has
  revoked its token); `AnswersAreTrue` with `Observed` (`held` has every row while a call runs) and
  `Remembered` (what it read is among them).

`ServiceProofs`, for any values of the constants of its four modules: `ProductionShares`, from what the container of one process has
built (`Built`), for any number of processes; `ReportsAreComplete`, from `Stored` (who reports has
stored, and who was over stays over);
`WebStaysBounded`, from the results a search still owes (`WebInv`);
`ReadsAreSound`, for any number of overlapping calls, from the order in which calls begin (`Begun`),
what can be in a file, found there or written (`OnDisk`), and what a size check has let through (`Guarded`).

`LibraryProofs`, for any values of the constants of `Skills`, `Knowledge` and `Generation`. What
these modules compute over sequences is written so that it can be proved about: a number of
words, a listed version and a merged name are recursive functions on `0..n`, and a sorted list
(`Ordered`) gives each place to the member with as many before it. The library's induction
theorems take an operator; here `Induction` is stated over the set of numbers a claim holds for, from the
least number of a set (`LeastNumber`); `RecursiveFunction` says that a recursive definition has a
solution, so that its equations may be used, and `Ranks` and `RankedSequence` that a sorted
list has every member once and in order.

* `AcknowledgedTextsStay` and `TextsAreStoredInOnePiece`: one invariant, `KnowledgeInv`. That acknowledged chunks
  stay is not inductive, since a transaction that found its words already there writes nothing: `SelectedStays`
  says that the row it selected still has these words or those of a text that was unfinished
  when its request came (`From`), and `StagesFit` that a request in progress is not among those others
  came after. Each step moves the requests (`RequestMoves`) and the rows (`RowMoves`: none goes, and one
  changes only to what the text of the step says); `RowsCommitted` is the upsert.
* `SearchesFind` (`FoundUnlessCrowded`): a candidate with a word of the query is cited or preceded by `Limit`
  that are as good (`RankFinds`); a row that is no candidate has `Window` others, none older, before it
  in whatever order the table gave (`CandidatesMiss`, by the pigeonhole principle).
* `SkillCallsAreSound`, `TornFilesAreBlamed`, `LoadsAreLatest`: `SkillsInv` says of a save that has emptied its file
  what may be in it by now (`Emptied`), of one that is done what its process remembers
  (`Remembered`), and of a load that is reading the file that no save of its template was done
  before it began (`ReadsFirst`).
* `HighestVersionsAreUsed`, for whatever names the versions of a skill have: the order of versions is strict, and a third version comes before
  the later of two or after the earlier (`GreaterOneWay`, `GreaterSplits`);
  then by induction over the files of a skill (`VersionsListed`) and over the skills of a name (`NewestIsMerged`).
* `FallbacksAreTold`: the first rule that matches is the one the property names (`RouteIsNamed`), and the phase
  of a call says who has been asked. `TasksAreKept`: what stands before the task in the prompt and in the context,
  and what cuts keep (`CutKeeps`), by sums over the parts (`SumsAre`, `SumsGrow`, `SumsAlike`).

The assumptions are those named on the constants: `NoTask` and `NoProc` are no task and
no process, the bounds are natural numbers, unreadable tasks are tasks, and the
in-memory table is not shared by processes; texts, skill ids, versions and rules are sequences, chunks have finitely
many words, and the values that stand for a missing or torn file or for no chunk are no call and no document. A theorem that needs more has it as its
hypothesis: finitely many processes, one process, `OneOwner`, no raising write.
Each hypothesis is needed: `redis_restart` refutes `TerminalIsFinal` without a queue of its own,
`redis_scaled` refutes `NoTaskLost` with two processes, and a raising write breaks
`MemoryMatchesStore`, `NoMissedTerminal` and `ToldIsStored` (a failed task whose row was not written, and a dead
worker that publishes nothing); the theorems beside them say what is left of each.

Model-checked only: `EventuallySettled`, `EventuallyAnswered`, `StreamsEnd` and the liveness half of
`ImplementsLifecycle`, since fairness and ENABLED are beyond the prover. Every other property of the passing
runs is the statement of a theorem.

## 6. What is not modelled

Listed with reasons in `PROJECT.json`. In short: the ORM, migrations and adapters are
declarations (their uniqueness constraints are in the modules of their tables); the FastAPI
shell is wiring; metrics, tracing and logging are output; the provider clients are stand-ins
that return text; long-term memory only grows and expires with the calendar; the database tool
runs one statement in a database of its own and the office tools answer with what they were given, so that for the
pipeline they are calls that return or raise. `list_users` only reads, and
`cleanup_expired_refresh_tokens` and `latest_skill` are called by nothing. Time is left out but for
the end of a refresh token: no timeout in the modelled code changes a state (a BLPOP that times out is
followed by another one). So are the race of two threads that create the same entry of the short-term
memory's `defaultdict`, and ids and versions of skills whose file names coincide. Versions that are not numeric
are in the module and in no run.

## 7. Hazards

`PROJECT.json` lists 40, with the properties aimed at them, and says where a property excuses an
outcome that is what the code does. Four have no property: three are modelled and
have nothing in the repository to contradict (the row of a refused submit; an error for a run that is
remembered; a shorter version of a text that leaves the end of a longer one), and one belongs to a
part that is not modelled (the counters of the metrics registry). The stand-in providers, which cut a
prompt to as many characters as it may have words, are not modelled either.

## 8. Plan

Done: all components with a state of their own are modelled, and the theorems of section 5.
What would add most from here:

1. `Accounts`: an abstract specification of one session as a chain of tokens of which one is
   live, and the refinement; it does not hold of two refreshes of one token that
   overlap, so the specification has to say what overlapping calls may do.
2. The composition of `Deployment` with `TaskManager`: in development two processes may share
   the queue and not the rows, which no run of `TaskManager` has.
