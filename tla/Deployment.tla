----------------------------- MODULE Deployment -----------------------------
(***************************************************************************)
(* How a process of the service comes up: the service container            *)
(* (app/core/dependencies.py) probes MySQL, then the Redis port, then      *)
(* builds the Redis client, and falls back to memory or refuses to start.  *)
(* All processes have the same settings; MySQL and Redis come and go.      *)
(* TaskManager, Accounts, Knowledge and Feedback say what a process does   *)
(* with the rows and the queue it ended up with.                           *)
(***************************************************************************)
EXTENDS Naturals

CONSTANT Servers                 \* processes that start

VARIABLES
  production,   \* Settings.env is prod or production
  queueSetting, \* Settings.task_queue_backend
  up,           \* the services that can be reached
  boot,         \* boot[p]: what the container of p builds next, or how that ended
  rows,         \* rows[p]: where every repository of p keeps its rows
  queue         \* queue[p]: the queue of p

deploymentVars == <<production, queueSetting, up, boot, rows, queue>>

(* Where rows and ids are kept.  The memory of a process is its own. *)
NotBuilt  == <<"not built">>
MySQL     == <<"mysql">>
Redis     == <<"redis">>
Memory(p) == <<"memory", p>>

DeploymentInit ==
  /\ production \in BOOLEAN /\ queueSetting \in {"redis", "memory", "other"}
  /\ up \in SUBSET {"mysql", "redis"}
  /\ boot = [p \in Servers |-> "rows"]
  /\ rows = [p \in Servers |-> NotBuilt] /\ queue = [p \in Servers |-> NotBuilt]

(* _build_mysql_engine, and the repositories that all get its sessions. *)
BuildRows(p) ==
  /\ boot[p] = "rows"
  /\ \/ /\ "mysql" \in up
        /\ rows' = [rows EXCEPT ![p] = MySQL] /\ boot' = [boot EXCEPT ![p] = "queue"]
     \/ /\ "mysql" \notin up /\ ~production
        /\ rows' = [rows EXCEPT ![p] = Memory(p)] /\ boot' = [boot EXCEPT ![p] = "queue"]
     \/ /\ "mysql" \notin up /\ production
        /\ boot' = [boot EXCEPT ![p] = "refused"] /\ UNCHANGED rows
  /\ UNCHANGED <<production, queueSetting, up, queue>>

FallsBackAlways(p) ==                          \* mutant: a warning in production too
  boot' = [boot EXCEPT ![p] = "started"] /\ queue' = [queue EXCEPT ![p] = Memory(p)]
FallsBack(p) ==
  IF production
  THEN boot' = [boot EXCEPT ![p] = "refused"] /\ UNCHANGED queue
  ELSE boot' = [boot EXCEPT ![p] = "started"] /\ queue' = [queue EXCEPT ![p] = Memory(p)]

(* _build_queue_backend: any setting but redis means memory; the port of    *)
(* Redis is probed first.                                                   *)
BuildQueue(p) ==
  /\ boot[p] = "queue"
  /\ \/ /\ queueSetting # "redis"
        /\ boot' = [boot EXCEPT ![p] = "started"] /\ queue' = [queue EXCEPT ![p] = Memory(p)]
     \/ /\ queueSetting = "redis" /\ "redis" \in up
        /\ boot' = [boot EXCEPT ![p] = "client"] /\ UNCHANGED queue
     \/ /\ queueSetting = "redis" /\ "redis" \notin up
        /\ FallsBack(p)
  /\ UNCHANGED <<production, queueSetting, up, rows>>

(* The client connects when it is first used; it is not built when the      *)
(* redis package is missing or the address is not understood.               *)
BuildClient(p) ==
  /\ boot[p] = "client"
  /\ \/ boot' = [boot EXCEPT ![p] = "started"] /\ queue' = [queue EXCEPT ![p] = Redis]
     \/ FallsBack(p)
  /\ UNCHANGED <<production, queueSetting, up, rows>>

(* A service becomes reachable, or stops being so. *)
Toggle(service) ==
  /\ up' = IF service \in up THEN up \ {service} ELSE up \cup {service}
  /\ UNCHANGED <<production, queueSetting, boot, rows, queue>>

DeploymentNext ==
  \/ \E p \in Servers : BuildRows(p) \/ BuildQueue(p) \/ BuildClient(p)
  \/ \E service \in {"mysql", "redis"} : Toggle(service)

DeploymentSpec == DeploymentInit /\ [][DeploymentNext]_deploymentVars
------------------------------------------------------------------------------
(* Two processes that were started in production have the rows of one table, *)
(* and with the redis setting one queue, whatever was unreachable between    *)
(* the probes of one and of the other: what falls back is in the memory of   *)
(* one process, and nobody in production falls back                          *)
(* (dependencies.py:180, :194, :203).                                        *)
ProductionIsShared ==
  production =>
    \A p, q \in {r \in Servers : boot[r] = "started"} :
      /\ rows[p] = rows[q]
      /\ queueSetting = "redis" => queue[p] = queue[q]

(* A process of production that has started has its rows in MySQL and its    *)
(* queue in Redis, which README.md:20 says are required.  False: with any    *)
(* other queue setting Redis is not looked for (dependencies.py:189, :208).  *)
ProductionNeedsBoth ==
  production =>
    \A p \in {r \in Servers : boot[r] = "started"} : rows[p] = MySQL /\ queue[p] = Redis
==============================================================================
