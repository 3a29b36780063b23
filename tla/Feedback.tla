------------------------------ MODULE Feedback ------------------------------
(***************************************************************************)
(* POST /feedback: the learning pipeline of the process                    *)
(* (app/learning/pipeline.py) records a judgement and reports the counts   *)
(* of the tenant that submitted last (feedback_repo.py).  The route calls  *)
(* it in the thread of each request; the container always gives it a       *)
(* repository.                                                             *)
(***************************************************************************)
EXTENDS Naturals

CONSTANTS Clients,          \* requests
          TenantOfClient,   \* TenantOfClient[c]: the tenant of request c
          Nobody            \* no tenant, no report

VARIABLES lastTenant,       \* EnterpriseLearningPipeline._last_tenant_id
          recorded,         \* the requests whose judgement is stored
          turn,             \* turn[c]: what c does next, or how it ended
          report,           \* report[c]: the tenant and the judgements c was told of
          earlier           \* earlier[c]: the requests answered before c began (history)

feedbackVars == <<lastTenant, recorded, turn, report, earlier>>

FeedbackInit ==
  /\ lastTenant = Nobody /\ recorded = {}
  /\ turn = [c \in Clients |-> "new"] /\ report = [c \in Clients |-> Nobody]
  /\ earlier = [c \in Clients |-> {}]

(* submit_feedback names the tenant ... *)
Submit(c) ==
  /\ turn[c] = "new"
  /\ lastTenant' = TenantOfClient[c]
  /\ earlier' = [earlier EXCEPT ![c] = {d \in Clients : turn[d] \in {"answered", "failed"}}]
  /\ turn' = [turn EXCEPT ![c] = "record"]
  /\ UNCHANGED <<recorded, report>>

(* ... and stores the judgement, or raises; a commit whose answer is lost   *)
(* stores it and raises.                                                    *)
RecordSwallowed(c) ==                          \* mutant: what raises is logged only
  /\ turn[c] = "record"
  /\ recorded' \in {recorded, recorded \cup {c}}
  /\ turn' = [turn EXCEPT ![c] = "report"]
  /\ UNCHANGED <<lastTenant, report, earlier>>
Record(c) ==
  /\ turn[c] = "record"
  /\ \/ recorded' = recorded \cup {c} /\ turn' = [turn EXCEPT ![c] = "report"]
     \/ recorded' \in {recorded, recorded \cup {c}} /\ turn' = [turn EXCEPT ![c] = "failed"]
  /\ UNCHANGED <<lastTenant, report, earlier>>

(* stats: the judgements of a tenant. *)
Counted(tenant) == {d \in recorded : TenantOfClient[d] = tenant}

(* process_batch counts the judgements of the tenant named last, or raises. *)
Report(c) ==
  /\ turn[c] = "report"
  /\ \/ /\ report' = [report EXCEPT ![c] =
             [tenant |-> lastTenant, counted |-> Counted(lastTenant)]]
        /\ turn' = [turn EXCEPT ![c] = "answered"]
     \/ UNCHANGED report /\ turn' = [turn EXCEPT ![c] = "failed"]
  /\ UNCHANGED <<lastTenant, recorded, earlier>>

FeedbackNext == \E c \in Clients : Submit(c) \/ Record(c) \/ Report(c)

FeedbackSpec == FeedbackInit /\ [][FeedbackNext]_feedbackVars
------------------------------------------------------------------------------
(* Whatever submissions overlap and raise, the counts a client is told of a  *)
(* tenant have every judgement of that tenant that was acknowledged before   *)
(* his request came, and his own if it is of that tenant (pipeline.py:29).   *)
ReportIsComplete ==
  \A c \in {d \in Clients : turn[d] = "answered"} :
    \A d \in {c} \cup {e \in earlier[c] : turn[e] = "answered"} :
      TenantOfClient[d] = report[c].tenant => d \in report[c].counted

(* A client is told the counts of his own tenant: the handbook lists among   *)
(* its key assertions that the isolation of tenants is not bypassed by       *)
(* reads across them.  False: the tenant is a field of the pipeline all      *)
(* requests share, written before the judgement is stored and read after     *)
(* (pipeline.py:20, :29).                                                    *)
ReportIsOwn ==
  \A c \in {d \in Clients : turn[d] = "answered"} : report[c].tenant = TenantOfClient[c]
==============================================================================
