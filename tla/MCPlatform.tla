------------------------------ MODULE MCPlatform ------------------------------
(* Everything the requests reach beside the tasks, on small instances: the        *)
(* services, the knowledge base and the executions of requests.  They share no    *)
(* state, so a behaviour moves one of them, the subject, and the others wait.     *)
EXTENDS MCServices, MCOrchestration, Knowledge

CONSTANTS i1, i2, i3, s1, s2, s3, a, b

ThreeIngests == {i1, i2, i3}
ThreeSources == {s1, s2, s3}
MCTenantOf   == [s \in ThreeSources |-> IF s = s3 THEN tb ELSE ta]
TwoTexts     == {<<{a}>>, <<{a, b}, {b}>>}
TwoQueries   == {{}, {a, b}}

(* Calls that differ in their names only begin in one order, the first with the *)
(* first source; the other tenant may have the last text.                       *)
Turns ==
  /\ ingest'[i2] # "new" => ingest'[i1] # "new"
  /\ ingest'[i3] # "new" => ingest'[i2] # "new"
  /\ document'[i1] # NoChunk => document'[i1].source = s1
  /\ document'[i2] # NoChunk => document'[i2].source # s3

PlatformInit ==
  /\ ServicesInit /\ KnowledgeInit /\ Init
  /\ subject # "knowledge" => ~stored

PlatformNext ==
  \/ ServicesNext /\ UNCHANGED <<knowledgeVars, vars>>
  \/ subject = "knowledge" /\ KnowledgeNext /\ Turns /\ UNCHANGED <<servicesVars, vars>>
  \/ subject = "pipeline" /\ Next /\ UNCHANGED <<servicesVars, knowledgeVars>>

PlatformSpec == PlatformInit /\ [][PlatformNext]_<<servicesVars, knowledgeVars, vars>>
===============================================================================
