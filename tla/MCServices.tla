------------------------------ MODULE MCServices ------------------------------
(* The components beside the task pipeline, on small instances.  They share no  *)
(* state, so a behaviour moves one of them, the subject, and the others wait    *)
(* in one initial state.  Calls and hosts that differ in their names only come  *)
(* in one order; c3 is a save under another name, r3 a write over the limit.    *)
EXTENDS Feedback, Skills, Deployment, FileTool, WebTools, Generation

CONSTANTS Subjects,
          ta, tb,
          c1, c2, c3, f1, f2, f3, h1, h2, p1, p2,
          r1, r2, r3, small, huge, notes, table, report1, outside,
          local, remote

VARIABLE subject
servicesVars == <<subject, feedbackVars, skillVars, deploymentVars, fileVars,
                  webVars, generationVars>>

ThreeClients     == {f1, f2, f3}
MCTenantOfClient == [c \in ThreeClients |-> IF c = f3 THEN tb ELSE ta]

ThreeCalls    == {c1, c2, c3}
TwoHosts      == {h1, h2}
TwoSkills     == <<"alpha", "beta">>
MCNameOf      == [c \in ThreeCalls |-> IF c = c3 THEN "minutes" ELSE "report"]
\* 1.10.0 and 1.9 in the order of their file names
MCVersions    == <<[numbers |-> <<1, 10, 0>>, text |-> 1], [numbers |-> <<1, 9>>, text |-> 2]>>

TwoServers == {p1, p2}

ThreeFileCalls == {r1, r2, r3}
EmptyDisk      == [f \in Paths |-> Nothing]
UsedDisk       == [EmptyDisk EXCEPT ![notes] = small, ![table] = huge, ![report1] = small]
OldFiles       == {small, huge}
LargeFiles     == {r3, huge}
FourPaths      == {notes, table, report1, outside}
MCFormat       == [f \in FourPaths |-> IF f = notes THEN "text" ELSE IF f = table THEN "json" ELSE "doc"]
MCBelow        == [d \in {"data"} |-> {notes, table, report1}]

Url(domain, private) == [scheme |-> "https", domain |-> domain, private |-> private]
FourUrls == {Url("docs", FALSE), Url("wiki", FALSE), Url("docs", TRUE), Url("other", FALSE)}

MCSkillsets     == {<<>>, <<2>>, <<9, 2, 2>>}
MCLengths       == {0, 5, 30}
MCTypes         == {"generic", "analysis"}
MCSensitivities == {"low", "high"}
MCRules == <<[type |-> "analysis", sensitivity |-> "high", provider |-> local],
             [type |-> "analysis", sensitivity |-> "high", provider |-> remote],
             [type |-> "generic",  sensitivity |-> "high", provider |-> "absent"]>>
MCFallbacks == <<local, "absent", remote>>
MCProviders == {local, remote}

ServicesInit ==
  /\ subject \in Subjects
  /\ disk = EmptyDisk \/ (subject = "files" /\ disk = UsedDisk)
  /\ subject = "deployment" \/ (production = TRUE /\ queueSetting = "redis" /\ up = {})
  /\ subject = "web" \/ current = Url("docs", FALSE)
  /\ subject = "generation"
     \/ sections = [skills |-> <<>>, forceAll |-> FALSE, task |-> 0, evidence |-> 0, memory |-> 0,
                    type |-> "generic", sensitivity |-> "low"]
  /\ FeedbackInit /\ SkillsInit /\ DeploymentInit /\ FileInit /\ WebInit /\ GenerationInit

ServicesNext ==
  \/ /\ subject = "feedback" /\ FeedbackNext
     /\ UNCHANGED <<subject, skillVars, deploymentVars, fileVars, webVars, generationVars>>
  \/ /\ subject = "skills" /\ SkillsNext
     /\ step'[c2] # "new" => step'[c1] # "new"
     /\ job'[c1] # Missing => job'[c1].host = h1 /\ job'[c1].key[1] = "alpha"
     /\ job'[c3] # Missing => job'[c3].kind = "save"
     /\ UNCHANGED <<subject, feedbackVars, deploymentVars, fileVars, webVars, generationVars>>
  \/ /\ subject = "deployment" /\ DeploymentNext
     /\ UNCHANGED <<subject, feedbackVars, skillVars, fileVars, webVars, generationVars>>
  \/ /\ subject = "files" /\ FileNext
     /\ at'[r2] # "new" => at'[r1] # "new"
     /\ use'[r3] # Nothing => use'[r3].op = "write"
     /\ UNCHANGED <<subject, feedbackVars, skillVars, deploymentVars, webVars, generationVars>>
  \/ /\ subject = "web" /\ WebNext
     /\ UNCHANGED <<subject, feedbackVars, skillVars, deploymentVars, fileVars, generationVars>>
  \/ /\ subject = "generation" /\ GenerationNext
     /\ UNCHANGED <<subject, feedbackVars, skillVars, deploymentVars, fileVars, webVars>>

ServicesSpec == ServicesInit /\ [][ServicesNext]_servicesVars
==============================================================================
