---------------------------- MODULE ServiceProofs ----------------------------
(***************************************************************************)
(* Theorems about the services around the pipeline: Deployment and         *)
(* Feedback for any number of processes and of requests, WebTools for any  *)
(* addresses, policy and limits, FileTool for any calls, paths and formats.*)
(***************************************************************************)
EXTENDS Deployment, Feedback, WebTools, FileTool, TLAPS

(* What a process has built so far: in production its rows are in MySQL     *)
(* before it looks for its queue, and with the redis setting its queue is   *)
(* in Redis when it has started.                                            *)
Built(p) ==
  /\ boot[p] \in {"queue", "client", "started"} /\ production => rows[p] = MySQL
  /\ boot[p] = "started" /\ production /\ queueSetting = "redis" => queue[p] = Redis

Places == {NotBuilt, MySQL, Redis} \cup {Memory(p) : p \in Servers}

DeploymentInv ==
  /\ boot \in [Servers -> {"rows", "queue", "client", "started", "refused"}]
  /\ rows \in [Servers -> Places] /\ queue \in [Servers -> Places]
  /\ production \in BOOLEAN
  /\ \A p \in Servers : Built(p)

(* A step of the container of p keeps what every container has built. *)
LEMMA BuildKeepsInv ==
  ASSUME DeploymentInv, NEW p \in Servers, BuildRows(p) \/ BuildQueue(p) \/ BuildClient(p)
  PROVE  DeploymentInv'
<1> USE DEF Places
<1>1. CASE BuildRows(p)
  BY <1>1 DEF DeploymentInv, Built, BuildRows
<1>2. CASE BuildQueue(p)
  <2>1. CASE queueSetting # "redis"
    BY <1>2, <2>1 DEF DeploymentInv, Built, BuildQueue
  <2>2. CASE queueSetting = "redis" /\ "redis" \in up
    BY <1>2, <2>2 DEF DeploymentInv, Built, BuildQueue
  <2>3. CASE queueSetting = "redis" /\ "redis" \notin up
    BY <1>2, <2>3 DEF DeploymentInv, Built, BuildQueue, FallsBack
  <2> QED
    BY <2>1, <2>2, <2>3
<1>3. CASE BuildClient(p)
  BY <1>3 DEF DeploymentInv, Built, BuildClient, FallsBack
<1> QED
  BY <1>1, <1>2, <1>3

(* Processes started in production share their rows and, with the redis      *)
(* setting, their queue, in whatever order MySQL and Redis come and go       *)
(* between their probes.                                                     *)
THEOREM ProductionShares == DeploymentSpec => []ProductionIsShared
<1>1. DeploymentInit => DeploymentInv
  BY DEF DeploymentInit, DeploymentInv, Built, Places
<1>2. DeploymentInv /\ [DeploymentNext]_deploymentVars => DeploymentInv'
  <2> SUFFICES ASSUME DeploymentInv, [DeploymentNext]_deploymentVars
               PROVE  DeploymentInv'
    OBVIOUS
  <2>1. CASE \E p \in Servers : BuildRows(p) \/ BuildQueue(p) \/ BuildClient(p)
    BY <2>1, BuildKeepsInv
  <2>2. CASE \E service \in {"mysql", "redis"} : Toggle(service)
    BY <2>2 DEF DeploymentInv, Built, Toggle
  <2>3. CASE UNCHANGED deploymentVars
    BY <2>3 DEF DeploymentInv, Built, deploymentVars
  <2> QED
    BY <2>1, <2>2, <2>3 DEF DeploymentNext
<1>3. DeploymentInv => ProductionIsShared
  BY DEF DeploymentInv, Built, ProductionIsShared
<1> QED
  BY <1>1, <1>2, <1>3, PTL DEF DeploymentSpec
------------------------------------------------------------------------------
Over == {"answered", "failed"}

Tenants == {TenantOfClient[c] : c \in Clients} \cup {Nobody}

FeedbackTypes ==
  /\ turn \in [Clients -> {"new", "record", "report"} \cup Over]
  /\ earlier \in [Clients -> SUBSET Clients] /\ recorded \subseteq Clients
  /\ lastTenant \in Tenants
  /\ report \in [Clients -> {Nobody} \cup [tenant : Tenants, counted : SUBSET Clients]]

(* A judgement is stored before its request reports, and the requests that   *)
(* were over when another one came stay over.                                *)
Stored ==
  \A c \in Clients :
    /\ turn[c] \in {"report", "answered"} => c \in recorded
    /\ \A d \in earlier[c] : turn[d] \in Over

FeedbackInv == FeedbackTypes /\ Stored /\ ReportIsComplete

(* Naming the tenant: those that were answered are not among the new ones.   *)
LEMMA SubmitKeepsInv ==
  ASSUME FeedbackInv, NEW e \in Clients, Submit(e)
  PROVE  FeedbackInv'
<1>1. FeedbackTypes'
  BY DEF FeedbackInv, FeedbackTypes, Over, Submit, Tenants
<1>2. Stored'
  BY DEF FeedbackInv, FeedbackTypes, Stored, Over, Submit
<1>3. ASSUME NEW c \in Clients, turn'[c] = "answered",
             NEW d \in {c} \cup {x \in earlier'[c] : turn'[x] = "answered"},
             TenantOfClient[d] = report'[c].tenant
      PROVE  d \in report'[c].counted
  <2>1. c # e /\ turn[c] = "answered" /\ earlier'[c] = earlier[c] /\ report'[c] = report[c]
    BY <1>3 DEF FeedbackInv, FeedbackTypes, Submit
  <2>2. d \in {c} \cup {x \in earlier[c] : turn[x] = "answered"}
    BY <1>3, <2>1 DEF FeedbackInv, FeedbackTypes, Submit
  <2> QED
    BY <1>3, <2>1, <2>2 DEF FeedbackInv, ReportIsComplete
<1> QED
  BY <1>1, <1>2, <1>3 DEF FeedbackInv, ReportIsComplete

(* Storing the judgement, or raising: nobody's answer changes. *)
LEMMA RecordKeepsInv ==
  ASSUME FeedbackInv, NEW e \in Clients, Record(e)
  PROVE  FeedbackInv'
<1>1. FeedbackTypes'
  BY DEF FeedbackInv, FeedbackTypes, Over, Record
<1>2. Stored'
  BY DEF FeedbackInv, FeedbackTypes, Stored, Over, Record
<1>3. \A c \in Clients : turn'[c] = "answered" <=> turn[c] = "answered"
  BY DEF FeedbackInv, FeedbackTypes, Record
<1>4. earlier' = earlier /\ report' = report
  BY DEF Record
<1>5. ReportIsComplete'
  BY <1>3, <1>4 DEF FeedbackInv, FeedbackTypes, ReportIsComplete
<1> QED
  BY <1>1, <1>2, <1>5 DEF FeedbackInv

(* Reporting what is stored for the tenant named last, or raising. *)
LEMMA ReportKeepsInv ==
  ASSUME FeedbackInv, NEW e \in Clients, Report(e)
  PROVE  FeedbackInv'
<1>1. [tenant |-> lastTenant, counted |-> Counted(lastTenant)] \in
        [tenant : Tenants, counted : SUBSET Clients]
  BY DEF FeedbackInv, FeedbackTypes, Counted
<1>2. FeedbackTypes'
  BY <1>1 DEF FeedbackInv, FeedbackTypes, Over, Report
<1>3. Stored'
  BY DEF FeedbackInv, FeedbackTypes, Stored, Over, Report
<1>4. \A c \in Clients : turn[c] \in Over => turn'[c] = turn[c]
  BY DEF FeedbackInv, FeedbackTypes, Over, Report
<1>5. \A c \in Clients : \A d \in earlier[c] : d \in Clients /\ turn'[d] = turn[d]
  BY <1>4 DEF FeedbackInv, FeedbackTypes, Stored
<1>6. ASSUME NEW c \in Clients, turn'[c] = "answered",
             NEW d \in {c} \cup {x \in earlier'[c] : turn'[x] = "answered"},
             TenantOfClient[d] = report'[c].tenant
      PROVE  d \in report'[c].counted
  <2>1. d = c \/ (d \in earlier[c] /\ turn[d] = "answered")
    BY <1>5, <1>6 DEF Report
  <2>2. CASE c = e
    <3>1. report'[c].tenant = lastTenant /\ report'[c].counted = Counted(lastTenant)
      BY <1>6, <2>2 DEF FeedbackInv, FeedbackTypes, Report
    <3>2. d \in recorded
      BY <1>5, <2>1, <2>2 DEF FeedbackInv, Stored, Report
    <3> QED
      BY <1>6, <3>1, <3>2 DEF Counted
  <2>3. CASE c # e
    <3>1. turn[c] = "answered" /\ report'[c] = report[c]
      BY <1>6, <2>3 DEF FeedbackInv, FeedbackTypes, Report
    <3> QED
      BY <1>6, <2>1, <3>1 DEF FeedbackInv, ReportIsComplete
  <2> QED
    BY <2>2, <2>3
<1> QED
  BY <1>2, <1>3, <1>6 DEF FeedbackInv, ReportIsComplete

(* However submissions interleave and raise, the counts a client is told of  *)
(* a tenant lack no judgement of it that was acknowledged before.            *)
THEOREM ReportsAreComplete == FeedbackSpec => []ReportIsComplete
<1>1. FeedbackInit => FeedbackInv
  BY DEF FeedbackInit, FeedbackInv, FeedbackTypes, Stored, ReportIsComplete, Over, Tenants
<1>2. FeedbackInv /\ [FeedbackNext]_feedbackVars => FeedbackInv'
  <2> SUFFICES ASSUME FeedbackInv, [FeedbackNext]_feedbackVars
               PROVE  FeedbackInv'
    OBVIOUS
  <2>1. CASE FeedbackNext
    BY <2>1, SubmitKeepsInv, RecordKeepsInv, ReportKeepsInv DEF FeedbackNext
  <2>2. CASE UNCHANGED feedbackVars
    BY <2>2 DEF FeedbackInv, FeedbackTypes, Stored, ReportIsComplete, feedbackVars
  <2> QED
    BY <2>1, <2>2
<1>3. FeedbackInv => ReportIsComplete
  BY DEF FeedbackInv
<1> QED
  BY <1>1, <1>2, <1>3, PTL DEF FeedbackSpec
------------------------------------------------------------------------------
WebTypes ==
  /\ call \in {"new", "get", "hit", "answered", "failed"}
  /\ searches \in BOOLEAN
  /\ requested \in Seq(Urls) /\ current \in Urls
  /\ hits \in Nat /\ found \in Nat /\ results \in Nat

Few == IF MaxResults = 0 THEN 1 ELSE MaxResults

(* What has been requested was allowed, and what is asked for next is and   *)
(* may still be; the results and the hits of a search that goes on add up   *)
(* to what the engine had.                                                  *)
WebInv ==
  /\ WebTypes
  /\ Len(requested) <= MaxRedirects + 1
  /\ \A n \in 1..Len(requested) : IsUrlSafe(requested[n])
  /\ call = "get" => IsUrlSafe(current) /\ Len(requested) <= MaxRedirects
  /\ call = "new" => ~searches /\ results = 0
  /\ call = "hit" => searches /\ hits > 0 /\ results + hits = found
  /\ call = "get" /\ searches => results + hits + 1 = found
  /\ call \in {"get", "hit"} /\ searches => results < Few
  /\ call = "answered" /\ searches => results = IF found < Few THEN found ELSE Few
  /\ call = "failed" /\ searches => found = 0

(* A fetch that begins has requested nothing. *)
LEMMA NothingRequested == <<>> \in Seq(Urls) /\ Len(<<>>) = 0
OBVIOUS

(* Where a fetch ends, the search it belongs to goes on or is complete.      *)
LEMMA EndsKeepsInv ==
  ASSUME WebInv, call \in {"get", "hit"}, NEW outcome \in {"answered", "failed"}, Ends(outcome),
         call = "hit" => outcome = "answered", UNCHANGED <<searches, found, current>>,
         hits' = IF call = "hit" THEN hits - 1 ELSE hits,
         requested' \in Seq(Urls), Len(requested') <= MaxRedirects + 1,
         \A n \in 1..Len(requested') : IsUrlSafe(requested'[n])
  PROVE  WebInv'
<1>1. CASE searches
  <2>1. results' = results + 1 /\ results' + hits' = found /\ results' <= Few
    BY <1>1, WebAssumption DEF WebInv, WebTypes, Ends, Few
  <2>2. CASE results' >= MaxResults \/ hits' = 0
    BY <1>1, <2>1, <2>2, WebAssumption DEF WebInv, WebTypes, Ends, Few
  <2>3. CASE ~(results' >= MaxResults \/ hits' = 0)
    BY <1>1, <2>1, <2>3, WebAssumption DEF WebInv, WebTypes, Ends, Few
  <2> QED
    BY <2>2, <2>3
<1>2. CASE ~searches
  BY <1>2 DEF WebInv, WebTypes, Ends
<1> QED
  BY <1>1, <1>2

(* A round of a fetch makes one request, of an address that is allowed.      *)
LEMMA GetKeepsInv ==
  ASSUME WebInv, Get
  PROVE  WebInv'
<1>1. /\ requested' = Append(requested, current) /\ requested' \in Seq(Urls)
      /\ Len(requested') = Len(requested) + 1
      /\ \A n \in 1..Len(requested') :
           requested'[n] = IF n = Len(requested') THEN current ELSE requested[n]
  BY DEF WebInv, WebTypes, Get
<1>2. /\ Len(requested') <= MaxRedirects + 1
      /\ \A n \in 1..Len(requested') : IsUrlSafe(requested'[n])
  BY <1>1, WebAssumption DEF WebInv, WebTypes, Get
<1>3. CASE \E target \in Urls : /\ IsUrlSafe(target) /\ Len(requested) < MaxRedirects
                                /\ current' = target /\ UNCHANGED <<call, results>>
  BY <1>1, <1>2, <1>3, WebAssumption DEF WebInv, WebTypes, Get
<1>4. CASE \E outcome \in {"answered", "failed"} : Ends(outcome) /\ UNCHANGED current
  BY <1>1, <1>2, <1>4, EndsKeepsInv DEF Get
<1> QED
  BY <1>3, <1>4 DEF Get

(* A fetch requests at most MaxRedirects + 1 addresses, each allowed by the  *)
(* policy, and a search loses no result because a fetch fails.               *)
THEOREM WebStaysBounded == WebSpec => []WebIsBounded
<1>1. WebInit => WebInv
  <2> SUFFICES ASSUME WebInit
               PROVE  WebInv
    OBVIOUS
  <2>1. requested \in Seq(Urls) /\ Len(requested) = 0
    BY NothingRequested DEF WebInit
  <2>2. WebTypes
    BY <2>1 DEF WebInit, WebTypes
  <2>3. Len(requested) <= MaxRedirects + 1
    BY <2>1, WebAssumption
  <2>4. \A n \in 1..Len(requested) : IsUrlSafe(requested[n])
    BY <2>1
  <2> QED
    BY <2>2, <2>3, <2>4 DEF WebInit, WebInv
<1>2. WebInv /\ [WebNext]_webVars => WebInv'
  <2> SUFFICES ASSUME WebInv, [WebNext]_webVars
               PROVE  WebInv'
    OBVIOUS
  <2>1. CASE Fetch
    <3>1. CASE \E url \in Urls : IsUrlSafe(url) /\ Begins(url)
      BY <2>1, <3>1, WebAssumption, NothingRequested DEF Fetch, Begins, WebInv, WebTypes
    <3>2. CASE call' = "failed" /\ UNCHANGED <<current, requested, results>>
      BY <2>1, <3>2, WebAssumption DEF Fetch, WebInv, WebTypes
    <3> QED
      BY <2>1, <3>1, <3>2 DEF Fetch
  <2>2. CASE Get
    BY <2>2, GetKeepsInv
  <2>3. CASE \E n \in 0..MaxHits : SearchWeb(n)
    BY <2>3, WebAssumption DEF SearchWeb, WebInv, WebTypes, Few
  <2>4. CASE TakeHit
    <3>1. CASE \E url \in Urls : IsUrlSafe(url) /\ Begins(url)
      BY <2>4, <3>1, WebAssumption, NothingRequested DEF TakeHit, Begins, WebInv, WebTypes
    <3>2. CASE Ends("answered") /\ UNCHANGED <<current, requested>>
      <4>1. requested' \in Seq(Urls) /\ Len(requested') <= MaxRedirects + 1
        BY <3>2 DEF WebInv, WebTypes
      <4>2. \A n \in 1..Len(requested') : IsUrlSafe(requested'[n])
        BY <3>2 DEF WebInv
      <4> QED
        BY <2>4, <3>2, <4>1, <4>2, EndsKeepsInv DEF TakeHit
    <3> QED
      BY <2>4, <3>1, <3>2 DEF TakeHit
  <2>5. CASE UNCHANGED webVars
    BY <2>5 DEF WebInv, WebTypes, webVars
  <2> QED
    BY <2>1, <2>2, <2>3, <2>4, <2>5 DEF WebNext
<1>3. WebInv => WebIsBounded
  BY DEF WebInv, WebTypes, Few, WebIsBounded
<1> QED
  BY <1>1, <1>2, <1>3, PTL DEF WebSpec
------------------------------------------------------------------------------
Past == {"answered", "failed"}
Documents == FileCalls \cup Found \cup {Nothing, Broken}

FileTypes ==
  /\ disk \in [Paths -> Documents] /\ text \in [FileCalls -> Documents]
  /\ use \in [FileCalls -> {Nothing} \cup Uses] /\ prior \in [FileCalls -> SUBSET FileCalls]
  /\ at \in [FileCalls -> {"new", "writing", "reading"} \cup Past]

(* Calls that have begun have their use, and saw only ended calls before.   *)
Begun ==
  \A c \in FileCalls :
    /\ at[c] = "new" <=> use[c] = Nothing
    /\ at[c] = "writing" => use[c].op = "write" /\ use[c].path \in AllowedPaths
    /\ at[c] = "reading" => use[c].op = "read" /\ use[c].path \in AllowedPaths
    /\ \A d \in prior[c] : at[d] \in Past

Writers(f) == {d \in FileCalls : use[d] = [op |-> "write", path |-> f]}

(* What a file that is not all there is put down to. *)
Spoils(d, f) ==
  /\ d \in Writers(f)
  /\ \/ at[d] \in {"writing", "failed"}
     \/ \E e \in Writers(f) \ {d} : e \notin prior[d] /\ d \notin prior[e]

(* A file has the document of a write that was acknowledged, and of the     *)
(* writes that began later none but failed ones; or somebody spoils it; or  *)
(* it is as it was at first, and every write of it has failed.              *)
OnDisk ==
  \A f \in Paths :
    /\ disk[f] = Broken => \E d \in FileCalls : Spoils(d, f)
    /\ disk[f] \in FileCalls =>
         /\ disk[f] \in Writers(f) /\ at[disk[f]] = "answered"
         /\ \A d \in Writers(f) : disk[f] \in prior[d] => at[d] = "failed"
    /\ disk[f] \in Found \cup {Nothing} => \A d \in Writers(f) : at[d] = "failed"

(* The size was checked: a larger document can only have come since. *)
Guarded ==
  \A c \in FileCalls :
    at[c] = "reading" /\ disk[use[c].path] \in Large =>
      disk[use[c].path] \notin prior[c] \cup Found

FileInv == FileTypes /\ Begun /\ OnDisk /\ Guarded

(* Call c takes a step of its own: it begins, seeing who has ended, or ends. *)
Moves(c) ==
  /\ at[c] \notin Past
  /\ \A d \in FileCalls \ {c} : /\ at'[d] = at[d] /\ use'[d] = use[d]
                                /\ prior'[d] = prior[d] /\ text'[d] = text[d]
  /\ \/ /\ at[c] = "new" /\ at'[c] # "new" /\ use'[c] \in Uses /\ text' = text
        /\ prior'[c] = {d \in FileCalls : at[d] \in Past}
     \/ /\ at[c] # "new" /\ at'[c] \in Past /\ use' = use /\ prior' = prior

(* What a step of c does to file f. *)
Touches(c, f) ==
  /\ \/ disk'[f] = disk[f]
     \/ /\ c \in Writers(f)' /\ disk'[f] = Broken
        /\ at'[c] = "answered" => at[c] = "writing" /\ disk[f] \in FileCalls
        /\ at'[c] # "reading"
     \/ c \in Writers(f)' /\ disk'[f] = c /\ at[c] = "writing" /\ at'[c] = "answered"
  /\ at[c] = "new" /\ c \in Writers(f)' => \/ at'[c] = "failed"
                                           \/ at'[c] = "writing" /\ disk'[f] = Broken
  /\ at[c] = "writing" /\ c \in Writers(f)' =>
       \/ disk'[f] = c
       \/ disk'[f] = Broken /\ (at'[c] = "failed" \/ disk[f] \in FileCalls)

(* A step of c in which it goes to read, or returns what it has read. *)
Reads(c) ==
  /\ at'[c] = "reading" => disk' = disk /\ disk[use'[c].path] \notin Large
  /\ at'[c] = "answered" /\ use'[c].op = "read" =>
       LET f == use[c].path IN
       /\ at[c] = "reading" /\ disk' = disk /\ f \in Paths
       /\ text'[c] = disk[f] /\ (disk[f] = Broken => Format[f] = "text")

FileStep(c) ==
  /\ Moves(c) /\ Reads(c) /\ FileTypes' /\ Begun'
  /\ \A f \in Paths : Touches(c, f)

(* A call that begins. *)
LEMMA StartsMoves ==
  ASSUME FileTypes, Begun, NEW c \in FileCalls, NEW op \in Operations, NEW f \in Paths,
         NEW next \in {"writing", "reading"} \cup Past, Starts(c, op, f, next),
         next = "writing" => op = "write" /\ f \in AllowedPaths,
         next = "reading" => op = "read" /\ f \in AllowedPaths,
         text' = text, disk' \in [Paths -> Documents]
  PROVE  /\ Moves(c) /\ FileTypes' /\ Begun'
         /\ use'[c] = [op |-> op, path |-> f] /\ at'[c] = next /\ at[c] = "new"
<1> DEFINE u == [op |-> op, path |-> f]
<1>1. u \in Uses /\ u.op = op /\ u.path = f /\ u # Nothing
  BY FileAssumption DEF Uses
<1>2. /\ at[c] = "new" /\ use' = [use EXCEPT ![c] = u] /\ at' = [at EXCEPT ![c] = next]
      /\ prior' = [prior EXCEPT ![c] = {d \in FileCalls : at[d] \in Past}]
  BY DEF Starts, Past
<1> HIDE DEF u
<1>3. FileTypes'
  BY <1>1, <1>2 DEF FileTypes, Past
<1>4. Moves(c)
  BY <1>1, <1>2 DEF FileTypes, Moves, Past
<1>5. use'[c] = u /\ at'[c] = next
  BY <1>2 DEF FileTypes
<1>6. Begun'
  <2> SUFFICES ASSUME NEW d \in FileCalls
               PROVE  /\ at'[d] = "new" <=> use'[d] = Nothing
                      /\ at'[d] = "writing" => use'[d].op = "write" /\ use'[d].path \in AllowedPaths
                      /\ at'[d] = "reading" => use'[d].op = "read" /\ use'[d].path \in AllowedPaths
                      /\ \A e \in prior'[d] : at'[e] \in Past
    BY DEF Begun
  <2>1. CASE d = c
    BY <1>1, <1>2, <1>5, <2>1 DEF FileTypes, Past
  <2>2. CASE d # c
    BY <1>2, <2>2 DEF FileTypes, Begun, Past
  <2> QED
    BY <2>1, <2>2
<1> QED
  BY <1>2, <1>3, <1>4, <1>5, <1>6 DEF u

(* A call that ends. *)
LEMMA EndsMoves ==
  ASSUME FileTypes, Begun, NEW c \in FileCalls, at[c] \in {"writing", "reading"},
         NEW next \in Past, at' = [at EXCEPT ![c] = next], UNCHANGED <<use, prior>>,
         NEW value \in Documents, text' = text \/ text' = [text EXCEPT ![c] = value],
         disk' \in [Paths -> Documents]
  PROVE  /\ Moves(c) /\ FileTypes' /\ Begun'
         /\ at'[c] = next
<1>1. FileTypes' /\ at'[c] = next
  BY DEF FileTypes, Past
<1>2. Moves(c)
  BY DEF FileTypes, Moves, Past
<1>3. Begun'
  BY DEF FileTypes, Begun, Past
<1> QED
  BY <1>1, <1>2, <1>3

(* Each action of the tool is a step in the sense of FileStep. *)
LEMMA RefuseStep ==
  ASSUME FileTypes, Begun, NEW c \in FileCalls, Refuse(c) \/ ListFiles(c)
  PROVE  FileStep(c)
<1>1. PICK f \in Paths, op \in Operations, next \in Past :
         Starts(c, op, f, next) /\ (next = "answered" => op = "list")
  BY DEF Refuse, ListFiles, AllowedPaths, Operations, Past
<1>2. disk' = disk /\ text' = text /\ disk' \in [Paths -> Documents]
  BY DEF Refuse, ListFiles, FileTypes
<1>3. /\ Moves(c) /\ FileTypes' /\ Begun'
      /\ use'[c] = [op |-> op, path |-> f] /\ at'[c] = next /\ at[c] = "new"
  BY <1>1, <1>2, StartsMoves DEF Past
<1>4. use'[c].op = op
  BY <1>3
<1>5. Reads(c)
  BY <1>1, <1>3, <1>4 DEF Reads, Past
<1>6. \A g \in Paths : c \in Writers(g)' => op = "write"
  BY <1>3 DEF Writers
<1>7. \A g \in Paths : Touches(c, g)
  BY <1>1, <1>2, <1>3, <1>6 DEF Touches, Past
<1> QED
  BY <1>3, <1>5, <1>7 DEF FileStep

(* A write truncates the file and is the latest to have begun on it. *)
LEMMA OpenStep ==
  ASSUME FileTypes, Begun, NEW c \in FileCalls, OpenForWrite(c)
  PROVE  FileStep(c)
<1>1. PICK f \in AllowedPaths :
         \/ Starts(c, "write", f, "failed") /\ UNCHANGED disk
         \/ /\ Format[f] \in {"json", "text"}
            /\ Starts(c, "write", f, "writing")
            /\ disk' = [disk EXCEPT ![f] = Broken]
  BY DEF OpenForWrite
<1>2. f \in Paths /\ text' = text /\ disk' \in [Paths -> Documents]
  BY <1>1 DEF OpenForWrite, FileTypes, Documents, AllowedPaths
<1>3. PICK next \in {"failed", "writing"} :
         /\ Starts(c, "write", f, next)
         /\ disk' = IF next = "writing" THEN [disk EXCEPT ![f] = Broken] ELSE disk
  BY <1>1
<1>4. /\ Moves(c) /\ FileTypes' /\ Begun'
      /\ use'[c] = [op |-> "write", path |-> f] /\ at'[c] = next /\ at[c] = "new"
  BY <1>2, <1>3, StartsMoves DEF Past, Operations
<1>5. Reads(c)
  BY <1>4 DEF Reads
<1>6. \A g \in Paths : c \in Writers(g)' <=> g = f
  <2>1. \A g \in Paths : use'[c] = [op |-> "write", path |-> g] <=> g = f
    BY <1>4
  <2> QED
    BY <2>1 DEF Writers
<1>7. \A g \in Paths : Touches(c, g)
  BY <1>2, <1>3, <1>4, <1>6 DEF Touches, FileTypes
<1> QED
  BY <1>4, <1>5, <1>7 DEF FileStep

(* A write that puts its document into the file is acknowledged. *)
LEMMA FinishStep ==
  ASSUME FileTypes, Begun, NEW c \in FileCalls, FinishWrite(c)
  PROVE  FileStep(c)
<1> DEFINE f == use[c].path
<1>1. at[c] = "writing" /\ use[c] = [op |-> "write", path |-> f] /\ f \in Paths
  <2>1. at[c] = "writing" /\ use[c] # Nothing
    BY DEF FinishWrite, Begun
  <2>2. use[c] \in Uses /\ use[c].op = "write" /\ use[c].path \in Paths
    BY <2>1 DEF Begun, FileTypes, Uses
  <2> QED
    BY <2>1, <2>2 DEF Uses
<1>2. PICK value \in {c, Broken}, next \in Past :
        /\ at' = [at EXCEPT ![c] = next] /\ disk' = [disk EXCEPT ![f] = value]
        /\ value = c => next = "answered"
        /\ value = Broken => next = "failed" \/ disk[f] \in FileCalls
  BY FileAssumption DEF FinishWrite, Past
<1>3. text' = text /\ UNCHANGED <<use, prior>>
  BY DEF FinishWrite
<1> HIDE DEF f
<1>4. disk' \in [Paths -> Documents]
  BY <1>1, <1>2 DEF FileTypes, Documents
<1>5. Moves(c) /\ FileTypes' /\ Begun' /\ at'[c] = next
  BY <1>1, <1>2, <1>3, <1>4, EndsMoves DEF Documents
<1>6. Reads(c)
  BY <1>1, <1>3, <1>5 DEF Reads, Past
<1>7. \A g \in Paths : c \in Writers(g)' <=> g = f
  BY <1>1, <1>3 DEF Writers
<1>8. \A g \in Paths : Touches(c, g)
  BY <1>1, <1>2, <1>5, <1>7 DEF Touches, FileTypes, Past
<1> QED
  BY <1>5, <1>6, <1>8 DEF FileStep

(* The size of the file is looked at before it is read. *)
LEMMA GuardStep ==
  ASSUME FileTypes, Begun, NEW c \in FileCalls, GuardSize(c)
  PROVE  FileStep(c)
<1>1. PICK f \in AllowedPaths, next \in {"failed", "reading"} :
        Starts(c, "read", f, next) /\ (next = "reading" => disk[f] \notin Large)
  BY DEF GuardSize
<1>2. f \in Paths /\ disk' = disk /\ text' = text /\ disk' \in [Paths -> Documents]
  BY DEF GuardSize, FileTypes, AllowedPaths
<1>3. /\ Moves(c) /\ FileTypes' /\ Begun'
      /\ use'[c] = [op |-> "read", path |-> f] /\ at'[c] = next /\ at[c] = "new"
  BY <1>1, <1>2, StartsMoves DEF Past, Operations
<1>4. Reads(c)
  BY <1>1, <1>2, <1>3 DEF Reads
<1>5. \A g \in Paths : c \notin Writers(g)'
  BY <1>3 DEF Writers
<1>6. \A g \in Paths : Touches(c, g)
  BY <1>2, <1>3, <1>5 DEF Touches
<1> QED
  BY <1>3, <1>4, <1>6 DEF FileStep

(* The file is read: what is in it then is the answer. *)
LEMMA ReadStep ==
  ASSUME FileTypes, Begun, NEW c \in FileCalls, ReadDocument(c)
  PROVE  FileStep(c)
<1> DEFINE f == use[c].path
<1>1. at[c] = "reading" /\ use[c].op = "read" /\ f \in Paths
  BY DEF ReadDocument, Begun, AllowedPaths
<1>2. disk' = disk /\ disk' \in [Paths -> Documents] /\ disk[f] \in Documents
  BY <1>1 DEF ReadDocument, FileTypes
<1>3. PICK next \in Past :
        /\ at' = [at EXCEPT ![c] = next] /\ UNCHANGED <<use, prior>>
        /\ text' = text \/ text' = [text EXCEPT ![c] = disk[f]]
        /\ next = "answered" => /\ text' = [text EXCEPT ![c] = disk[f]]
                                /\ disk[f] = Broken => Format[f] = "text"
  BY DEF ReadDocument, Past
<1> HIDE DEF f
<1>4. Moves(c) /\ FileTypes' /\ Begun' /\ at'[c] = next
  BY <1>1, <1>2, <1>3, EndsMoves
<1>5. Reads(c)
  BY <1>1, <1>2, <1>3, <1>4 DEF Reads, FileTypes, Past, f
<1>6. \A g \in Paths : c \notin Writers(g)'
  BY <1>1, <1>3 DEF Writers
<1>7. \A g \in Paths : Touches(c, g)
  BY <1>1, <1>2, <1>6 DEF Touches
<1> QED
  BY <1>4, <1>5, <1>7 DEF FileStep

(* The calls that write f are the same after a step of c, and maybe c. *)
LEMMA WritersGrow ==
  ASSUME FileTypes, Begun, NEW c \in FileCalls, Moves(c), NEW f \in Paths, NEW d \in FileCalls
  PROVE  /\ d \in Writers(f) => d \in Writers(f)' /\ at[d] # "new" /\ prior'[d] = prior[d]
         /\ d \in Writers(f)' => d \in Writers(f) \/ (d = c /\ at[c] = "new")
         /\ at[d] \in Past => at'[d] = at[d]
<1>1. d \in Writers(f) => /\ use[d] = [op |-> "write", path |-> f] /\ use[d] # Nothing
  BY FileAssumption DEF Writers, FileTypes, Uses, Operations
<1>2. d \in Writers(f) => at[d] # "new"
  BY <1>1 DEF Begun
<1>3. at[d] # "new" => use'[d] = use[d] /\ prior'[d] = prior[d]
  BY DEF Moves
<1>4. d # c \/ at[c] # "new" => use'[d] = use[d]
  BY DEF Moves
<1> QED
  BY <1>2, <1>3, <1>4 DEF Writers, Moves

(* Two calls that spoilt a file between them have done so for good. *)
LEMMA SpoiltStays ==
  ASSUME FileTypes, Begun, NEW c \in FileCalls, Moves(c), NEW f \in Paths, NEW d \in FileCalls,
         Spoils(d, f), at[d] # "writing" \/ d # c
  PROVE  Spoils(d, f)'
<1>1. d \in Writers(f)' /\ prior'[d] = prior[d]
  BY WritersGrow DEF Spoils
<1>2. CASE at[d] \in {"writing", "failed"}
  BY <1>1, <1>2 DEF Spoils, Moves, Past
<1>3. CASE \E e \in Writers(f) \ {d} : e \notin prior[d] /\ d \notin prior[e]
  <2>1. PICK e \in Writers(f) \ {d} : e \notin prior[d] /\ d \notin prior[e]
    BY <1>3
  <2>2. e \in FileCalls /\ e \in Writers(f)' /\ prior'[e] = prior[e]
    BY <2>1, WritersGrow DEF Writers
  <2> QED
    BY <1>1, <2>1, <2>2 DEF Spoils
<1> QED
  BY <1>2, <1>3 DEF Spoils

(* What is in a file after a step of c. *)
LEMMA OnDiskKept ==
  ASSUME FileInv, NEW c \in FileCalls, FileStep(c)
  PROVE  OnDisk'
<1>1. FileTypes /\ Begun /\ Moves(c) /\ FileTypes' /\ Begun'
  BY DEF FileInv, FileStep
<1> SUFFICES ASSUME NEW f \in Paths
             PROVE  /\ disk'[f] = Broken => \E d \in FileCalls : Spoils(d, f)'
                    /\ disk'[f] \in FileCalls =>
                         /\ disk'[f] \in Writers(f)' /\ at'[disk'[f]] = "answered"
                         /\ \A d \in Writers(f)' : disk'[f] \in prior'[d] => at'[d] = "failed"
                    /\ disk'[f] \in Found \cup {Nothing} =>
                         \A d \in Writers(f)' : at'[d] = "failed"
  BY DEF OnDisk
<1>2. Touches(c, f)
  BY DEF FileStep
<1>3. ASSUME disk'[f] = Broken
      PROVE  \E d \in FileCalls : Spoils(d, f)'
  <2>1. CASE c \in Writers(f)' /\ at'[c] \in {"writing", "failed"}
    BY <2>1 DEF Spoils
  <2>2. CASE /\ c \in Writers(f)' /\ at'[c] = "answered" /\ at[c] = "writing"
             /\ disk[f] \in FileCalls
    <3>1. /\ disk[f] \in Writers(f) /\ at[disk[f]] = "answered" /\ c \in Writers(f)
          /\ disk[f] \notin prior[c]
      BY <1>1, <2>2, WritersGrow DEF FileInv, OnDisk
    <3>2. c \notin prior[disk[f]]
      BY <1>1, <2>2 DEF Begun, Past
    <3>3. disk[f] \in Writers(f)' /\ disk[f] # c /\ prior'[disk[f]] = prior[disk[f]]
          /\ prior'[c] = prior[c]
      BY <1>1, <2>2, <3>1, WritersGrow
    <3> QED
      BY <2>2, <3>1, <3>2, <3>3 DEF Spoils
  <2>3. CASE disk[f] = Broken /\ ~(c \in Writers(f)' /\ at'[c] # "reading")
    <3>1. PICK d \in FileCalls : Spoils(d, f)
      BY <2>3 DEF FileInv, OnDisk
    <3>2. at[d] # "writing" \/ d # c
      BY <1>1, <2>3, <3>1, WritersGrow DEF Spoils, Moves, Past
    <3> QED
      BY <1>1, <3>1, <3>2, SpoiltStays
  <2>4. CASE disk[f] = Broken /\ c \in Writers(f)' /\ at'[c] = "answered"
    <3>1. c \in Writers(f) /\ at[c] = "writing"
      <4>1. use'[c] = [op |-> "write", path |-> f]
        BY <2>4 DEF Writers
      <4>2. at[c] # "new"
        BY <1>2, <2>4 DEF Touches
      <4>3. at[c] # "reading"
        BY <1>1, <4>1, <4>2 DEF Moves, Begun
      <4> QED
        BY <1>1, <2>4, <4>2, <4>3, WritersGrow DEF Moves, FileTypes
    <3> QED
      BY <1>2, <1>3, <2>4, <3>1, FileAssumption DEF Touches
  <2>5. at'[c] \in {"writing", "failed", "answered", "reading"}
    BY <1>1 DEF Moves, FileTypes, Past
  <2>6. disk[f] = Broken \/ (c \in Writers(f)' /\ at'[c] # "reading")
    BY <1>2, <1>3, FileAssumption DEF Touches
  <2> QED
    BY <1>2, <1>3, <2>1, <2>2, <2>3, <2>4, <2>5, <2>6, FileAssumption DEF Touches
<1>4. ASSUME disk'[f] \in FileCalls
      PROVE  /\ disk'[f] \in Writers(f)' /\ at'[disk'[f]] = "answered"
             /\ \A d \in Writers(f)' : disk'[f] \in prior'[d] => at'[d] = "failed"
  <2>1. CASE disk'[f] = disk[f]
    <3>1. /\ disk[f] \in FileCalls /\ disk[f] \in Writers(f) /\ at[disk[f]] = "answered"
          /\ \A d \in Writers(f) : disk[f] \in prior[d] => at[d] = "failed"
      BY <1>4, <2>1 DEF FileInv, OnDisk
    <3>2. disk[f] \in Writers(f)' /\ at'[disk[f]] = "answered"
      BY <1>1, <3>1, WritersGrow DEF Past
    <3>3. ASSUME NEW d \in Writers(f)', disk[f] \in prior'[d]
          PROVE  at'[d] = "failed"
      <4>1. d \in FileCalls
        BY <3>3 DEF Writers
      <4>2. CASE d \in Writers(f)
        BY <1>1, <3>1, <3>3, <4>1, <4>2, WritersGrow DEF Past
      <4>3. CASE d = c /\ at[c] = "new"
        BY <1>2, <1>4, <2>1, <3>3, <4>3, FileAssumption DEF Touches
      <4> QED
        BY <1>1, <3>3, <4>1, <4>2, <4>3, WritersGrow
    <3> QED
      BY <2>1, <3>2, <3>3
  <2>2. CASE /\ c \in Writers(f)' /\ disk'[f] = c
             /\ at[c] = "writing" /\ at'[c] = "answered"
    <3>1. ASSUME NEW d \in Writers(f)' PROVE c \notin prior'[d]
      <4>1. d \in FileCalls
        BY <3>1 DEF Writers
      <4>2. prior'[d] = prior[d]
        BY <1>1, <2>2, <4>1 DEF Moves
      <4> QED
        BY <1>1, <2>2, <4>1, <4>2 DEF Begun, Past
    <3> QED
      BY <2>2, <3>1
  <2> QED
    BY <1>2, <1>4, <2>1, <2>2, FileAssumption DEF Touches
<1>5. ASSUME disk'[f] \in Found \cup {Nothing}, NEW d \in Writers(f)'
      PROVE  at'[d] = "failed"
  <2>1. disk'[f] = disk[f] /\ disk'[f] # Broken
    BY <1>2, <1>5, FileAssumption DEF Touches
  <2>2. d \in FileCalls
    BY <1>5 DEF Writers
  <2>3. CASE d \in Writers(f)
    BY <1>1, <1>5, <2>1, <2>2, <2>3, WritersGrow DEF FileInv, OnDisk, Past
  <2>4. CASE d = c /\ at[c] = "new"
    BY <1>2, <1>5, <2>1, <2>4 DEF Touches
  <2> QED
    BY <1>1, <1>5, <2>2, <2>3, <2>4, WritersGrow
<1> QED
  BY <1>3, <1>4, <1>5

(* A document that is too large has come to a file after the check. *)
LEMMA GuardedKept ==
  ASSUME FileInv, NEW c \in FileCalls, FileStep(c)
  PROVE  Guarded'
<1>1. FileTypes /\ Begun /\ Moves(c) /\ FileTypes' /\ Begun'
  BY DEF FileInv, FileStep
<1> SUFFICES ASSUME NEW d \in FileCalls, at'[d] = "reading", disk'[use'[d].path] \in Large
             PROVE  disk'[use'[d].path] \notin prior'[d] \cup Found
  BY DEF Guarded
<1>2. CASE d = c
  BY <1>2 DEF FileStep, Reads
<1>3. CASE d # c
  <2> DEFINE f == use[d].path
  <2>1. at[d] = "reading" /\ use'[d] = use[d] /\ prior'[d] = prior[d] /\ f \in Paths
    BY <1>1, <1>3 DEF Moves, Begun, AllowedPaths
  <2>2. CASE disk'[f] = disk[f]
    BY <2>1, <2>2 DEF FileInv, Guarded
  <2>3. CASE disk'[f] # disk[f]
    <3>1. Touches(c, f)
      BY <2>1 DEF FileStep
    <3>2. disk'[f] = c /\ at[c] = "writing"
      BY <2>1, <2>3, <3>1, FileAssumption DEF Touches
    <3> QED
      BY <1>1, <2>1, <3>2, FileAssumption DEF Begun, Past
  <2> QED
    BY <2>2, <2>3
<1> QED
  BY <1>2, <1>3

(* ReadIsSound of one read, with the vocabulary above. *)
Torn(c, f) ==
  \E d \in Writers(f) : \/ d \notin prior[c] \/ at[d] = "failed"
                        \/ \E e \in Writers(f) \ {d} : e \notin prior[d] /\ d \notin prior[e]
Sound(c, f) ==
  /\ text[c] = Broken => Format[f] = "text" /\ Torn(c, f)
  /\ text[c] \in Large => \E d \in Writers(f) : d \notin prior[c]
  /\ text[c] # Broken => \A d \in Writers(f) \cap prior[c] :
       at[d] = "answered" => text[c] \notin prior[d] \cup Found

ReadsSound ==
  \A c \in FileCalls, f \in Paths :
    at[c] = "answered" /\ use[c] = [op |-> "read", path |-> f] => Sound(c, f)

(* The call that reads. *)
LEMMA ReadIsSoundNow ==
  ASSUME FileInv, NEW c \in FileCalls, FileStep(c), NEW f \in Paths, at'[c] = "answered",
         use'[c] = [op |-> "read", path |-> f]
  PROVE  Sound(c, f)'
<1>1. FileTypes /\ Begun /\ OnDisk /\ Guarded /\ Moves(c)
  BY DEF FileInv, FileStep
<1>2. /\ at[c] = "reading" /\ disk' = disk /\ use[c] = [op |-> "read", path |-> f]
      /\ text'[c] = disk[f] /\ (disk[f] = Broken => Format[f] = "text")
  <2>1. use'[c].op = "read"
    OBVIOUS
  <2>2. at[c] = "reading"
    BY <2>1 DEF FileStep, Reads
  <2>3. use[c] = use'[c] /\ use[c].path = f
    BY <2>2 DEF FileStep, Moves
  <2> QED
    BY <2>1, <2>2, <2>3 DEF FileStep, Reads
<1>3. use' = use /\ prior' = prior /\ \A d \in FileCalls \ {c} : at'[d] = at[d]
  BY <1>2 DEF Moves, FileStep
<1>4. c \notin Writers(f) /\ Writers(f)' = Writers(f)
  BY <1>1, <1>2, <1>3 DEF Begun, Writers
<1>5. \A d \in Writers(f) : d \in FileCalls /\ at'[d] = at[d]
  BY <1>3, <1>4 DEF Writers
<1>6. disk[f] = Broken => Torn(c, f)'
  <2> SUFFICES ASSUME disk[f] = Broken PROVE Torn(c, f)'
    OBVIOUS
  <2>1. PICK d \in FileCalls : Spoils(d, f)
    BY <1>1, <1>2 DEF OnDisk
  <2>2. CASE at[d] = "writing"
    BY <1>1, <1>3, <1>4, <2>1, <2>2 DEF Spoils, Torn, Begun, Past
  <2>3. CASE at[d] = "failed"
    BY <1>4, <1>5, <2>1, <2>3 DEF Spoils, Torn
  <2>4. CASE \E e \in Writers(f) \ {d} : e \notin prior[d] /\ d \notin prior[e]
    BY <1>3, <1>4, <2>1, <2>4 DEF Spoils, Torn
  <2> QED
    BY <2>1, <2>2, <2>3, <2>4 DEF Spoils
<1>7. disk[f] \in Large => disk[f] \in Writers(f) /\ disk[f] \notin prior[c]
  BY <1>1, <1>2, FileAssumption DEF OnDisk, Guarded
<1>8. disk[f] # Broken => \A d \in Writers(f) \cap prior[c] :
        at[d] = "answered" => disk[f] \notin prior[d] \cup Found
  <2>1. disk[f] \in Documents
    BY <1>1 DEF FileTypes
  <2>2. CASE disk[f] \in FileCalls
    BY <1>1, <2>2, FileAssumption DEF OnDisk
  <2>3. CASE disk[f] \in Found \cup {Nothing}
    BY <1>1, <2>3 DEF OnDisk
  <2> QED
    BY <2>1, <2>2, <2>3 DEF Documents
<1> QED
  BY <1>2, <1>3, <1>4, <1>5, <1>6, <1>7, <1>8 DEF Sound

(* A read that has been answered stays sound whatever others do. *)
LEMMA SoundStays ==
  ASSUME FileInv, NEW c \in FileCalls, FileStep(c), NEW r \in FileCalls, r # c,
         at[r] = "answered", NEW f \in Paths, Sound(r, f)
  PROVE  Sound(r, f)'
<1>1. FileTypes /\ Begun /\ Moves(c)
  BY DEF FileInv, FileStep
<1>2. text'[r] = text[r] /\ prior'[r] = prior[r]
  BY <1>1 DEF Moves
<1>3. \A d \in Writers(f) : /\ d \in FileCalls /\ d \in Writers(f)' /\ prior'[d] = prior[d]
                            /\ at[d] = "failed" => at'[d] = "failed"
  BY <1>1, WritersGrow DEF Writers, Past
<1>4. Torn(r, f) => Torn(r, f)'
  <2> SUFFICES ASSUME NEW d \in Writers(f),
                      \/ d \notin prior[r] \/ at[d] = "failed"
                      \/ \E e \in Writers(f) \ {d} : e \notin prior[d] /\ d \notin prior[e]
               PROVE  Torn(r, f)'
    BY DEF Torn
  <2>1. CASE d \notin prior[r] \/ at[d] = "failed"
    BY <1>2, <1>3, <2>1 DEF Torn
  <2>2. CASE \E e \in Writers(f) \ {d} : e \notin prior[d] /\ d \notin prior[e]
    <3>1. PICK e \in Writers(f) \ {d} : e \notin prior[d] /\ d \notin prior[e]
      BY <2>2
    <3> QED
      BY <1>3, <3>1 DEF Torn
  <2> QED
    BY <2>1, <2>2
<1>5. (\E d \in Writers(f) : d \notin prior[r]) => \E d \in Writers(f)' : d \notin prior'[r]
  BY <1>2, <1>3
<1>6. ASSUME NEW d \in Writers(f)', d \in prior'[r]
      PROVE  d \in Writers(f) /\ at'[d] = at[d] /\ prior'[d] = prior[d]
  <2>1. d \in FileCalls /\ at[d] \in Past
    BY <1>1, <1>2, <1>6 DEF Begun, Writers
  <2>2. d # c /\ at'[d] = at[d]
    BY <1>1, <2>1 DEF Moves
  <2> QED
    BY <1>1, <1>6, <2>1, <2>2, WritersGrow DEF Moves
<1> QED
  BY <1>2, <1>4, <1>5, <1>6 DEF Sound

(* Among any overlapping calls of the file tool, a read returns no document  *)
(* that an acknowledged write had replaced before it began, and one too      *)
(* large or not all there only because of a write it may be blamed on.       *)
THEOREM ReadsAreSound == FileSpec => []ReadIsSound
<1> DEFINE Inv == FileInv /\ ReadsSound
<1>1. FileInit => Inv
  <2> SUFFICES ASSUME FileInit
               PROVE  FileInv /\ ReadsSound
    OBVIOUS
  <2>1. /\ disk \in [Paths -> Found \cup {Nothing}]
        /\ \A c \in FileCalls : at[c] = "new" /\ use[c] = Nothing /\ prior[c] = {}
    BY DEF FileInit
  <2>2. FileTypes
    BY DEF FileInit, FileTypes, Documents
  <2>3. \A f \in Paths : Writers(f) = {}
    BY <2>1, FileAssumption DEF Writers, Uses, Operations
  <2>4. \A f \in Paths : disk[f] # Broken /\ disk[f] \notin FileCalls
    BY <2>1, FileAssumption
  <2>5. OnDisk
    BY <2>3, <2>4 DEF OnDisk
  <2>6. Begun /\ Guarded /\ ReadsSound
    BY <2>1 DEF Begun, Guarded, ReadsSound
  <2> QED
    BY <2>2, <2>5, <2>6 DEF FileInv
<1>2. Inv /\ [FileNext]_fileVars => Inv'
  <2> SUFFICES ASSUME FileInv, ReadsSound, [FileNext]_fileVars
               PROVE  FileInv' /\ ReadsSound'
    OBVIOUS
  <2>1. ASSUME NEW c \in FileCalls, FileStep(c)
        PROVE  FileInv' /\ ReadsSound'
    <3>1. FileInv'
      BY <2>1, OnDiskKept, GuardedKept DEF FileInv, FileStep
    <3>2. ASSUME NEW r \in FileCalls, NEW f \in Paths, at'[r] = "answered",
                 use'[r] = [op |-> "read", path |-> f]
          PROVE  Sound(r, f)'
      <4>1. CASE r = c
        BY <2>1, <3>2, <4>1, ReadIsSoundNow
      <4>2. CASE r # c
        <5>1. at[r] = "answered" /\ use'[r] = use[r]
          BY <2>1, <3>2, <4>2 DEF FileStep, Moves
        <5>2. Sound(r, f)
          BY <3>2, <5>1 DEF ReadsSound
        <5> QED
          BY <2>1, <4>2, <5>1, <5>2, SoundStays
      <4> QED
        BY <4>1, <4>2
    <3> QED
      BY <3>1, <3>2 DEF ReadsSound
  <2>2. CASE FileNext
    <3>1. PICK c \in FileCalls : \/ Refuse(c) \/ ListFiles(c) \/ OpenForWrite(c)
                                 \/ FinishWrite(c) \/ GuardSize(c) \/ ReadDocument(c)
      BY <2>2 DEF FileNext
    <3> QED
      BY <2>1, <3>1, RefuseStep, OpenStep, FinishStep, GuardStep, ReadStep DEF FileInv
  <2>3. CASE UNCHANGED fileVars
    BY <2>3 DEF fileVars, FileInv, FileTypes, Begun, OnDisk, Guarded, ReadsSound, Sound, Torn,
                Spoils, Writers
  <2> QED
    BY <2>2, <2>3
<1>3. Inv => ReadIsSound
  <2> SUFFICES ASSUME Inv, NEW c \in FileCalls, at[c] = "answered", use[c].op = "read"
               PROVE  use[c].path \in Paths /\ Sound(c, use[c].path)
    BY DEF Sound, Torn, Writers, ReadIsSound
  <2>1. use[c] \in Uses
    BY DEF FileInv, FileTypes, Begun
  <2>2. use[c].path \in Paths /\ use[c] = [op |-> "read", path |-> use[c].path]
    BY <2>1 DEF Uses
  <2> QED
    BY <2>2 DEF ReadsSound
<1> QED
  BY <1>1, <1>2, <1>3, PTL DEF FileSpec
==============================================================================
