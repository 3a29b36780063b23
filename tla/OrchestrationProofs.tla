------------------------- MODULE OrchestrationProofs -------------------------
(***************************************************************************)
(* Theorems about Orchestration for any requests, any numbers of           *)
(* executions and mishaps, and any size of the memory.                     *)
(***************************************************************************)
EXTENDS Orchestration, SequenceTheorems, TLAPS

Distinct(seq) == \A a, b \in 1..Len(seq) : seq[a] = seq[b] => a = b

Names == Tools \cup {"policy_gate"}

(* A step that depends on a word of the request. *)
LEMMA WhenFits ==
  ASSUME NEW condition, NEW step \in Tools
  PROVE  /\ When(condition, step) \in Seq(Tools) /\ Len(When(condition, step)) \in {0, 1}
         /\ \A a \in 1..Len(When(condition, step)) : When(condition, step)[a] = step
<1>1. CASE condition
  <2>1. When(condition, step) = <<step>>
    BY <1>1 DEF When
  <2> QED
    BY <2>1
<1>2. CASE ~condition
  <2>1. When(condition, step) = <<>>
    BY <1>2 DEF When
  <2> QED
    BY <2>1, EmptySeq
<1> QED
  BY <1>1, <1>2

(* Of three sequences of at most one element, each element has its place.    *)
LEMMA ThreeKinds ==
  ASSUME NEW k \in {0, 1}, NEW l \in {0, 1}, NEW n \in {0, 1},
         NEW a \in 1..(k + l + n), NEW b \in 1..(k + l + n),
         (IF a <= k THEN "send_email" ELSE IF a <= k + l THEN "create_calendar_event"
                                      ELSE "web_search_tool")
         = (IF b <= k THEN "send_email" ELSE IF b <= k + l THEN "create_calendar_event"
                                        ELSE "web_search_tool")
  PROVE  a = b
<1>1. (a <= k <=> b <= k) /\ (a <= k + l <=> b <= k + l)
  OBVIOUS
<1> QED
  BY <1>1

(* A plan names tools, none of them twice. *)
LEMMA PlanFits ==
  ASSUME NEW r \in Requests
  PROVE  Plan(r) \in Seq(Tools) /\ Distinct(Plan(r))
<1>1. CASE r.payload \in DOMAIN PayloadTool
  <2>1. PayloadTool[r.payload] \in Tools
    BY <1>1 DEF PayloadTool, Tools
  <2>2. Plan(r) = <<PayloadTool[r.payload]>>
    BY <1>1 DEF Plan
  <2> QED
    BY <2>1, <2>2 DEF Distinct
<1>2. CASE r.payload \notin DOMAIN PayloadTool /\ r.type # "automation"
  BY <1>2 DEF Plan, Distinct
<1>3. CASE r.payload \notin DOMAIN PayloadTool /\ r.type = "automation"
  <2> DEFINE m == When("email" \in r.words, "send_email")
             c == When("calendar" \in r.words, "create_calendar_event")
             s == When("search" \in r.words, "web_search_tool")
  <2>1. Plan(r) = m \o c \o s
    BY <1>3 DEF Plan
  <2>2. {"send_email", "create_calendar_event", "web_search_tool"} \subseteq Tools
    BY DEF Tools
  <2>3. /\ m \in Seq(Tools) /\ Len(m) \in {0, 1} /\ \A a \in 1..Len(m) : m[a] = "send_email"
        /\ c \in Seq(Tools) /\ Len(c) \in {0, 1} /\ \A a \in 1..Len(c) : c[a] = "create_calendar_event"
        /\ s \in Seq(Tools) /\ Len(s) \in {0, 1} /\ \A a \in 1..Len(s) : s[a] = "web_search_tool"
    BY <2>2, WhenFits
  <2> HIDE DEF m, c, s
  <2>4. /\ m \o c \in Seq(Tools) /\ Len(m \o c) = Len(m) + Len(c)
        /\ \A a \in 1..Len(m) + Len(c) : (m \o c)[a] = IF a <= Len(m) THEN m[a] ELSE c[a - Len(m)]
    BY <2>3, ConcatProperties
  <2> DEFINE mc == m \o c
  <2> HIDE DEF mc
  <2>5. /\ mc \o s \in Seq(Tools) /\ Len(mc \o s) = Len(mc) + Len(s)
        /\ \A a \in 1..Len(mc) + Len(s) :
             (mc \o s)[a] = IF a <= Len(mc) THEN mc[a] ELSE s[a - Len(mc)]
    BY <2>3, <2>4, ConcatProperties DEF mc
  <2>6. ASSUME NEW a \in 1..Len(mc \o s)
        PROVE  (mc \o s)[a] = IF a <= Len(m) THEN "send_email"
                              ELSE IF a <= Len(m) + Len(c) THEN "create_calendar_event"
                              ELSE "web_search_tool"
    <3>1. /\ Len(mc) = Len(m) + Len(c) /\ a \in 1..(Len(m) + Len(c) + Len(s))
          /\ \A b \in 1..Len(m) + Len(c) : mc[b] = IF b <= Len(m) THEN m[b] ELSE c[b - Len(m)]
      BY <2>4, <2>5 DEF mc
    <3>2. CASE a <= Len(m)
      BY <2>3, <2>5, <3>1, <3>2
    <3>3. CASE Len(m) < a /\ a <= Len(m) + Len(c)
      <4>1. mc[a] = c[a - Len(m)] /\ a - Len(m) \in 1..Len(c)
        BY <2>3, <3>1, <3>3
      <4> QED
        BY <2>3, <2>5, <3>1, <3>3, <4>1
    <3>4. CASE Len(m) + Len(c) < a
      <4>1. (mc \o s)[a] = s[a - Len(mc)] /\ a - Len(mc) \in 1..Len(s)
        BY <2>3, <2>5, <3>1, <3>4
      <4> QED
        BY <2>3, <3>1, <3>4, <4>1
    <3> QED
      BY <2>3, <3>1, <3>2, <3>3, <3>4
  <2>7. Len(mc \o s) = Len(m) + Len(c) + Len(s)
    BY <2>4, <2>5 DEF mc
  <2>8. Distinct(mc \o s)
    <3> SUFFICES ASSUME NEW a \in 1..Len(mc \o s), NEW b \in 1..Len(mc \o s),
                        (mc \o s)[a] = (mc \o s)[b]
                 PROVE  a = b
      BY DEF Distinct
    <3>1. PICK k \in {0, 1}, l \in {0, 1}, n \in {0, 1} :
             k = Len(m) /\ l = Len(c) /\ n = Len(s)
      BY <2>3
    <3>2. a \in 1..(k + l + n) /\ b \in 1..(k + l + n)
      BY <2>7, <3>1
    <3>3. (IF a <= k THEN "send_email" ELSE IF a <= k + l THEN "create_calendar_event"
                                          ELSE "web_search_tool")
          = (IF b <= k THEN "send_email" ELSE IF b <= k + l THEN "create_calendar_event"
                                            ELSE "web_search_tool")
      BY <2>6, <3>1
    <3> QED
      BY <3>2, <3>3, ThreeKinds
  <2> QED
    BY <2>1, <2>5, <2>8 DEF mc
<1> QED
  BY <1>1, <1>2, <1>3

(* The tools of what has been recorded. *)
LEMMA ToolsOfFits ==
  ASSUME NEW acts \in Seq(Outcomes)
  PROVE  /\ ToolsOf(acts) \in Seq(Names) /\ Len(ToolsOf(acts)) = Len(acts)
         /\ \A i \in 1..Len(acts) : ToolsOf(acts)[i] = acts[i].tool
<1>1. Len(acts) \in Nat /\ DOMAIN acts = 1..Len(acts) /\ \A i \in 1..Len(acts) : acts[i] \in Outcomes
  BY LenProperties, ElementOfSeq
<1>2. \A i \in 1..Len(acts) : acts[i].tool \in Names
  BY <1>1 DEF Outcomes, Names
<1>3. /\ ToolsOf(acts) \in [1..Len(acts) -> Names]
      /\ \A i \in 1..Len(acts) : ToolsOf(acts)[i] = acts[i].tool
  BY <1>1, <1>2 DEF ToolsOf
<1>4. ToolsOf(acts) \in Seq(Names)
  BY <1>1, <1>3, SeqDef
<1>5. DOMAIN ToolsOf(acts) = 1..Len(ToolsOf(acts)) /\ Len(ToolsOf(acts)) \in Nat
  BY <1>4, LenProperties
<1> QED
  BY <1>1, <1>3, <1>4, <1>5

(* The executor records the first tool that is left, and drops it. *)
LEMMA Progress ==
  ASSUME NEW acts \in Seq(Outcomes), NEW rest \in Seq(Tools), rest # <<>>,
         NEW o \in Outcomes, o.tool = Head(rest)
  PROVE  /\ Append(acts, o) \in Seq(Outcomes) /\ Tail(rest) \in Seq(Tools) /\ Head(rest) \in Tools
         /\ ToolsOf(Append(acts, o)) \o Tail(rest) = ToolsOf(acts) \o rest
         /\ Distinct(rest) => /\ Distinct(Tail(rest))
                              /\ \A a \in 1..Len(Tail(rest)) : Tail(rest)[a] # Head(rest)
<1>1. /\ Append(acts, o) \in Seq(Outcomes) /\ Len(Append(acts, o)) = Len(acts) + 1
      /\ \A i \in 1..Len(acts) : Append(acts, o)[i] = acts[i]
      /\ Append(acts, o)[Len(acts) + 1] = o
  BY AppendProperties
<1>2. /\ Head(rest) \in Tools /\ Tail(rest) \in Seq(Tools) /\ Len(Tail(rest)) = Len(rest) - 1
      /\ \A i \in 1..Len(Tail(rest)) : Tail(rest)[i] = rest[i + 1]
      /\ Head(rest) = rest[1] /\ Len(rest) \in Nat \ {0}
  BY HeadTailProperties, EmptySeq
<1>3. /\ ToolsOf(acts) \in Seq(Names) /\ Len(ToolsOf(acts)) = Len(acts) /\ Len(acts) \in Nat
      /\ \A i \in 1..Len(acts) : ToolsOf(acts)[i] = acts[i].tool
  BY ToolsOfFits, LenProperties
<1>4. /\ ToolsOf(Append(acts, o)) \in Seq(Names) /\ Len(ToolsOf(Append(acts, o))) = Len(acts) + 1
      /\ \A i \in 1..Len(acts) : ToolsOf(Append(acts, o))[i] = acts[i].tool
      /\ ToolsOf(Append(acts, o))[Len(acts) + 1] = Head(rest)
  <2>1. /\ ToolsOf(Append(acts, o)) \in Seq(Names)
        /\ Len(ToolsOf(Append(acts, o))) = Len(acts) + 1
        /\ \A i \in 1..Len(acts) + 1 : ToolsOf(Append(acts, o))[i] = Append(acts, o)[i].tool
    BY <1>1, ToolsOfFits
  <2> QED
    BY <1>1, <1>3, <2>1
<1>5. rest \in Seq(Names) /\ Tail(rest) \in Seq(Names)
  BY <1>2, SeqMonotonic DEF Names
<1>6. ToolsOf(Append(acts, o)) \o Tail(rest) = ToolsOf(acts) \o rest
  <2> DEFINE new == ToolsOf(Append(acts, o))
             old == ToolsOf(acts)
             left == Tail(rest)
             n == Len(acts)
  <2>1. /\ new \in Seq(Names) /\ Len(new) = n + 1 /\ n \in Nat
        /\ \A i \in 1..n : new[i] = old[i]
        /\ new[n + 1] = rest[1]
        /\ old \in Seq(Names) /\ Len(old) = n
        /\ left \in Seq(Names) /\ Len(left) = Len(rest) - 1 /\ Len(rest) \in Nat \ {0}
        /\ \A i \in 1..Len(left) : left[i] = rest[i + 1]
    BY <1>2, <1>3, <1>4, <1>5
  <2> HIDE DEF new, old, left, n
  <2>2. /\ new \o left \in Seq(Names) /\ Len(new \o left) = n + Len(rest)
        /\ \A i \in 1..n + Len(rest) :
             (new \o left)[i] = IF i <= n + 1 THEN new[i] ELSE left[i - (n + 1)]
    <3>1. /\ new \o left \in Seq(Names) /\ Len(new \o left) = Len(new) + Len(left)
          /\ \A i \in 1..Len(new) + Len(left) :
               (new \o left)[i] = IF i <= Len(new) THEN new[i] ELSE left[i - Len(new)]
      <4>1. new \in Seq(Names) /\ left \in Seq(Names)
        BY <2>1
      <4> QED
        BY <4>1, ConcatProperties
    <3>2. Len(new) + Len(left) = n + Len(rest)
      BY <2>1
    <3> QED
      BY <2>1, <3>1, <3>2
  <2>3. /\ old \o rest \in Seq(Names) /\ Len(old \o rest) = n + Len(rest)
        /\ \A i \in 1..n + Len(rest) :
             (old \o rest)[i] = IF i <= n THEN old[i] ELSE rest[i - n]
    <3>1. /\ old \o rest \in Seq(Names) /\ Len(old \o rest) = Len(old) + Len(rest)
          /\ \A i \in 1..Len(old) + Len(rest) :
               (old \o rest)[i] = IF i <= Len(old) THEN old[i] ELSE rest[i - Len(old)]
      <4>1. old \in Seq(Names) /\ rest \in Seq(Names)
        BY <1>5, <2>1
      <4> QED
        BY <4>1, ConcatProperties
    <3>2. Len(old) = n
      BY <2>1
    <3> QED
      BY <3>1, <3>2
  <2>4. ASSUME NEW i \in 1..n + Len(rest)
        PROVE  (new \o left)[i] = (old \o rest)[i]
    <3>1. CASE i <= n
      BY <2>1, <2>2, <2>3, <3>1
    <3>2. CASE i = n + 1
      BY <2>1, <2>2, <2>3, <3>2
    <3>3. CASE i > n + 1
      <4>1. i - (n + 1) \in 1..Len(left) /\ (i - (n + 1)) + 1 = i - n
        BY <2>1, <3>3
      <4>2. left[i - (n + 1)] = rest[i - n]
        BY <2>1, <4>1
      <4> QED
        BY <2>1, <2>2, <2>3, <3>3, <4>2
    <3> QED
      BY <2>1, <3>1, <3>2, <3>3
  <2>5. new \o left = old \o rest
    BY <2>2, <2>3, <2>4, SeqEqual
  <2> QED
    BY <2>5 DEF new, old, left
<1>7. Distinct(rest) => /\ Distinct(Tail(rest))
                        /\ \A a \in 1..Len(Tail(rest)) : Tail(rest)[a] # Head(rest)
  BY <1>2 DEF Distinct
<1> QED
  BY <1>1, <1>2, <1>6, <1>7
------------------------------------------------------------------------------
Sessions == {Session(j) : j \in Jobs}

JobTypes ==
  /\ stage \in [Jobs -> Idle \cup Active] /\ attempt \in [Jobs -> 0..MaxRuns]
  /\ todo \in [Jobs -> Seq(Tools)] /\ actions \in [Jobs -> Seq(Outcomes)]
  /\ before \in [Jobs -> SUBSET Traces]
HubTypes == cache \subseteq Keys /\ audited \subseteq Keys /\ done \in [Keys -> Nat]
EnvTypes ==
  /\ short \in [Sessions -> Seq(Traces)] /\ log \in [Sessions -> Seq(Traces)]
  /\ torn \in BOOLEAN /\ writing \in BOOLEAN
  /\ faults \in Nat /\ saves \in Nat /\ crashes \in Nat

Live(j) == stage[j] \notin {"new", "gone"}

(* An execution follows its plan, and names no tool twice. *)
Follows(j) ==
  /\ stage[j] # "new" => attempt[j] >= 1
  /\ Distinct(todo[j])
  /\ stage[j] = "ran" => todo[j] # <<>>
  /\ Live(j) /\ Request[j].auto => ToolsOf(actions[j]) \o todo[j] = Plan(Request[j])

(* No tool has acted twice for a trace id, none for a trace id to come, and *)
(* none that this execution has still to invoke; what the audit log and the *)
(* cache know did happen.                                                   *)
Acted(j) ==
  \A n \in 1..MaxRuns, t \in Tools :
    /\ done[<<j, n, t>>] <= 1
    /\ done[<<j, n, t>>] > 0 => n <= attempt[j]
    /\ done[<<j, n, t>>] > 0 /\ n = attempt[j] =>
         \A a \in 1..Len(todo[j]) : todo[j][a] = t => stage[j] = "ran" /\ a = 1
    /\ <<j, n, t>> \in audited => done[<<j, n, t>>] > 0
    /\ <<j, n, t>> \in cache => <<j, n, t>> \in audited

Has(j, t, status) ==
  \E i \in 1..Len(actions[j]) : actions[j][i] = [tool |-> t, status |-> status]

(* What is recorded so far is the truth, but for the tool that has just run. *)
Truth(j) ==
  /\ stage[j] = "ran" => done[Key(j, Head(todo[j]))] > 0
  /\ Live(j) => \A t \in Tools :
       /\ Has(j, t, "success") => done[Key(j, t)] > 0 /\ Key(j, t) \in audited
       /\ done[Key(j, t)] > 0 /\ Key(j, t) \notin audited =>
            (stage[j] = "ran" /\ t = Head(todo[j])) \/ Has(j, t, "failed")

JobInv(j) == Follows(j) /\ Acted(j) /\ Truth(j)

RunInv == JobTypes /\ HubTypes /\ EnvTypes /\ \A j \in Jobs : JobInv(j)

(* A step of job j leaves the other jobs and their keys alone. *)
Only(j) ==
  /\ \A i \in Jobs \ {j} : /\ stage'[i] = stage[i] /\ attempt'[i] = attempt[i]
                           /\ todo'[i] = todo[i] /\ actions'[i] = actions[i]
  /\ \A i \in Jobs \ {j}, n \in 1..MaxRuns, t \in Tools :
       /\ done'[<<i, n, t>>] = done[<<i, n, t>>]
       /\ <<i, n, t>> \in audited' <=> <<i, n, t>> \in audited
       /\ <<i, n, t>> \in cache' <=> <<i, n, t>> \in cache

(* What holds of another job goes on holding. *)
LEMMA OthersKept ==
  ASSUME RunInv, NEW j \in Jobs, Only(j), NEW i \in Jobs, i # j
  PROVE  JobInv(i)'
<1>1. /\ stage'[i] = stage[i] /\ attempt'[i] = attempt[i]
      /\ todo'[i] = todo[i] /\ actions'[i] = actions[i]
  BY DEF Only
<1>2. Follows(i)'
  BY <1>1 DEF RunInv, JobInv, Follows, Live
<1>3. Acted(i)'
  BY <1>1 DEF RunInv, JobInv, Acted, Only
<1>4. ASSUME Live(i), NEW t \in Tools
      PROVE  /\ Key(i, t)' = Key(i, t) /\ done'[Key(i, t)] = done[Key(i, t)]
             /\ Key(i, t) \in audited' <=> Key(i, t) \in audited
             /\ Has(i, t, "success")' <=> Has(i, t, "success")
             /\ Has(i, t, "failed")' <=> Has(i, t, "failed")
  <2>1. attempt[i] \in 1..MaxRuns
    BY <1>4 DEF RunInv, JobInv, JobTypes, Follows, Live
  <2> QED
    BY <1>1, <2>1 DEF Only, Key, Has
<1>5. stage[i] = "ran" => Head(todo[i]) \in Tools /\ Live(i)
  BY HeadTailProperties DEF RunInv, JobInv, JobTypes, Follows, Live
<1>6. Truth(i)'
  BY <1>1, <1>4, <1>5 DEF RunInv, JobInv, Truth, Live
<1> QED
  BY <1>2, <1>3, <1>6 DEF JobInv

(* The executor records the outcome of the first tool that is left, which    *)
(* may have acted now or before, and may have been audited or not.           *)
RecordsOutcome(j, status) ==
  LET key == Key(j, Head(todo[j])) IN
  /\ stage[j] \in {"acting", "ran"} /\ todo[j] # <<>>
  /\ actions' = Recorded(j, status) /\ NextStep(j) /\ attempt' = attempt
  /\ stage' = [stage EXCEPT ![j] = "acting"]
  /\ \/ done' = done
     \/ done[key] = 0 /\ done' = [done EXCEPT ![key] = 1]
  /\ audited' = audited \/ audited' = audited \cup {key}
  /\ cache' = cache \/ (cache' = cache \cup {key} /\ key \in audited')
  /\ key \in audited' => done'[key] > 0
  /\ status = "success" => done'[key] > 0 /\ key \in audited'

(* Whatever the outcome is, recording it keeps the invariant: the tool that  *)
(* acted is dropped from what is left, and what is said of it is true.       *)
LEMMA RecordsKeeps ==
  ASSUME RunInv, NEW j \in Jobs, NEW status \in {"success", "failed"}, RecordsOutcome(j, status)
  PROVE  /\ JobInv(j)' /\ Only(j) /\ HubTypes'
         /\ todo' \in [Jobs -> Seq(Tools)] /\ actions' \in [Jobs -> Seq(Outcomes)]
<1>1. /\ todo[j] \in Seq(Tools) /\ todo[j] # <<>> /\ actions[j] \in Seq(Outcomes)
      /\ Follows(j) /\ Acted(j) /\ Truth(j) /\ Live(j) /\ attempt[j] \in 1..MaxRuns
      /\ stage[j] \in {"acting", "ran"}
  BY DEF RunInv, JobInv, JobTypes, RecordsOutcome, Follows, Live
<1>2. PICK h \in Tools : h = Head(todo[j]) /\ h = todo[j][1] /\ Len(todo[j]) \in Nat \ {0}
  BY <1>1, HeadTailProperties, EmptySeq
<1>8. PICK key \in Keys : key = Key(j, h) /\ key = <<j, attempt[j], h>>
  BY <1>1, <1>2 DEF Key, Keys
<1> DEFINE o == [tool |-> h, status |-> status]
<1>3. o \in Outcomes /\ o.tool = h
  BY <1>2 DEF Outcomes
<1>4. /\ Append(actions[j], o) \in Seq(Outcomes) /\ Tail(todo[j]) \in Seq(Tools)
      /\ ToolsOf(Append(actions[j], o)) \o Tail(todo[j]) = ToolsOf(actions[j]) \o todo[j]
      /\ Distinct(Tail(todo[j])) /\ \A a \in 1..Len(Tail(todo[j])) : Tail(todo[j])[a] # h
  BY <1>1, <1>2, <1>3, Progress DEF Follows
<1>5. /\ Len(Append(actions[j], o)) = Len(actions[j]) + 1 /\ Len(actions[j]) \in Nat
      /\ \A i \in 1..Len(actions[j]) : Append(actions[j], o)[i] = actions[j][i]
      /\ Append(actions[j], o)[Len(actions[j]) + 1] = o
  BY <1>1, <1>3, AppendProperties, LenProperties
<1>6. /\ Len(Tail(todo[j])) = Len(todo[j]) - 1
      /\ \A a \in 1..Len(Tail(todo[j])) : Tail(todo[j])[a] = todo[j][a + 1]
  BY <1>1, HeadTailProperties
<1>7. /\ stage' = [stage EXCEPT ![j] = "acting"] /\ attempt' = attempt
      /\ actions' = [actions EXCEPT ![j] = Append(actions[j], o)]
      /\ todo' = [todo EXCEPT ![j] = Tail(todo[j])]
      /\ (done' = done \/ (done[key] = 0 /\ done' = [done EXCEPT ![key] = 1]))
      /\ (audited' = audited \/ audited' = audited \cup {key})
      /\ (cache' = cache \/ (cache' = cache \cup {key} /\ key \in audited'))
      /\ key \in audited' => done'[key] > 0
      /\ status = "success" => done'[key] > 0 /\ key \in audited'
  BY <1>2, <1>8 DEF RecordsOutcome, Recorded, NextStep, o
<1> HIDE DEF o
<1>9. /\ stage'[j] = "acting" /\ todo'[j] = Tail(todo[j]) /\ actions'[j] = Append(actions[j], o)
      /\ \A i \in Jobs \ {j} : /\ stage'[i] = stage[i] /\ attempt'[i] = attempt[i]
                               /\ todo'[i] = todo[i] /\ actions'[i] = actions[i]
  BY <1>7 DEF RunInv, JobTypes
<1>10. HubTypes'
  <2>1. done' \in [Keys -> Nat]
    <3>1. done \in [Keys -> Nat]
      BY DEF RunInv, HubTypes
    <3>2. CASE done' = done
      BY <3>1, <3>2
    <3>3. CASE done' = [done EXCEPT ![key] = 1]
      BY <3>1, <3>3
    <3> QED
      BY <1>7, <3>2, <3>3
  <2>2. audited' \subseteq Keys
    BY <1>7, <1>8 DEF RunInv, HubTypes
  <2>3. cache' \subseteq Keys
    BY <1>7, <1>8 DEF RunInv, HubTypes
  <2> QED
    BY <2>1, <2>2, <2>3 DEF HubTypes
<1>11. \A k \in Keys : k # key => /\ done'[k] = done[k]
                                  /\ k \in audited' <=> k \in audited
                                  /\ k \in cache' <=> k \in cache
  BY <1>7 DEF RunInv, HubTypes
<1>12. done'[key] <= 1 /\ done'[key] >= done[key]
  BY <1>1, <1>2, <1>7, <1>8 DEF RunInv, HubTypes, Acted
<1>13. Only(j)
  BY <1>8, <1>9, <1>11 DEF Only, Keys
<1>14. Follows(j)'
  BY <1>1, <1>4, <1>7, <1>9 DEF Follows, Live
<1>15. Acted(j)'
  <2> SUFFICES ASSUME NEW n \in 1..MaxRuns, NEW t \in Tools
               PROVE  /\ done'[<<j, n, t>>] <= 1
                      /\ done'[<<j, n, t>>] > 0 => n <= attempt[j]
                      /\ done'[<<j, n, t>>] > 0 /\ n = attempt[j] =>
                           \A a \in 1..Len(todo'[j]) : todo'[j][a] # t
                      /\ <<j, n, t>> \in audited' => done'[<<j, n, t>>] > 0
                      /\ <<j, n, t>> \in cache' => <<j, n, t>> \in audited'
    BY <1>7 DEF Acted
  <2>1. CASE <<j, n, t>> = key
    <3>1. n = attempt[j] /\ t = h
      BY <1>8, <2>1
    <3>2. <<j, n, t>> \in cache' => <<j, n, t>> \in audited'
      BY <1>1, <1>2, <1>7, <2>1 DEF Acted
    <3>3. done'[<<j, n, t>>] <= 1 /\ (<<j, n, t>> \in audited' => done'[<<j, n, t>>] > 0)
      BY <1>7, <1>12, <2>1
    <3>4. n <= attempt[j] /\ \A a \in 1..Len(todo'[j]) : todo'[j][a] # t
      BY <1>1, <1>4, <1>9, <3>1
    <3> QED
      BY <3>2, <3>3, <3>4
  <2>2. CASE <<j, n, t>> # key
    <3>1. <<j, n, t>> \in Keys
      BY DEF Keys
    <3>2. /\ done[<<j, n, t>>] <= 1
          /\ done[<<j, n, t>>] > 0 => n <= attempt[j]
          /\ <<j, n, t>> \in audited => done[<<j, n, t>>] > 0
          /\ <<j, n, t>> \in cache => <<j, n, t>> \in audited
      BY <1>1 DEF Acted
    <3>3. ASSUME done[<<j, n, t>>] > 0, n = attempt[j], NEW a \in 1..Len(Tail(todo[j]))
          PROVE  Tail(todo[j])[a] # t
      <4>1. a + 1 \in 1..Len(todo[j]) /\ a + 1 # 1 /\ Tail(todo[j])[a] = todo[j][a + 1]
        BY <1>2, <1>6
      <4> QED
        BY <1>1, <3>3, <4>1 DEF Acted
    <3> QED
      BY <1>9, <1>11, <2>2, <3>1, <3>2, <3>3
  <2> QED
    BY <2>1, <2>2
<1>16. ASSUME NEW t \in Tools
       PROVE  /\ Has(j, t, "success")' => done'[Key(j, t)] > 0 /\ Key(j, t) \in audited'
              /\ done'[Key(j, t)] > 0 /\ Key(j, t) \notin audited' => Has(j, t, "failed")'
  <2>1. \A word : Has(j, t, word) => Has(j, t, word)'
    BY <1>5, <1>9 DEF Has
  <2>2. ASSUME Has(j, t, "success")'
        PROVE  Has(j, t, "success") \/ (t = h /\ status = "success")
    <3>1. PICK i \in 1..Len(actions[j]) + 1 :
            Append(actions[j], o)[i] = [tool |-> t, status |-> "success"]
      BY <1>5, <1>9, <2>2 DEF Has
    <3>2. CASE i \in 1..Len(actions[j])
      BY <1>5, <3>1, <3>2 DEF Has
    <3>3. CASE i = Len(actions[j]) + 1
      BY <1>5, <3>1, <3>3 DEF o
    <3> QED
      BY <1>5, <3>2, <3>3
  <2>3. Has(j, h, status)'
    <3>1. /\ Len(actions[j]) + 1 \in 1..Len(actions'[j])
          /\ actions'[j][Len(actions[j]) + 1] = [tool |-> h, status |-> status]
      BY <1>5, <1>9 DEF o
    <3> QED
      BY <3>1 DEF Has
  <2>4. Key(j, t) \in Keys /\ (Key(j, t) = key <=> t = h)
    BY <1>1, <1>8 DEF Key, Keys
  <2>5. CASE t = h
    <3>1. Has(j, t, "success") => done'[key] > 0 /\ key \in audited'
      BY <1>1, <1>7, <1>12, <2>4, <2>5 DEF Truth, RunInv, HubTypes
    <3>2. Has(j, t, "success")' => done'[key] > 0 /\ key \in audited'
      BY <1>7, <2>2, <3>1
    <3>3. status = "failed" => Has(j, t, "failed")'
      BY <2>3, <2>5
    <3> QED
      BY <1>7, <2>4, <2>5, <3>2, <3>3
  <2>6. CASE t # h
    BY <1>1, <1>11, <2>1, <2>2, <2>4, <2>6, <1>2 DEF Truth
  <2> QED
    BY <2>5, <2>6
<1>17. Truth(j)'
  BY <1>7, <1>9, <1>16 DEF Truth, Key
<1> QED
  BY <1>4, <1>7, <1>10, <1>13, <1>14, <1>15, <1>17 DEF JobInv, RunInv, JobTypes

(* A new execution has a trace id of its own, for which no tool has acted. *)
LEMMA BeginKeeps ==
  ASSUME RunInv, NEW j \in Jobs, Begin(j)
  PROVE  RunInv'
<1> DEFINE plan == IF Request[j].auto THEN Plan(Request[j]) ELSE <<>>
           first == IF Request[j].auto THEN <<>>
                    ELSE <<[tool |-> "policy_gate", status |-> "skipped"]>>
<1>1. attempt[j] \in 0..MaxRuns /\ attempt[j] < MaxRuns /\ MaxRuns \in Nat
  BY BoundAssumption DEF RunInv, JobTypes, Begin, MayRun
<1>2. Request[j] \in Requests
  BY RequestAssumption
<1>3. plan \in Seq(Tools) /\ Distinct(plan)
  <2>1. CASE Request[j].auto
    BY <1>2, <2>1, PlanFits
  <2>2. CASE ~Request[j].auto
    BY <2>2, EmptySeq DEF Distinct
  <2> QED
    BY <2>1, <2>2
<1>4. /\ first \in Seq(Outcomes)
      /\ \A i \in 1..Len(first) : first[i].status = "skipped"
      /\ Request[j].auto => ToolsOf(first) \o plan = plan
  <2>1. CASE Request[j].auto
    <3>1. first = <<>> /\ first \in Seq(Outcomes) /\ Len(first) = 0
      BY <2>1, EmptySeq
    <3>2. ToolsOf(first) \in Seq(Names) /\ Len(ToolsOf(first)) = 0
      BY <3>1, ToolsOfFits
    <3>3. ToolsOf(first) = <<>>
      BY <3>2, EmptySeq
    <3>4. <<>> \o plan = plan
      <4> HIDE DEF plan
      <4> QED
        BY <1>3, ConcatEmptySeq
    <3>5. \A i \in 1..Len(first) : first[i].status = "skipped"
      <4> HIDE DEF first
      <4> QED
        BY <3>1
    <3>6. ToolsOf(first) \o plan = plan
      BY <3>3, <3>4
    <3> QED
      BY <3>1, <3>5, <3>6
  <2>2. CASE ~Request[j].auto
    <3>1. [tool |-> "policy_gate", status |-> "skipped"] \in Outcomes
      BY DEF Outcomes
    <3> QED
      BY <2>2, <3>1
  <2> QED
    BY <2>1, <2>2
<1>5. /\ attempt' = [attempt EXCEPT ![j] = attempt[j] + 1]
      /\ todo' = [todo EXCEPT ![j] = plan] /\ actions' = [actions EXCEPT ![j] = first]
      /\ (stage' = [stage EXCEPT ![j] = "acting"] \/ stage' = [stage EXCEPT ![j] = "raised"])
      /\ before' = [before EXCEPT ![j] = Answered(Session(j))]
      /\ UNCHANGED <<hubVars, memVars, diskVars, saves, crashes>>
      /\ faults' = faults \/ faults' = faults + 1
  BY DEF Begin, Fault
<1> HIDE DEF plan, first
<1>6. Answered(Session(j)) \subseteq Traces
  <2>1. \A i \in Jobs : stage[i] = "answered" => attempt[i] \in 1..MaxRuns
    BY DEF RunInv, JobTypes, JobInv, Follows
  <2> QED
    BY <2>1 DEF Answered, Traces
<1>7. /\ stage'[j] \in {"acting", "raised"} /\ attempt'[j] = attempt[j] + 1
      /\ todo'[j] = plan /\ actions'[j] = first
      /\ \A i \in Jobs \ {j} : /\ stage'[i] = stage[i] /\ attempt'[i] = attempt[i]
                               /\ todo'[i] = todo[i] /\ actions'[i] = actions[i]
  BY <1>5 DEF RunInv, JobTypes
<1>8. JobTypes'
  <2>1. stage' \in [Jobs -> Idle \cup Active]
    <3>1. {"acting", "raised"} \subseteq Idle \cup Active /\ stage \in [Jobs -> Idle \cup Active]
      BY DEF RunInv, JobTypes, Idle, Active
    <3> QED
      BY <1>5, <3>1
  <2>4. attempt' \in [Jobs -> 0..MaxRuns]
    <3>1. attempt[j] + 1 \in 0..MaxRuns
      BY <1>1
    <3> QED
      BY <1>5, <3>1 DEF RunInv, JobTypes
  <2>2. todo' \in [Jobs -> Seq(Tools)] /\ actions' \in [Jobs -> Seq(Outcomes)]
    BY <1>3, <1>4, <1>5 DEF RunInv, JobTypes
  <2>3. before' \in [Jobs -> SUBSET Traces]
    BY <1>5, <1>6 DEF RunInv, JobTypes
  <2> QED
    BY <2>1, <2>2, <2>3, <2>4 DEF JobTypes
<1>9. HubTypes' /\ EnvTypes' /\ Only(j)
  BY <1>5, <1>7 DEF RunInv, HubTypes, EnvTypes, hubVars, memVars, diskVars, Only
<1>10. Follows(j)'
  <2>1. attempt'[j] >= 1 /\ stage'[j] # "ran"
    BY <1>1, <1>7
  <2>2. Distinct(todo[j])'
    BY <1>3, <1>7 DEF Distinct
  <2>3. Request[j].auto => ToolsOf(actions'[j]) \o todo'[j] = Plan(Request[j])
    BY <1>4, <1>7 DEF plan
  <2>4. (ToolsOf(actions[j]) \o todo[j])' = ToolsOf(actions'[j]) \o todo'[j]
    BY DEF ToolsOf
  <2> QED
    BY <2>1, <2>2, <2>3, <2>4 DEF Follows
<1>11. done' = done /\ audited' = audited /\ cache' = cache
  BY <1>5 DEF hubVars
<1>12. Acted(j)'
  <2>1. Acted(j)
    BY DEF RunInv, JobInv
  <2> QED
    BY <1>1, <1>7, <1>11, <2>1 DEF Acted
<1>13. Truth(j)'
  <2>1. ASSUME NEW t \in Tools
        PROVE  /\ ~(done[<<j, attempt[j] + 1, t>>] > 0)
               /\ ~Has(j, t, "success")'
    <3>1. ~Has(j, t, "success")'
      BY <1>4, <1>7 DEF Has
    <3>2. attempt[j] + 1 \in 1..MaxRuns /\ ~(attempt[j] + 1 <= attempt[j])
      BY <1>1
    <3>3. ~(done[<<j, attempt[j] + 1, t>>] > 0)
      BY <3>2 DEF RunInv, JobInv, Acted
    <3> QED
      BY <3>1, <3>3
  <2> QED
    BY <1>7, <1>11, <2>1 DEF Truth, Key
<1> QED
  BY <1>8, <1>9, <1>10, <1>12, <1>13, OthersKept DEF RunInv, JobInv

(* An execution that goes on without the hub keeps what it has recorded. *)
LEMMA PassKeeps ==
  ASSUME RunInv, NEW j \in Jobs, stage[j] \in {"acting", "composed", "remembered"},
         NEW next \in {"composed", "remembered", "answered", "raised"},
         stage' = [stage EXCEPT ![j] = next], UNCHANGED <<attempt, todo, actions, hubVars>>
  PROVE  JobInv(j)' /\ Only(j) /\ HubTypes' /\ stage' \in [Jobs -> Idle \cup Active]
<1>1. stage'[j] = next /\ stage' \in [Jobs -> Idle \cup Active]
  BY DEF RunInv, JobTypes, Idle, Active
<1>2. Only(j) /\ HubTypes'
  BY DEF RunInv, JobTypes, HubTypes, hubVars, Only
<1>3. Follows(j)'
  BY <1>1 DEF RunInv, JobInv, Follows, Live
<1>4. Acted(j)'
  BY <1>1 DEF RunInv, JobInv, Acted, hubVars
<1>5. Truth(j)'
  BY <1>1 DEF RunInv, JobInv, Truth, Live, Key, Has, hubVars
<1> QED
  BY <1>1, <1>2, <1>3, <1>4, <1>5 DEF JobInv

(* A remembered turn is a trace id. *)
LEMMA TurnTypes ==
  ASSUME NEW turns \in Seq(Traces), NEW turn \in Traces
  PROVE  Append(turns, turn) \in Seq(Traces) /\ Pushed(turns, turn) \in Seq(Traces)
<1>1. Append(turns, turn) \in Seq(Traces) /\ Append(turns, turn) # <<>>
  BY AppendProperties
<1> QED
  BY <1>1, HeadTailProperties DEF Pushed

(* The steps after the executor keep the invariant. *)
LEMMA PassesKeep ==
  ASSUME RunInv, NEW j \in Jobs, Compose(j) \/ Answer(j) \/ Conclude(j)
  PROVE  RunInv'
<1>1. CASE Compose(j)
  <2>1. JobInv(j)' /\ Only(j) /\ HubTypes' /\ stage' \in [Jobs -> Idle \cup Active]
    BY <1>1, PassKeeps DEF Compose
  <2>2. JobTypes' /\ EnvTypes'
    BY <1>1, <2>1 DEF Compose, RunInv, JobTypes, EnvTypes, memVars, diskVars, envVars
  <2> QED
    BY <2>1, <2>2, OthersKept DEF RunInv
<1>2. CASE Answer(j)
  <2>1. JobInv(j)' /\ Only(j) /\ HubTypes' /\ stage' \in [Jobs -> Idle \cup Active]
    BY <1>2, PassKeeps DEF Answer
  <2>2. Trace(j) \in Traces /\ Session(j) \in Sessions
    BY <1>2 DEF RunInv, JobInv, JobTypes, Follows, Answer, Trace, Traces, Sessions
  <2>3. short[Session(j)] \in Seq(Traces) /\ log[Session(j)] \in Seq(Traces)
    BY <2>2 DEF RunInv, EnvTypes
  <2>4. JobTypes' /\ EnvTypes'
    BY <1>2, <2>1, <2>2, <2>3, TurnTypes DEF Answer, RunInv, JobTypes, EnvTypes, diskVars, envVars
  <2> QED
    BY <2>1, <2>4, OthersKept DEF RunInv
<1>3. CASE Conclude(j)
  <2>1. PICK next \in {"answered", "raised"} : stage' = [stage EXCEPT ![j] = next]
    BY <1>3 DEF Conclude
  <2>2. JobInv(j)' /\ Only(j) /\ HubTypes' /\ stage' \in [Jobs -> Idle \cup Active]
    BY <1>3, <2>1, PassKeeps DEF Conclude
  <2>3. JobTypes' /\ EnvTypes'
    BY <1>3, <2>2 DEF Conclude, Fault, RunInv, JobTypes, EnvTypes, memVars, diskVars
  <2> QED
    BY <2>2, <2>3, OthersKept DEF RunInv
<1> QED
  BY <1>1, <1>2, <1>3

(* The tool that comes next has not acted for this trace id, so the cache    *)
(* does not answer for it.                                                   *)
LEMMA NextIsNew ==
  ASSUME RunInv, NEW j \in Jobs, stage[j] = "acting", todo[j] # <<>>
  PROVE  /\ Head(todo[j]) \in Tools /\ Key(j, Head(todo[j])) \in Keys
         /\ done[Key(j, Head(todo[j]))] = 0
         /\ Key(j, Head(todo[j])) \notin audited /\ Key(j, Head(todo[j])) \notin cache
<1>1. /\ todo[j] \in Seq(Tools) /\ attempt[j] \in 1..MaxRuns /\ Acted(j)
      /\ done \in [Keys -> Nat]
  BY DEF RunInv, JobInv, JobTypes, HubTypes, Follows
<1>2. PICK h \in Tools : h = Head(todo[j]) /\ h = todo[j][1] /\ Len(todo[j]) \in Nat \ {0}
  BY <1>1, HeadTailProperties, EmptySeq
<1>3. PICK key \in Keys : key = Key(j, h) /\ key = <<j, attempt[j], h>>
  BY <1>1, <1>2 DEF Key, Keys
<1>4. ~(done[key] > 0)
  <2>1. 1 \in 1..Len(todo[j])
    BY <1>2
  <2> QED
    BY <1>1, <1>2, <1>3, <2>1 DEF Acted
<1>5. done[key] = 0
  BY <1>1, <1>4
<1>6. key \notin audited /\ key \notin cache
  BY <1>1, <1>3, <1>4 DEF Acted
<1> QED
  BY <1>2, <1>3, <1>5, <1>6

(* A tool that has run and is not audited yet is the only one whose effect   *)
(* is not recorded.                                                          *)
LEMMA RanKeeps ==
  ASSUME RunInv, NEW j \in Jobs, stage[j] = "acting", todo[j] # <<>>,
         done' = [done EXCEPT ![Key(j, Head(todo[j]))] = @ + 1],
         stage' = [stage EXCEPT ![j] = "ran"],
         UNCHANGED <<attempt, todo, actions, cache, audited>>
  PROVE  JobInv(j)' /\ Only(j) /\ HubTypes' /\ stage' \in [Jobs -> Idle \cup Active]
<1>1. /\ Follows(j) /\ Acted(j) /\ Truth(j) /\ attempt[j] \in 1..MaxRuns
      /\ todo[j] \in Seq(Tools) /\ done \in [Keys -> Nat] /\ Live(j)
      /\ stage \in [Jobs -> Idle \cup Active]
  BY DEF RunInv, JobInv, JobTypes, HubTypes, Follows, Live
<1>2. PICK h \in Tools : h = Head(todo[j]) /\ h = todo[j][1] /\ Len(todo[j]) \in Nat \ {0}
  BY <1>1, HeadTailProperties, EmptySeq
<1>3. PICK key \in Keys : key = Key(j, h) /\ key = <<j, attempt[j], h>>
  BY <1>1, <1>2 DEF Key, Keys
<1>4. done[key] = 0 /\ key \notin audited /\ key \notin cache
  BY <1>2, <1>3, NextIsNew
<1>5. done' = [done EXCEPT ![key] = 1]
  <2>1. done' = [done EXCEPT ![key] = done[key] + 1]
    BY <1>2, <1>3
  <2>2. done[key] + 1 = 1
    BY <1>4
  <2> QED
    BY <2>1, <2>2
<1>6. stage'[j] = "ran" /\ stage' \in [Jobs -> Idle \cup Active]
  BY <1>1 DEF Active
<1>7. \A k \in Keys : k # key => done'[k] = done[k]
  BY <1>1, <1>5
<1>8. done'[key] = 1 /\ done' \in [Keys -> Nat]
  <2>1. 1 \in Nat
    OBVIOUS
  <2>2. done' \in [Keys -> Nat]
    BY <1>1, <1>5, <2>1
  <2>3. done'[key] = 1
    BY <1>1, <1>5
  <2> QED
    BY <2>2, <2>3
<1>9. HubTypes'
  BY <1>8 DEF RunInv, HubTypes
<1>10. Only(j)
  <2>1. \A i \in Jobs \ {j} : stage'[i] = stage[i]
    BY <1>1
  <2>2. \A i \in Jobs \ {j}, n \in 1..MaxRuns, t \in Tools : <<i, n, t>> \in Keys /\ <<i, n, t>> # key
    BY <1>3 DEF Keys
  <2> QED
    BY <1>7, <2>1, <2>2 DEF Only
<1>11. Follows(j)'
  <2>1. Live(j)' /\ stage[j] # "new"
    BY <1>6 DEF Live
  <2> QED
    BY <1>1, <2>1 DEF Follows
<1>12. Acted(j)'
  <2> SUFFICES ASSUME NEW n \in 1..MaxRuns, NEW t \in Tools
               PROVE  /\ done'[<<j, n, t>>] <= 1
                      /\ done'[<<j, n, t>>] > 0 => n <= attempt[j]
                      /\ done'[<<j, n, t>>] > 0 /\ n = attempt[j] =>
                           \A a \in 1..Len(todo[j]) : todo[j][a] = t => a = 1
                      /\ <<j, n, t>> \in audited => done'[<<j, n, t>>] > 0
                      /\ <<j, n, t>> \in cache => <<j, n, t>> \in audited
    BY <1>6 DEF Acted
  <2>1. CASE <<j, n, t>> = key
    <3>1. n = attempt[j] /\ t = h
      BY <1>3, <2>1
    <3>2. \A a \in 1..Len(todo[j]) : todo[j][a] = t => a = 1
      BY <1>1, <1>2, <3>1 DEF Follows, Distinct
    <3>3. n <= attempt[j]
      BY <1>1, <3>1
    <3> QED
      BY <1>4, <1>8, <2>1, <3>2, <3>3
  <2>2. CASE <<j, n, t>> # key
    <3>1. <<j, n, t>> \in Keys
      BY DEF Keys
    <3> QED
      BY <1>1, <1>7, <2>2, <3>1 DEF Acted
  <2> QED
    BY <2>1, <2>2
<1>13. Truth(j)'
  <2>1. done'[Key(j, Head(todo[j]))] > 0
    BY <1>2, <1>3, <1>8
  <2>2. ASSUME NEW t \in Tools
        PROVE  /\ Has(j, t, "success") => done'[Key(j, t)] > 0 /\ Key(j, t) \in audited
               /\ done'[Key(j, t)] > 0 /\ Key(j, t) \notin audited =>
                    t = Head(todo[j]) \/ Has(j, t, "failed")
    <3>1. CASE t = h
      BY <1>1, <1>2, <1>3, <1>8, <3>1 DEF Truth
    <3>2. CASE t # h
      <4>1. Key(j, t) \in Keys /\ Key(j, t) # key
        BY <1>1, <1>3, <3>2 DEF Key, Keys
      <4> QED
        BY <1>1, <1>2, <1>7, <3>2, <4>1 DEF Truth
    <3> QED
      BY <3>1, <3>2
  <2>3. Key(j, Head(todo[j]))' = Key(j, Head(todo[j]))
        /\ \A t \in Tools : /\ Key(j, t)' = Key(j, t)
                            /\ Has(j, t, "success")' <=> Has(j, t, "success")
                            /\ Has(j, t, "failed")' <=> Has(j, t, "failed")
    BY DEF Key, Has
  <2> QED
    BY <1>6, <2>1, <2>2, <2>3 DEF Truth
<1> QED
  BY <1>6, <1>9, <1>10, <1>11, <1>12, <1>13 DEF JobInv

(* The hub's steps keep the invariant. *)
LEMMA HubKeeps ==
  ASSUME RunInv, NEW j \in Jobs, Invoke(j) \/ AuditTool(j)
  PROVE  RunInv'
<1> DEFINE key == Key(j, Head(todo[j]))
<1>1. /\ stage \in [Jobs -> Idle \cup Active] /\ attempt \in [Jobs -> 0..MaxRuns]
      /\ before \in [Jobs -> SUBSET Traces] /\ done \in [Keys -> Nat] /\ EnvTypes
      /\ todo \in [Jobs -> Seq(Tools)] /\ actions \in [Jobs -> Seq(Outcomes)]
  BY DEF RunInv, JobTypes, HubTypes
<1>2. ASSUME NEW status \in {"success", "failed"}, RecordsOutcome(j, status),
             before' = before, EnvTypes'
      PROVE  RunInv'
  <2>1. JobInv(j)' /\ Only(j) /\ HubTypes'
        /\ todo' \in [Jobs -> Seq(Tools)] /\ actions' \in [Jobs -> Seq(Outcomes)]
    BY <1>2, RecordsKeeps
  <2>2. stage' \in [Jobs -> Idle \cup Active] /\ attempt' = attempt
    BY <1>1, <1>2 DEF RecordsOutcome, Active
  <2> QED
    BY <1>1, <1>2, <2>1, <2>2, OthersKept DEF RunInv, JobTypes
<1>3. CASE Invoke(j)
  <2>1. /\ stage[j] = "acting" /\ todo[j] # <<>>
        /\ UNCHANGED <<attempt, before, cache, audited, memVars, diskVars, envVars>>
    BY <1>3 DEF Invoke
  <2>2. EnvTypes'
    BY <1>1, <2>1 DEF EnvTypes, memVars, diskVars, envVars
  <2>3. key \in Keys /\ done[key] = 0 /\ key \notin audited /\ key \notin cache
    BY <2>1, NextIsNew
  <2> HIDE DEF key
  <2>4. \/ /\ done' = [done EXCEPT ![key] = @ + 1]
           /\ stage' = [stage EXCEPT ![j] = "ran"] /\ UNCHANGED <<todo, actions>>
        \/ \E times \in {0, 1} : /\ done' = [done EXCEPT ![key] = @ + times]
                                 /\ actions' = Recorded(j, "failed") /\ NextStep(j)
                                 /\ stage' = stage
    BY <1>3, <2>3 DEF Invoke, key
  <2>5. CASE /\ done' = [done EXCEPT ![key] = @ + 1]
             /\ stage' = [stage EXCEPT ![j] = "ran"] /\ UNCHANGED <<todo, actions>>
    <3>1. JobInv(j)' /\ Only(j) /\ HubTypes' /\ stage' \in [Jobs -> Idle \cup Active]
      BY <2>1, <2>5, RanKeeps DEF key
    <3> QED
      BY <1>1, <2>1, <2>2, <2>5, <3>1, OthersKept DEF RunInv, JobTypes
  <2>6. ASSUME NEW times \in {0, 1}, done' = [done EXCEPT ![key] = @ + times],
               actions' = Recorded(j, "failed"), NextStep(j), stage' = stage
        PROVE  RunInv'
    <3>1. stage' = [stage EXCEPT ![j] = "acting"]
      BY <1>1, <2>1, <2>6
    <3>2. done' = done \/ done' = [done EXCEPT ![key] = 1]
      <4>1. done' = [done EXCEPT ![key] = done[key] + times]
        BY <2>6
      <4>2. CASE times = 0
        <5>1. done[key] + times = done[key]
          BY <2>3, <4>2
        <5> QED
          BY <1>1, <4>1, <5>1
      <4>3. CASE times = 1
        <5>1. done[key] + times = 1
          BY <2>3, <4>3
        <5> QED
          BY <4>1, <5>1
      <4> QED
        BY <2>6, <4>2, <4>3
    <3>3. RecordsOutcome(j, "failed")
      BY <2>1, <2>3, <2>6, <3>1, <3>2 DEF RecordsOutcome, key
    <3> QED
      BY <1>2, <2>1, <2>2, <3>3
  <2> QED
    BY <2>4, <2>5, <2>6
<1>4. CASE AuditTool(j)
  <2>1. /\ stage[j] = "ran" /\ stage' = [stage EXCEPT ![j] = "acting"] /\ NextStep(j)
        /\ UNCHANGED <<attempt, before, done, memVars, diskVars, saves, crashes>>
        /\ faults' = faults \/ faults' = faults + 1
    BY <1>4 DEF AuditTool, Fault
  <2>2. EnvTypes'
    BY <1>1, <2>1 DEF EnvTypes, memVars, diskVars
  <2>3. todo[j] # <<>> /\ done[key] > 0
    BY <2>1 DEF RunInv, JobInv, Follows, Truth
  <2> HIDE DEF key
  <2>4. \/ /\ audited' = audited \cup {key} /\ (cache' = cache \cup {key} \/ cache' = cache)
           /\ actions' = Recorded(j, "success")
        \/ actions' = Recorded(j, "failed") /\ audited' = audited /\ cache' = cache
    BY <1>4 DEF AuditTool, key
  <2>5. CASE /\ audited' = audited \cup {key} /\ (cache' = cache \cup {key} \/ cache' = cache)
             /\ actions' = Recorded(j, "success")
    <3>1. RecordsOutcome(j, "success")
      BY <2>1, <2>3, <2>5 DEF RecordsOutcome, key
    <3> QED
      BY <1>2, <2>1, <2>2, <3>1
  <2>6. CASE actions' = Recorded(j, "failed") /\ audited' = audited /\ cache' = cache
    <3>1. RecordsOutcome(j, "failed")
      BY <2>1, <2>3, <2>6 DEF RecordsOutcome, key
    <3> QED
      BY <1>2, <2>1, <2>2, <3>1
  <2> QED
    BY <2>4, <2>5, <2>6
<1> QED
  BY <1>3, <1>4

(* The process dies: nobody has a tool left to invoke. *)
LEMMA CrashKeeps ==
  ASSUME RunInv, Crash
  PROVE  RunInv'
<1>1. /\ stage' = [j \in Jobs |-> IF stage[j] = "new" THEN "new" ELSE "gone"]
      /\ todo' = [j \in Jobs |-> <<>>] /\ actions' = [j \in Jobs |-> <<>>]
      /\ before' = [j \in Jobs |-> {}] /\ cache' = {}
      /\ short' = [s \in DOMAIN short |-> <<>>] /\ log' = [s \in DOMAIN log |-> <<>>]
      /\ crashes' = crashes + 1 /\ writing' = FALSE
      /\ UNCHANGED <<attempt, done, audited, torn, faults, saves>>
  BY DEF Crash
<1>2. JobTypes'
  <2>1. stage' \in [Jobs -> Idle \cup Active]
    BY <1>1 DEF Idle
  <2>2. todo' \in [Jobs -> Seq(Tools)] /\ actions' \in [Jobs -> Seq(Outcomes)]
    BY <1>1, EmptySeq
  <2> QED
    BY <1>1, <2>1, <2>2 DEF RunInv, JobTypes
<1>3. HubTypes'
  BY <1>1 DEF RunInv, HubTypes
<1>4. EnvTypes'
  <2>1. DOMAIN short = Sessions /\ DOMAIN log = Sessions
    BY DEF RunInv, EnvTypes
  <2>2. short' \in [Sessions -> Seq(Traces)] /\ log' \in [Sessions -> Seq(Traces)]
    BY <1>1, <2>1, EmptySeq
  <2>3. crashes' \in Nat
    BY <1>1 DEF RunInv, EnvTypes
  <2>4. writing' \in BOOLEAN
    BY <1>1
  <2> QED
    BY <1>1, <2>2, <2>3, <2>4 DEF RunInv, EnvTypes
<1>5. ASSUME NEW j \in Jobs
      PROVE  JobInv(j)'
  <2>1. /\ stage'[j] \in {"new", "gone"} /\ (stage'[j] = "new" <=> stage[j] = "new")
        /\ todo'[j] = <<>> /\ Len(todo'[j]) = 0
    BY <1>1, EmptySeq
  <2>2. Follows(j) /\ Acted(j)
    BY DEF RunInv, JobInv
  <2>3. Follows(j)'
    BY <1>1, <2>1, <2>2 DEF Follows, Live, Distinct
  <2>4. Acted(j)'
    BY <1>1, <2>1, <2>2 DEF Acted
  <2>5. Truth(j)'
    BY <2>1 DEF Truth, Live
  <2> QED
    BY <2>3, <2>4, <2>5 DEF JobInv
<1> QED
  BY <1>2, <1>3, <1>4, <1>5 DEF RunInv

(* What no execution is touched by keeps what holds of all. *)
LEMMA Untouched ==
  ASSUME RunInv, EnvTypes', UNCHANGED <<jobVars, hubVars>>
  PROVE  RunInv'
<1>1. JobTypes' /\ HubTypes'
  BY DEF RunInv, JobTypes, HubTypes, jobVars, hubVars
<1>2. ASSUME NEW j \in Jobs
      PROVE  JobInv(j)'
  <2>1. JobInv(j)
    BY DEF RunInv
  <2> QED
    BY <2>1 DEF JobInv, Follows, Acted, Truth, Live, Has, Key, jobVars, hubVars
<1> QED
  BY <1>1, <1>2 DEF RunInv

(* The invariant holds at the start and is kept by every step. *)
LEMMA RunInvHolds == Spec => []RunInv
<1>1. Init => RunInv
  <2> SUFFICES ASSUME Init
               PROVE  RunInv
    OBVIOUS
  <2>1. JobTypes
    BY BoundAssumption, EmptySeq DEF Init, JobTypes, Idle
  <2>2. HubTypes
    BY DEF Init, HubTypes
  <2>3. EnvTypes
    BY EmptySeq DEF Init, EnvTypes, Sessions
  <2>4. ASSUME NEW j \in Jobs
        PROVE  JobInv(j)
    <3>1. stage[j] = "new" /\ attempt[j] = 0 /\ todo[j] = <<>> /\ Len(todo[j]) = 0
      BY EmptySeq DEF Init
    <3>2. Follows(j)
      BY <3>1 DEF Follows, Live, Distinct
    <3>3. \A n \in 1..MaxRuns, t \in Tools : <<j, n, t>> \in Keys
      BY DEF Keys
    <3>4. Acted(j)
      BY <3>3 DEF Init, Acted
    <3>5. Truth(j)
      BY <3>1 DEF Truth, Live
    <3> QED
      BY <3>2, <3>4, <3>5 DEF JobInv
  <2> QED
    BY <2>1, <2>2, <2>3, <2>4 DEF RunInv
<1>2. RunInv /\ [Next]_vars => RunInv'
  <2> SUFFICES ASSUME RunInv, [Next]_vars
               PROVE  RunInv'
    OBVIOUS
  <2>1. CASE \E j \in Jobs : JobStep(j)
    <3> SUFFICES ASSUME NEW j \in Jobs, JobStep(j)
                 PROVE  RunInv'
      BY <2>1
    <3> QED
      BY BeginKeeps, HubKeeps, PassesKeep DEF JobStep
  <2>2. CASE SaveSkill
    <3>1. EnvTypes'
      BY <2>2 DEF SaveSkill, RunInv, EnvTypes, memVars
    <3> QED
      BY <2>2, <3>1, Untouched DEF SaveSkill
  <2>3. CASE SkillSaved
    <3>1. EnvTypes'
      BY <2>3 DEF SkillSaved, RunInv, EnvTypes, memVars, envVars
    <3> QED
      BY <2>3, <3>1, Untouched DEF SkillSaved
  <2>4. CASE Crash
    BY <2>4, CrashKeeps
  <2>5. CASE UNCHANGED vars
    <3>1. EnvTypes' /\ UNCHANGED <<jobVars, hubVars>>
      BY <2>5 DEF vars, RunInv, EnvTypes, memVars, diskVars, envVars
    <3> QED
      BY <3>1, Untouched
  <2> QED
    BY <2>1, <2>2, <2>3, <2>4, <2>5 DEF Next
<1> QED
  BY <1>1, <1>2, PTL DEF Spec
------------------------------------------------------------------------------
(* Types, and what is recorded together with what is left makes up the plan  *)
(* of the request: executor.py appends one action for each step in order.    *)
THEOREM ExecutionFollowsPlan == Spec => []TypeOK
<1>1. RunInv => TypeOK
  <2> SUFFICES ASSUME RunInv
               PROVE  TypeOK
    OBVIOUS
  <2>1. DOMAIN short = Sessions
    BY DEF RunInv, EnvTypes
  <2>2. /\ short \in [{Session(j) : j \in Jobs} -> Seq(Traces)]
        /\ log \in [DOMAIN short -> Seq(Traces)]
    BY <2>1 DEF RunInv, EnvTypes, Sessions
  <2>3. {faults, saves, crashes} \subseteq Nat /\ torn \in BOOLEAN /\ writing \in BOOLEAN
    BY DEF RunInv, EnvTypes
  <2>4. \A j \in Jobs : stage[j] \notin {"new", "gone"} /\ Request[j].auto =>
          ToolsOf(actions[j]) \o todo[j] = Plan(Request[j])
    BY DEF RunInv, JobInv, Follows, Live
  <2> QED
    BY <2>2, <2>3, <2>4 DEF TypeOK, RunInv, JobTypes, HubTypes
<1> QED
  BY <1>1, RunInvHolds, PTL

(* A tool has its side effect at most once in an execution (hub.py:58 and    *)
(* the loop of executor.py), whatever fails, is refused or is run again.     *)
THEOREM ToolsActOnce == Spec => []OncePerRun
<1>1. RunInv => OncePerRun
  BY DEF RunInv, JobInv, Acted, OncePerRun, Keys
<1> QED
  BY <1>1, RunInvHolds, PTL

(* An outcome that is recorded with a status. *)
LEMMA StatusIsHad ==
  ASSUME RunInv, NEW j \in Jobs, NEW t \in Tools, NEW status \in {"success", "failed"}
  PROVE  status \in Statuses(j, t) <=> Has(j, t, status)
<1>1. actions[j] \in Seq(Outcomes)
  BY DEF RunInv, JobTypes
<1>2. DOMAIN actions[j] = 1..Len(actions[j]) /\ \A i \in 1..Len(actions[j]) : actions[j][i] \in Outcomes
  BY <1>1, LenProperties, ElementOfSeq
<1>3. ASSUME status \in Statuses(j, t)
      PROVE  Has(j, t, status)
  <2>1. PICK b \in Range(actions[j]) : b.tool = t /\ b.status = status
    BY <1>3 DEF Statuses
  <2>2. PICK i \in 1..Len(actions[j]) : actions[j][i] = b
    BY <1>2, <2>1 DEF Range
  <2>3. b = [tool |-> t, status |-> status]
    BY <1>2, <2>1, <2>2 DEF Outcomes
  <2> QED
    BY <2>2, <2>3 DEF Has
<1>4. ASSUME Has(j, t, status)
      PROVE  status \in Statuses(j, t)
  <2>1. PICK i \in 1..Len(actions[j]) : actions[j][i] = [tool |-> t, status |-> status]
    BY <1>4 DEF Has
  <2>2. actions[j][i] \in Range(actions[j])
    BY <1>2 DEF Range
  <2> QED
    BY <2>1, <2>2 DEF Statuses
<1> QED
  BY <1>3, <1>4

(* What the client is told of the tools is true of this execution: a success *)
(* has acted and is audited, and what acted without an audit line is told as *)
(* failed (hub.py, executor.py).                                             *)
THEOREM ActionsAreTrue == Spec => []ReportedTruly
<1>1. RunInv => ReportedTruly
  <2> SUFFICES ASSUME RunInv, NEW j \in Jobs, stage[j] = "answered", NEW t \in Tools
               PROVE  /\ "success" \in Statuses(j, t) => done[Key(j, t)] > 0 /\ Key(j, t) \in audited
                      /\ done[Key(j, t)] > 0 /\ Key(j, t) \notin audited => "failed" \in Statuses(j, t)
    BY DEF ReportedTruly
  <2>1. Truth(j) /\ Live(j)
    BY DEF RunInv, JobInv, Live
  <2> QED
    BY <2>1, StatusIsHad DEF Truth
<1> QED
  BY <1>1, RunInvHolds, PTL
------------------------------------------------------------------------------
(* The remembered turns are the end of the log, which they are short of only *)
(* when there are MaxTurns of them.                                          *)
WindowOf(turns, all) ==
  /\ Len(turns) <= Len(all) /\ Len(turns) <= MaxTurns
  /\ Len(turns) < Len(all) => Len(turns) = MaxTurns
  /\ \A i \in 1..Len(turns) : turns[i] = all[Len(all) - Len(turns) + i]

In(turn, s) == \E i \in 1..Len(log[s]) : log[s][i] = turn

(* The log of a session has no turn twice, and none of an execution that has *)
(* not been answered; it has the turns of those that were.                   *)
Remembers(s) ==
  /\ WindowOf(short[s], log[s]) /\ Distinct(log[s])
  /\ \A j \in Jobs, n \in 1..MaxRuns : In(<<j, n>>, s) =>
       n <= attempt[j] /\ (n = attempt[j] => stage[j] \notin {"acting", "ran", "composed"})

Reads(j) ==
  /\ \A turn \in before[j] : In(turn, Session(j))
  /\ stage[j] \in {"remembered", "answered"} => In(Trace(j), Session(j))

MemInv == (\A s \in Sessions : Remembers(s)) /\ (\A j \in Jobs : Reads(j))

(* A turn that is pushed leaves a window of the log it is appended to. *)
LEMMA PushedWindow ==
  ASSUME NEW turns \in Seq(Traces), NEW all \in Seq(Traces), NEW turn \in Traces,
         WindowOf(turns, all)
  PROVE  WindowOf(Pushed(turns, turn), Append(all, turn))
<1> DEFINE longer == Append(turns, turn)
           total  == Append(all, turn)
<1>1. /\ longer \in Seq(Traces) /\ Len(longer) = Len(turns) + 1 /\ Len(turns) \in Nat
      /\ \A i \in 1..Len(turns) : longer[i] = turns[i]
      /\ longer[Len(turns) + 1] = turn
  BY AppendProperties, LenProperties
<1>2. /\ Len(total) = Len(all) + 1 /\ Len(all) \in Nat
      /\ \A i \in 1..Len(all) : total[i] = all[i]
      /\ total[Len(all) + 1] = turn
  BY AppendProperties, LenProperties
<1>3. longer # <<>>
  BY <1>1, EmptySeq
<1>4. Pushed(turns, turn) = IF Len(longer) > MaxTurns THEN Tail(longer) ELSE longer
  BY DEF Pushed
<1>5. MaxTurns \in Nat \ {0}
  BY BoundAssumption
<1> HIDE DEF longer, total
<1>6. ASSUME NEW i \in 1..Len(turns) + 1
      PROVE  longer[i] = total[Len(all) - Len(turns) + i]
  <2>1. CASE i \in 1..Len(turns)
    <3>1. turns[i] = all[Len(all) - Len(turns) + i] /\ Len(all) - Len(turns) + i \in 1..Len(all)
      BY <1>1, <1>2, <2>1 DEF WindowOf
    <3> QED
      BY <1>1, <1>2, <2>1, <3>1
  <2>2. CASE i = Len(turns) + 1
    <3>1. Len(all) - Len(turns) + i = Len(all) + 1
      BY <1>1, <1>2, <2>2
    <3> QED
      BY <1>1, <1>2, <2>2, <3>1
  <2> QED
    BY <1>1, <2>1, <2>2
<1>7. CASE Len(longer) > MaxTurns
  <2>8. PICK rest \in Seq(Traces) :
          /\ rest = Tail(longer) /\ Len(rest) = Len(longer) - 1
          /\ \A i \in 1..Len(longer) - 1 : rest[i] = longer[i + 1]
    <3>1. /\ Tail(longer) \in Seq(Traces) /\ Len(Tail(longer)) = Len(longer) - 1
          /\ \A i \in 1..Len(Tail(longer)) : Tail(longer)[i] = longer[i + 1]
      BY <1>1, <1>3, HeadTailProperties
    <3> QED
      BY <3>1
  <2>1. /\ rest = Tail(longer) /\ Len(rest) = Len(turns)
        /\ \A i \in 1..Len(turns) : rest[i] = longer[i + 1]
    <3>1. Len(longer) - 1 = Len(turns)
      BY <1>1
    <3> QED
      BY <2>8, <3>1
  <2>2. Len(turns) = MaxTurns
    BY <1>1, <1>5, <1>7 DEF WindowOf
  <2>3. ASSUME NEW i \in 1..Len(turns)
        PROVE  rest[i] = total[Len(all) + 1 - Len(turns) + i]
    <3>1. i + 1 \in 1..Len(turns) + 1
          /\ Len(all) - Len(turns) + (i + 1) = Len(all) + 1 - Len(turns) + i
      BY <1>1, <1>2
    <3>2. longer[i + 1] = total[Len(all) - Len(turns) + (i + 1)]
      BY <1>6, <3>1
    <3> QED
      BY <2>1, <3>1, <3>2
  <2>6. Len(total) = Len(all) + 1 /\ Len(rest) = Len(turns)
    BY <1>2, <2>1
  <2>4. \A i \in 1..Len(rest) : rest[i] = total[Len(total) - Len(rest) + i]
    <3> SUFFICES ASSUME NEW i \in 1..Len(rest)
                 PROVE  rest[i] = total[Len(total) - Len(rest) + i]
      OBVIOUS
    <3>1. i \in 1..Len(turns)
      BY <2>6
    <3>2. Len(total) - Len(rest) + i = Len(all) + 1 - Len(turns) + i
      BY <2>6
    <3> QED
      BY <2>3, <3>1, <3>2
  <2>7. /\ Len(rest) <= Len(total) /\ Len(rest) <= MaxTurns
        /\ Len(rest) = MaxTurns
    <3>1. Len(turns) <= Len(all)
      BY DEF WindowOf
    <3>2. PICK k \in Nat, n \in Nat : k = Len(turns) /\ n = Len(all)
      BY <1>1, <1>2
    <3>3. k <= n + 1
      BY <3>1, <3>2
    <3> QED
      BY <1>5, <2>2, <2>6, <3>2, <3>3
  <2>5. WindowOf(rest, total)
    BY <2>4, <2>7 DEF WindowOf
  <2> QED
    BY <1>4, <1>7, <2>1, <2>5 DEF total
<1>8. CASE ~(Len(longer) > MaxTurns)
  <2>1. Len(turns) + 1 <= MaxTurns /\ Len(turns) = Len(all)
    BY <1>1, <1>2, <1>5, <1>8 DEF WindowOf
  <2>2. ASSUME NEW i \in 1..Len(longer)
        PROVE  longer[i] = total[Len(total) - Len(longer) + i]
    <3>1. Len(total) - Len(longer) + i = Len(all) - Len(turns) + i
      BY <1>1, <1>2
    <3> QED
      BY <1>1, <1>6, <3>1
  <2>3. /\ Len(longer) <= Len(total) /\ Len(longer) <= MaxTurns
        /\ ~(Len(longer) < Len(total))
    BY <1>1, <1>2, <2>1
  <2>4. WindowOf(longer, total)
    BY <2>2, <2>3 DEF WindowOf
  <2> QED
    BY <1>4, <1>8, <2>4 DEF total
<1> QED
  BY <1>7, <1>8

(* A log that has no turn twice gets another one. *)
LEMMA StillDistinct ==
  ASSUME NEW all \in Seq(Traces), NEW turn \in Traces, Distinct(all),
         \A i \in 1..Len(all) : all[i] # turn
  PROVE  Distinct(Append(all, turn))
<1>1. /\ Len(Append(all, turn)) = Len(all) + 1 /\ Len(all) \in Nat
      /\ \A i \in 1..Len(all) : Append(all, turn)[i] = all[i]
      /\ Append(all, turn)[Len(all) + 1] = turn
  BY AppendProperties, LenProperties
<1> DEFINE total == Append(all, turn)
<1> HIDE DEF total
<1>2. ASSUME NEW a \in 1..Len(all) + 1, NEW b \in 1..Len(all) + 1, total[a] = total[b]
      PROVE  a = b
  <2>1. CASE a \in 1..Len(all) /\ b \in 1..Len(all)
    BY <1>1, <1>2, <2>1 DEF Distinct, total
  <2>2. CASE a = Len(all) + 1 /\ b \in 1..Len(all)
    BY <1>1, <1>2, <2>2 DEF total
  <2>3. CASE b = Len(all) + 1 /\ a \in 1..Len(all)
    BY <1>1, <1>2, <2>3 DEF total
  <2>4. CASE a = Len(all) + 1 /\ b = Len(all) + 1
    BY <2>4
  <2> QED
    BY <1>1, <2>1, <2>2, <2>3, <2>4
<1> QED
  BY <1>1, <1>2 DEF Distinct, total

(* A step that leaves the memory alone and answers nobody. *)
Quiet ==
  /\ short' = short /\ log' = log
  /\ \A j \in Jobs :
       \/ attempt'[j] = attempt[j] /\ stage'[j] = stage[j]
       \/ /\ attempt'[j] = attempt[j] /\ stage[j] \in {"acting", "ran", "composed"}
          /\ stage'[j] \notin {"remembered", "answered"}
       \/ /\ attempt'[j] = attempt[j] /\ stage[j] = "remembered"
          /\ stage'[j] \in {"answered", "raised"}
       \/ attempt'[j] = attempt[j] + 1 /\ stage'[j] \in {"acting", "raised"}

(* Such a step keeps what a run that began may count on being in the log.   *)
LEMMA QuietKeeps ==
  ASSUME RunInv, MemInv, Quiet,
         \A j \in Jobs : before'[j] \in {{}, before[j], Answered(Session(j))}
  PROVE  MemInv'
<1>1. attempt \in [Jobs -> 0..MaxRuns] /\ MaxRuns \in Nat
  BY BoundAssumption DEF RunInv, JobTypes
<1>2. \A turn, s : In(turn, s)' <=> In(turn, s)
  BY DEF Quiet, In
<1>3. ASSUME NEW s \in Sessions
      PROVE  Remembers(s)'
  <2>1. Remembers(s)
    BY DEF MemInv
  <2>2. WindowOf(short[s], log[s])' /\ Distinct(log[s])'
    BY <2>1 DEF Quiet, Remembers, WindowOf, Distinct
  <2>3. ASSUME NEW j \in Jobs, NEW n \in 1..MaxRuns, In(<<j, n>>, s)
        PROVE  n <= attempt'[j] /\ (n = attempt'[j] => stage'[j] \notin {"acting", "ran", "composed"})
    <3>1. n <= attempt[j] /\ (n = attempt[j] => stage[j] \notin {"acting", "ran", "composed"})
      BY <2>1, <2>3 DEF Remembers
    <3>2. attempt[j] \in Nat /\ n \in Nat
      BY <1>1
    <3> QED
      BY <3>1, <3>2 DEF Quiet
  <2> QED
    BY <1>2, <2>2, <2>3 DEF Remembers
<1>4. ASSUME NEW j \in Jobs
      PROVE  Reads(j)'
  <2>1. Session(j)' = Session(j)
    BY DEF Session
  <2>2. Reads(j)
    BY DEF MemInv
  <2>3. ASSUME NEW turn \in Answered(Session(j))
        PROVE  In(turn, Session(j))
    <3>1. PICK i \in Jobs : Session(i) = Session(j) /\ stage[i] = "answered" /\ turn = Trace(i)
      BY <2>3 DEF Answered, Trace
    <3> QED
      BY <3>1 DEF MemInv, Reads
  <2>4. \A turn \in before'[j] : In(turn, Session(j))'
    BY <1>2, <2>2, <2>3 DEF Reads
  <2>5. ASSUME stage'[j] \in {"remembered", "answered"}
        PROVE  In(Trace(j), Session(j))'
    <3>1. attempt'[j] = attempt[j] /\ stage[j] \in {"remembered", "answered"}
      BY <2>5 DEF Quiet
    <3>2. Trace(j)' = Trace(j)
      BY <3>1 DEF Trace
    <3> QED
      BY <1>2, <2>1, <2>2, <3>1, <3>2 DEF Reads
  <2> QED
    BY <2>1, <2>4, <2>5 DEF Reads
<1> QED
  BY <1>3, <1>4 DEF MemInv

(* The turn of an answer is new to the log. *)
LEMMA AnswerKeeps ==
  ASSUME RunInv, MemInv, NEW j \in Jobs, Answer(j)
  PROVE  MemInv'
<1>14. stage[j] = "composed" /\ attempt[j] \in 1..MaxRuns
  BY DEF Answer, RunInv, JobInv, JobTypes, Follows
<1>15. PICK mine \in Sessions : mine = Session(j)
  BY DEF Sessions
<1>16. PICK turn \in Traces : turn = Trace(j) /\ turn = <<j, attempt[j]>>
  BY <1>14 DEF Trace, Traces
<1>1. /\ stage[j] = "composed" /\ attempt' = attempt /\ before' = before
      /\ short' = [short EXCEPT ![mine] = Pushed(@, turn)]
      /\ log' = [log EXCEPT ![mine] = Append(@, turn)]
      /\ stage' = [stage EXCEPT ![j] = "remembered"]
  BY <1>15, <1>16 DEF Answer
<1>2. /\ short \in [Sessions -> Seq(Traces)] /\ log \in [Sessions -> Seq(Traces)]
      /\ attempt[j] \in 1..MaxRuns /\ turn = <<j, attempt[j]>>
      /\ stage \in [Jobs -> Idle \cup Active]
  BY <1>14, <1>16 DEF RunInv, JobTypes, EnvTypes
<1>3. Remembers(mine) /\ short[mine] \in Seq(Traces) /\ log[mine] \in Seq(Traces)
  BY <1>2 DEF MemInv
<1>4. ~In(turn, mine)
  BY <1>1, <1>2, <1>3 DEF Remembers
<1>5. /\ short'[mine] = Pushed(short[mine], turn) /\ log'[mine] = Append(log[mine], turn)
      /\ \A s \in Sessions \ {mine} : short'[s] = short[s] /\ log'[s] = log[s]
      /\ stage'[j] = "remembered" /\ \A i \in Jobs \ {j} : stage'[i] = stage[i]
  BY <1>1, <1>2
<1>6. /\ Len(Append(log[mine], turn)) = Len(log[mine]) + 1 /\ Len(log[mine]) \in Nat
      /\ \A i \in 1..Len(log[mine]) : Append(log[mine], turn)[i] = log[mine][i]
      /\ Append(log[mine], turn)[Len(log[mine]) + 1] = turn
  BY <1>2, <1>3, AppendProperties, LenProperties
<1>7. \A other, s : s # mine /\ s \in Sessions => (In(other, s)' <=> In(other, s))
  BY <1>5 DEF In
<1>8. \A other : In(other, mine) => In(other, mine)'
  BY <1>5, <1>6 DEF In
<1>9. \A other : In(other, mine)' => In(other, mine) \/ other = turn
  <2> SUFFICES ASSUME NEW other, NEW i \in 1..Len(log[mine]) + 1, Append(log[mine], turn)[i] = other
               PROVE  In(other, mine) \/ other = turn
    BY <1>5, <1>6 DEF In
  <2>1. i \in 1..Len(log[mine]) \/ i = Len(log[mine]) + 1
    BY <1>6
  <2> QED
    BY <1>6, <2>1 DEF In
<1>10. In(turn, mine)'
  <2>1. Len(log[mine]) + 1 \in 1..Len(log'[mine]) /\ log'[mine][Len(log[mine]) + 1] = turn
    BY <1>5, <1>6
  <2> QED
    BY <2>1 DEF In
<1>11. WindowOf(short'[mine], log'[mine]) /\ Distinct(log'[mine])
  <2>1. WindowOf(short[mine], log[mine]) /\ Distinct(log[mine])
    BY <1>3 DEF Remembers
  <2>2. \A i \in 1..Len(log[mine]) : log[mine][i] # turn
    BY <1>4 DEF In
  <2> QED
    BY <1>2, <1>3, <1>5, <2>1, <2>2, PushedWindow, StillDistinct
<1>12. ASSUME NEW s \in Sessions
       PROVE  Remembers(s)'
  <2>1. Remembers(s)
    BY DEF MemInv
  <2>2. WindowOf(short'[s], log'[s]) /\ Distinct(log'[s])
    BY <1>5, <1>11, <2>1 DEF Remembers
  <2>3. ASSUME NEW i \in Jobs, NEW n \in 1..MaxRuns, In(<<i, n>>, s)'
        PROVE  n <= attempt'[i] /\ (n = attempt'[i] => stage'[i] \notin {"acting", "ran", "composed"})
    <3>1. CASE In(<<i, n>>, s)
      <4>1. n <= attempt[i] /\ (n = attempt[i] => stage[i] \notin {"acting", "ran", "composed"})
        BY <2>1, <3>1 DEF Remembers
      <4> QED
        BY <1>1, <1>5, <4>1
    <3>2. CASE <<i, n>> = turn
      <4>1. i = j /\ n = attempt[j]
        BY <1>2, <3>2
      <4> QED
        BY <1>1, <1>2, <1>5, <4>1
    <3> QED
      BY <1>7, <1>9, <2>3, <3>1, <3>2
  <2>4. WindowOf(short[s], log[s])' /\ Distinct(log[s])'
    BY <2>2 DEF WindowOf, Distinct
  <2> QED
    BY <2>3, <2>4 DEF Remembers
<1>13. ASSUME NEW i \in Jobs
       PROVE  Reads(i)'
  <2>1. Session(i)' = Session(i) /\ Session(i) \in Sessions /\ Trace(i)' = Trace(i)
    BY <1>1 DEF Session, Sessions, Trace
  <2>2. \A other : In(other, Session(i)) => In(other, Session(i))'
    BY <1>7, <1>8, <2>1
  <2>3. Reads(i)
    BY DEF MemInv
  <2>4. i = j => In(Trace(i), Session(i))'
    BY <1>10, <1>15, <1>16, <2>1
  <2> QED
    BY <1>1, <1>5, <2>1, <2>2, <2>3, <2>4 DEF Reads
<1> QED
  BY <1>12, <1>13 DEF MemInv

(* An empty memory. *)
LEMMA NothingRemembered ==
  ASSUME NEW s \in Sessions, short[s] = <<>>, log[s] = <<>>
  PROVE  Remembers(s)
<1>1. Len(short[s]) = 0 /\ Len(log[s]) = 0 /\ 0 <= MaxTurns
  BY EmptySeq, BoundAssumption
<1>2. WindowOf(short[s], log[s]) /\ Distinct(log[s])
  BY <1>1 DEF WindowOf, Distinct
<1>3. \A turn : ~In(turn, s)
  BY <1>1 DEF In
<1> QED
  BY <1>2, <1>3 DEF Remembers

(* The memory keeps its invariant in every step. *)
LEMMA MemInvHolds == Spec => []MemInv
<1>1. Init => MemInv
  <2> SUFFICES ASSUME Init
               PROVE  MemInv
    OBVIOUS
  <2>1. \A s \in Sessions : short[s] = <<>> /\ log[s] = <<>> /\ Len(log[s]) = 0 /\ Len(short[s]) = 0
    BY EmptySeq DEF Init, Sessions
  <2>2. \A s \in Sessions : Remembers(s)
    BY <2>1, NothingRemembered
  <2>3. \A j \in Jobs : Reads(j)
    BY DEF Init, Reads
  <2> QED
    BY <2>2, <2>3 DEF MemInv
<1>2. RunInv /\ MemInv /\ [Next]_vars => MemInv'
  <2> SUFFICES ASSUME RunInv, MemInv, [Next]_vars
               PROVE  MemInv'
    OBVIOUS
  <2>1. ASSUME NEW j \in Jobs, Begin(j)
        PROVE  MemInv'
    <3>1. Quiet
      BY <2>1 DEF Begin, RunInv, JobTypes, Quiet, memVars
    <3>2. \A i \in Jobs : before'[i] \in {{}, before[i], Answered(Session(i))}
      BY <2>1 DEF Begin, RunInv, JobTypes
    <3> QED
      BY <3>1, <3>2, QuietKeeps
  <2>2. ASSUME NEW j \in Jobs, Invoke(j)
        PROVE  MemInv'
    <3>1. /\ stage[j] = "acting" /\ (stage' = stage \/ stage' = [stage EXCEPT ![j] = "ran"])
          /\ UNCHANGED <<attempt, before, short, log>>
      BY <2>2 DEF Invoke, memVars
    <3>2. Quiet
      BY <3>1 DEF RunInv, JobTypes, Quiet
    <3> QED
      BY <3>1, <3>2, QuietKeeps
  <2>3. ASSUME NEW j \in Jobs, AuditTool(j)
        PROVE  MemInv'
    <3>1. /\ stage[j] = "ran" /\ stage' = [stage EXCEPT ![j] = "acting"]
          /\ UNCHANGED <<attempt, before, short, log>>
      BY <2>3 DEF AuditTool, memVars
    <3>2. Quiet
      BY <3>1 DEF RunInv, JobTypes, Quiet
    <3> QED
      BY <3>1, <3>2, QuietKeeps
  <2>4. ASSUME NEW j \in Jobs, Compose(j)
        PROVE  MemInv'
    <3>1. /\ stage[j] = "acting" /\ before' = [before EXCEPT ![j] = {}]
          /\ \E next \in {"raised", "composed"} : stage' = [stage EXCEPT ![j] = next]
          /\ UNCHANGED <<attempt, short, log>>
      BY <2>4 DEF Compose, memVars
    <3>2. Quiet
      BY <3>1 DEF RunInv, JobTypes, Quiet
    <3>3. \A i \in Jobs : before'[i] \in {{}, before[i], Answered(Session(i))}
      BY <3>1 DEF RunInv, JobTypes
    <3> QED
      BY <3>2, <3>3, QuietKeeps
  <2>5. ASSUME NEW j \in Jobs, Conclude(j)
        PROVE  MemInv'
    <3>1. /\ stage[j] = "remembered"
          /\ \E next \in {"raised", "answered"} : stage' = [stage EXCEPT ![j] = next]
          /\ UNCHANGED <<attempt, before, short, log>>
      BY <2>5 DEF Conclude, memVars
    <3>2. Quiet
      BY <3>1 DEF RunInv, JobTypes, Quiet
    <3> QED
      BY <3>1, <3>2, QuietKeeps
  <2>6. CASE SaveSkill \/ SkillSaved \/ UNCHANGED vars
    <3>1. UNCHANGED <<stage, attempt, before, short, log>>
      BY <2>6 DEF SaveSkill, SkillSaved, vars, jobVars, memVars
    <3>2. Quiet
      BY <3>1 DEF Quiet
    <3> QED
      BY <3>1, <3>2, QuietKeeps
  <2>7. CASE Crash
    <3>1. \A s \in Sessions : short'[s] = <<>> /\ log'[s] = <<>> /\ Len(log'[s]) = 0 /\ Len(short'[s]) = 0
      BY <2>7, EmptySeq DEF Crash, RunInv, EnvTypes
    <3>2. \A s \in Sessions : Remembers(s)'
      <4> SUFFICES ASSUME NEW s \in Sessions
                   PROVE  Remembers(s)'
        OBVIOUS
      <4>1. Len(short'[s]) = 0 /\ Len(log'[s]) = 0 /\ 0 <= MaxTurns
        BY <3>1, BoundAssumption
      <4>2. WindowOf(short[s], log[s])' /\ Distinct(log[s])'
        BY <4>1 DEF WindowOf, Distinct
      <4>3. \A turn : ~In(turn, s)'
        BY <4>1 DEF In
      <4> QED
        BY <4>2, <4>3 DEF Remembers
    <3>3. \A j \in Jobs : Reads(j)'
      BY <2>7 DEF Crash, Reads
    <3> QED
      BY <3>2, <3>3 DEF MemInv
  <2> QED
    BY <2>1, <2>2, <2>3, <2>4, <2>5, <2>6, <2>7, AnswerKeeps DEF Next, JobStep
<1> QED
  BY <1>1, <1>2, RunInvHolds, PTL DEF Spec

(* A turn has one place in a log that has no turn twice. *)
LEMMA OnePlace ==
  ASSUME NEW s \in Sessions, log[s] \in Seq(Traces), Distinct(log[s]),
         NEW i \in 1..Len(log[s])
  PROVE  Position(s, log[s][i]) = i
<1>1. DOMAIN log[s] = 1..Len(log[s])
  BY LenProperties
<1>2. \A k \in DOMAIN log[s] : log[s][k] = log[s][i] => k = i
  BY <1>1 DEF Distinct
<1>3. i \in DOMAIN log[s]
  BY <1>1
<1> QED
  BY <1>2, <1>3 DEF Position

(* The prompt of a run has the turns of the runs that were answered before it *)
(* began, unless MaxTurns later ones displaced them (short_term.py, and       *)
(* _compose_prompt of orchestration/service.py).                              *)
THEOREM PromptsRemember == Spec => SeesEarlierAnswers
<1>1. ASSUME RunInv, MemInv, NEW j \in Jobs, stage[j] = "acting", NEW turn \in before[j]
      PROVE  \/ turn \in Range(short[Session(j)])
             \/ /\ Len(short[Session(j)]) = MaxTurns
                /\ \A later \in Range(short[Session(j)]) :
                     Position(Session(j), later) > Position(Session(j), turn)
  <2> DEFINE s == Session(j)
  <2>1. /\ s \in Sessions /\ short[s] \in Seq(Traces) /\ log[s] \in Seq(Traces)
        /\ WindowOf(short[s], log[s]) /\ Distinct(log[s]) /\ In(turn, s)
    BY <1>1 DEF Sessions, RunInv, EnvTypes, MemInv, Remembers, Reads
  <2> HIDE DEF s
  <2>2. PICK i \in 1..Len(log[s]) : log[s][i] = turn
    BY <2>1 DEF In
  <2>3. /\ DOMAIN short[s] = 1..Len(short[s]) /\ Len(short[s]) \in Nat /\ Len(log[s]) \in Nat
        /\ Range(short[s]) = {short[s][k] : k \in 1..Len(short[s])}
    BY <2>1, LenProperties DEF Range
  <2> DEFINE gap == Len(log[s]) - Len(short[s])
  <2>4. /\ gap \in Nat /\ gap + Len(short[s]) = Len(log[s])
        /\ \A k \in 1..Len(short[s]) : short[s][k] = log[s][gap + k]
        /\ gap > 0 => Len(short[s]) = MaxTurns
    <3>1. \A k \in 1..Len(short[s]) : short[s][k] = log[s][gap + k]
      BY <2>1 DEF WindowOf
    <3>2. Len(short[s]) <= Len(log[s]) /\ (Len(short[s]) < Len(log[s]) => Len(short[s]) = MaxTurns)
      BY <2>1 DEF WindowOf
    <3>3. PICK k \in Nat, n \in Nat : k = Len(short[s]) /\ n = Len(log[s])
      BY <2>3
    <3>6. k <= n
      BY <3>2, <3>3
    <3>4. n - k \in Nat /\ (n - k) + k = n /\ (n - k > 0 => k < n)
      BY <3>6
    <3>5. gap \in Nat /\ gap + Len(short[s]) = Len(log[s]) /\ (gap > 0 => Len(short[s]) = MaxTurns)
      BY <3>2, <3>3, <3>4
    <3> QED
      BY <3>1, <3>5
  <2> HIDE DEF gap
  <2>5. CASE i > gap
    <3>1. i - gap \in 1..Len(short[s]) /\ gap + (i - gap) = i
      BY <2>3, <2>4, <2>5
    <3>2. short[s][i - gap] = turn
      BY <2>2, <2>4, <3>1
    <3> QED
      BY <2>3, <3>1, <3>2 DEF s
  <2>6. CASE i <= gap
    <3>1. Len(short[s]) = MaxTurns
      BY <2>4, <2>6
    <3>2. ASSUME NEW later \in Range(short[s])
          PROVE  Position(s, later) > Position(s, turn)
      <4>1. PICK k \in 1..Len(short[s]) : later = short[s][k]
        BY <2>3
      <4>2. gap + k \in 1..Len(log[s]) /\ gap + k > i
        BY <2>3, <2>4, <2>6
      <4>3. Position(s, later) = gap + k
        BY <2>1, <2>4, <4>1, <4>2, OnePlace
      <4>4. Position(s, turn) = i
        BY <2>1, <2>2, OnePlace
      <4> QED
        BY <4>2, <4>3, <4>4
    <3> QED
      BY <3>1, <3>2 DEF s
  <2> QED
    BY <2>3, <2>4, <2>5, <2>6
<1>2. RunInv /\ MemInv /\ [Next]_vars =>
        [\A j \in Jobs : stage[j] = "acting" /\ stage'[j] = "composed" =>
           LET window == short[Session(j)] IN
           \A turn \in before[j] :
             \/ turn \in Range(window)
             \/ /\ Len(window) = MaxTurns
                /\ \A later \in Range(window) :
                     Position(Session(j), later) > Position(Session(j), turn)]_vars
  BY <1>1
<1> QED
  BY <1>2, RunInvHolds, MemInvHolds, PTL DEF Spec, SeesEarlierAnswers
==============================================================================
