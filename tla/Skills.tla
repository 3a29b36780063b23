------------------------------- MODULE Skills -------------------------------
(***************************************************************************)
(* Skill templates: the directory of files <id>_<version>.json, shared by  *)
(* the processes of a host, the cache of each process                      *)
(* (app/skills/center.py), and what a run is given of them                 *)
(* (app/skills/context.py).  Requests run in threads.  A template is       *)
(* identified with the call that saved it.                                 *)
(***************************************************************************)
EXTENDS Naturals, Sequences, Functions

CONSTANTS
  Hosts,        \* the processes that share the directory
  Callers,      \* POST /skills and GET /skills/{id}/{version}
  SkillIds,     \* the skill ids, sorted
  NameOf,       \* NameOf[c]: the name that c, if it saves, gives the skill, in lower case
  Versions,     \* versions in the order of their file names, each with its
                \* numbers (none if it is not numeric) and its place as a string
  Missing,      \* no file
  Empty, Torn   \* an empty file; another one that does not parse

VARIABLES
  files,        \* files[k]: the template in the file of k
  cached,       \* cached[p][k]: SkillCenter._cache of process p
  job,          \* job[c]: process, key and kind of call c
  step,         \* step[c]: what c does next, or how it ended
  got,          \* got[c]: the template a load returns
  past          \* past[c]: the calls that had ended when c began (history)

skillVars == <<files, cached, job, step, got, past>>

SkillKeys  == Range(SkillIds) \X DOMAIN Versions
SkillCalls == [host : Hosts, key : SkillKeys, kind : {"save", "load"}]

ASSUME SkillAssumption ==
  /\ Missing # Torn /\ Missing # Empty /\ Empty # Torn
  /\ Missing \notin Callers \cup SkillCalls /\ Torn \notin Callers /\ Empty \notin Callers
  /\ SkillIds \in Seq(Range(SkillIds))
  /\ Versions \in Seq(Range(Versions))
  /\ \A v \in Range(Versions) : v.numbers \in Seq(Nat) /\ v.text \in Nat

Finished  == {c \in Callers : step[c] \in {"done", "failed"}}
IsWhole(k) == files[k] \notin {Missing, Empty, Torn}

SkillsInit ==
  /\ files  = [k \in SkillKeys |-> Missing]
  /\ cached = [p \in Hosts |-> [k \in SkillKeys |-> Missing]]
  /\ job = [c \in Callers |-> Missing] /\ step = [c \in Callers |-> "new"]
  /\ got = [c \in Callers |-> Missing] /\ past = [c \in Callers |-> {}]

Enters(c, j, next) ==
  /\ step[c] = "new"
  /\ job' = [job EXCEPT ![c] = j]
  /\ past' = [past EXCEPT ![c] = Finished]
  /\ step' = [step EXCEPT ![c] = next]

(* save_skill opens the file, which empties it, writes it, ...              *)
Truncate(c) ==
  \E j \in SkillCalls :
    /\ j.kind = "save" /\ Enters(c, j, "write")
    /\ files' = [files EXCEPT ![j.key] = Empty]
    /\ UNCHANGED <<cached, got>>

(* (over what other saves have written since, which may be longer; or the   *)
(* disk is full, before or after a part of it is written)                   *)
WriteFileSwallowed(c) ==                       \* mutant: a write that fails is passed over
  LET k == job[c].key IN
  /\ step[c] = "write"
  /\ \E document \in {c, Torn} : files' = [files EXCEPT ![k] = document]
  /\ step' = [step EXCEPT ![c] = "cache"]
  /\ UNCHANGED <<cached, job, got, past>>
WriteFile(c) ==
  LET k == job[c].key IN
  /\ step[c] = "write"
  /\ \/ /\ files' = [files EXCEPT ![k] = c]
        /\ step' = [step EXCEPT ![c] = "cache"]
     \/ /\ files[k] # Empty
        /\ files' = [files EXCEPT ![k] = Torn]
        /\ step' = [step EXCEPT ![c] = "cache"]
     \/ /\ \E rest \in {files[k], Torn} : files' = [files EXCEPT ![k] = rest]
        /\ step' = [step EXCEPT ![c] = "failed"]
  /\ UNCHANGED <<cached, job, got, past>>

(* ... and remembers the template. *)
RememberFirst(c) ==                            \* mutant: setdefault
  /\ step[c] = "cache"
  /\ cached' = [cached EXCEPT ![job[c].host][job[c].key] = IF @ = Missing THEN c ELSE @]
  /\ step' = [step EXCEPT ![c] = "done"]
  /\ UNCHANGED <<files, job, got, past>>
Remember(c) ==
  /\ step[c] = "cache"
  /\ cached' = [cached EXCEPT ![job[c].host][job[c].key] = c]
  /\ step' = [step EXCEPT ![c] = "done"]
  /\ UNCHANGED <<files, job, got, past>>

(* load_skill answers from the cache, or reads the file, which may be       *)
(* missing or not parse, ...                                                *)
Load(c) ==
  \E j \in SkillCalls :
    /\ j.kind = "load"
    /\ LET hit == cached[j.host][j.key] IN
       IF hit # Missing
       THEN Enters(c, j, "done") /\ got' = [got EXCEPT ![c] = hit]
       ELSE IF IsWhole(j.key)
       THEN Enters(c, j, "keep") /\ got' = [got EXCEPT ![c] = files[j.key]]
       ELSE Enters(c, j, "failed") /\ UNCHANGED got
    /\ UNCHANGED <<files, cached>>

(* ... and remembers what it has read. *)
Keep(c) ==
  /\ step[c] = "keep"
  /\ cached' = [cached EXCEPT ![job[c].host][job[c].key] = got[c]]
  /\ step' = [step EXCEPT ![c] = "done"]
  /\ UNCHANGED <<files, job, got, past>>

SkillsNext ==
  \E c \in Callers : Truncate(c) \/ WriteFile(c) \/ Remember(c) \/ Load(c) \/ Keep(c)

SkillsSpec == SkillsInit /\ [][SkillsNext]_skillVars
------------------------------------------------------------------------------
(* _version_gt: numbers are compared one by one, anything else as strings. *)
Greater(a, b) ==
  \E n \in DOMAIN a : /\ \A m \in 1..(n - 1) : m \in DOMAIN b /\ a[m] = b[m]
                      /\ n \in DOMAIN b => a[n] > b[n]

VersionGtAsText(v, w) == Versions[v].text > Versions[w].text   \* mutant: versions are strings
VersionGt(v, w) ==
  LET new == Versions[v] old == Versions[w] IN
  IF new.numbers # <<>> /\ old.numbers # <<>> THEN Greater(new.numbers, old.numbers)
  ELSE new.text > old.text

(* list_latest_skills: the version each skill is listed with, going through *)
(* the files in their order; 0 when it has none.  (It raises when a file    *)
(* does not parse; Orchestration has the run this happens to.)              *)
LatestVersion(skill) ==
  LET best[n \in 0..Len(Versions)] ==         \* of the first n files
        IF n = 0 THEN 0
        ELSE IF IsWhole(<<skill, n>>) /\ (best[n - 1] = 0 \/ VersionGt(n, best[n - 1]))
        THEN n ELSE best[n - 1]
  IN best[Len(Versions)]

(* load: what a run is told of a name, a file of the centre or a SKILL.md.  *)
(* The centre is merged over the SKILL.md files; among its own skills of    *)
(* one name a later one replaces an earlier one by version.  A skill has    *)
(* the name in its latest version.                                          *)
IsNamed(s, name) ==
  LatestVersion(s) # 0 /\ NameOf[files[<<s, LatestVersion(s)>>]] = name
Merged(name) ==
  LET best[n \in 0..Len(SkillIds)] ==         \* of the first n skills
        IF n = 0 THEN <<>>
        ELSE IF /\ IsNamed(SkillIds[n], name)
                /\ best[n - 1] = <<>> \/ VersionGt(LatestVersion(SkillIds[n]), best[n - 1][2])
        THEN <<SkillIds[n], LatestVersion(SkillIds[n])>> ELSE best[n - 1]
  IN best[Len(SkillIds)]
------------------------------------------------------------------------------
(* A template that was loaded is not older than one the same process has    *)
(* acknowledged before: the cache goes stale only by calls for the same     *)
(* template that overlap the save, or by another process (center.py:57).    *)
LoadIsLatest ==
  \A c \in {d \in Callers : job[d] # Missing /\ job[d].kind = "load" /\ step[d] = "done"},
     s \in Callers :
    /\ s \in past[c] /\ step[s] = "done"
    /\ job[s] = [host |-> job[c].host, key |-> job[c].key, kind |-> "save"]
    => \/ got[c] = s \/ got[c] \notin past[s]
       \/ \E x \in Callers \ {s, c} :
            /\ job[x] # Missing /\ job[x].host = job[s].host /\ job[x].key = job[s].key
            /\ x \notin past[s] /\ s \notin past[x]

(* A file that does not parse has a save to blame: one that is under way,   *)
(* one that failed, or two that overlapped (center.py:46).                  *)
TornForACause ==
  \A k \in SkillKeys : files[k] \in {Empty, Torn} =>
    LET saves == {c \in Callers : job[c] # Missing /\ job[c].kind = "save" /\ job[c].key = k} IN
    \/ \E c \in saves : step[c] \in {"write", "failed"}
    \/ \E c, d \in saves : c # d /\ c \notin past[d] /\ d \notin past[c]

(* When all files have numeric versions, none twice for one skill, a run is *)
(* given, under each name, the highest of the versions of that name that    *)
(* are the highest of their skills, whatever the order of the file names    *)
(* (center.py:85, context.py:53); a SKILL.md counts only where the centre   *)
(* has none.                                                                *)
NewestIsUsed ==
  LET number(k) == Versions[k[2]].numbers
      whole     == {k \in SkillKeys : IsWhole(k)}
      newest    == {k \in whole : \A l \in whole : l[1] = k[1] => ~Greater(number(l), number(k))}
  IN (/\ \A k \in SkillKeys : files[k] \notin {Empty, Torn}
      /\ \A k \in whole : number(k) # <<>>
      /\ \A k, l \in newest : k[1] = l[1] => k = l) =>
       \A name \in Range(NameOf) :
         LET named == {k \in newest : NameOf[files[k]] = name} IN
         /\ named = {} => Merged(name) = <<>>
         /\ named # {} => /\ Merged(name) \in named
                          /\ \A k \in named : ~Greater(number(k), number(Merged(name)))
==============================================================================
