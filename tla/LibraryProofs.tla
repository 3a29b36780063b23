---------------------------- MODULE LibraryProofs ----------------------------
(***************************************************************************)
(* Theorems about what a run is given: the skills of the directory, the    *)
(* chunks of the knowledge base, the provider of a call and the parts of   *)
(* its prompt.  First come facts about numbers: induction over a set of    *)
(* numbers, functions given by a first value and a next one, and the       *)
(* places of the members of a finite set.                                  *)
(***************************************************************************)
EXTENDS Skills, Knowledge, Generation, FiniteSetTheorems, WellFoundedInduction, TLAPS

(* A set of numbers has a least one, the form of induction used below.      *)
LEMMA LeastNumber ==
  ASSUME NEW T, T \subseteq Nat, T # {}
  PROVE \E n \in T : \A m \in T : n <= m
<1> DEFINE R == OpToRel(<, Nat)
<1>1. IsWellFoundedOn(R, Nat)
  BY NatLessThanWellFounded
<1>2. \A m, n \in Nat : <<m, n>> \in R <=> m < n
  BY DEF OpToRel
<1> HIDE DEF R
<1>3. PICK n \in T : \A m \in T : ~ (<<m, n>> \in R)
  BY <1>1, WFMin
<1>4. ASSUME NEW m \in T PROVE n <= m
  <2>1. m \in Nat /\ n \in Nat /\ ~(m < n)
    BY <1>2, <1>3
  <2> QED
    BY <2>1
<1> QED
  BY <1>4

(* Induction up to N, over the set of the numbers for which a claim holds. *)
LEMMA Induction ==
  ASSUME NEW N \in Nat, NEW H, 0 \in H, \A n \in 1 .. N : n - 1 \in H => n \in H
  PROVE  \A n \in 0 .. N : n \in H
<1> DEFINE T == {n \in 0 .. N : n \notin H}
<1> SUFFICES ASSUME T # {} PROVE FALSE
  OBVIOUS
<1>1. T \subseteq Nat
  OBVIOUS
<1>2. PICK n \in T : \A m \in T : n <= m
  BY <1>1, LeastNumber
<1>3. n \in 1 .. N /\ n - 1 \in 0 .. N /\ n - 1 \notin T
  <2>1. n \in 0 .. N /\ n \notin H /\ n # 0
    OBVIOUS
  <2>2. n \in 1 .. N /\ n - 1 \in 0 .. N /\ ~(n <= n - 1)
    BY <2>1
  <2> QED
    BY <1>2, <2>2
<1> QED
  BY <1>3

(* A function on 0 .. N given by its first value and by its next one exists. *)
Recurs(g, N, S, base, f) ==
  g \in [0 .. N -> S] /\ g[0] = base /\ \A n \in 1 .. N : g[n] = f[<<n, g[n - 1]>>]

(* There is a function with a given first value and given next ones.        *)
LEMMA RecursiveFunction ==
  ASSUME NEW N \in Nat, NEW S, NEW base \in S, NEW f \in [(1 .. N) \X S -> S]
  PROVE  \E g : Recurs(g, N, S, base, f)
<1> DEFINE Fits(g, m) == g[0] = base /\ \A n \in 1 .. m : g[n] = f[<<n, g[n - 1]>>]
           H == {m \in 0 .. N : \E g \in [0 .. m -> S] : Fits(g, m)}
<1>1. 0 \in H
  <2> DEFINE g == [n \in 0 .. 0 |-> base]
  <2>1. g \in [0 .. 0 -> S] /\ g[0] = base /\ 1 .. 0 = {} /\ 0 \in 0 .. N
    OBVIOUS
  <2> HIDE DEF g
  <2>2. Fits(g, 0)
    BY <2>1
  <2> QED
    BY <2>1, <2>2
<1>2. ASSUME NEW m \in 1 .. N, m - 1 \in H PROVE m \in H
  <2>1. PICK g \in [0 .. (m - 1) -> S] : Fits(g, m - 1)
    BY <1>2
  <2> DEFINE next == f[<<m, g[m - 1]>>]
             h == [n \in 0 .. m |-> IF n = m THEN next ELSE g[n]]
  <2>2. m - 1 \in 0 .. (m - 1) /\ next \in S
    OBVIOUS
  <2>3. h \in [0 .. m -> S]
    BY <2>2
  <2>4. h[0] = base
    BY <2>1
  <2>5. ASSUME NEW n \in 1 .. m PROVE h[n] = f[<<n, h[n - 1]>>]
    <3>1. n - 1 \in 0 .. m /\ n - 1 # m /\ h[n - 1] = g[n - 1]
      OBVIOUS
    <3>2. CASE n = m
      BY <3>1, <3>2
    <3>3. CASE n # m
      <4>1. n \in 1 .. (m - 1) /\ h[n] = g[n]
        BY <3>3
      <4> QED
        BY <2>1, <3>1, <4>1
    <3> QED
      BY <3>2, <3>3
  <2>6. Fits(h, m)
    BY <2>4, <2>5
  <2>7. m \in 0 .. N
    OBVIOUS
  <2> HIDE DEF h, Fits
  <2> QED
    BY <2>3, <2>6, <2>7
<1> HIDE DEF H
<1>3. N \in H
  BY <1>1, <1>2, Induction
<1> QED
  BY <1>3 DEF H, Recurs

(* A strict total order on S. *)
Orders(R, S) ==
  /\ \A x \in S : <<x, x>> \notin R
  /\ \A x, y, z \in S : <<x, y>> \in R /\ <<y, z>> \in R => <<x, z>> \in R
  /\ \A x, y \in S : x # y => <<x, y>> \in R \/ <<y, x>> \in R

Smaller(R, S, x) == {y \in S : <<y, x>> \in R}

(* In a finite set, the numbers of smaller elements are those below its size, *)
(* each of one element, in the order of the elements.                         *)
LEMMA Ranks ==
  ASSUME NEW S, IsFiniteSet(S), NEW R, Orders(R, S)
  PROVE  /\ Cardinality(S) \in Nat
         /\ \A x \in S : Cardinality(Smaller(R, S, x)) \in 0 .. (Cardinality(S) - 1)
         /\ \A x, y \in S : <<x, y>> \in R
                             <=> Cardinality(Smaller(R, S, x)) < Cardinality(Smaller(R, S, y))
         /\ \A k \in 0 .. (Cardinality(S) - 1) : \E x \in S : Cardinality(Smaller(R, S, x)) = k
<1> DEFINE rank(x) == Cardinality(Smaller(R, S, x))
           N == Cardinality(S)
<1>1. N \in Nat
  BY FS_CardinalityType
<1>2. ASSUME NEW x \in S PROVE IsFiniteSet(Smaller(R, S, x)) /\ rank(x) \in 0 .. (N - 1)
  <2>1. Smaller(R, S, x) \subseteq S /\ Smaller(R, S, x) # S
    BY DEF Smaller, Orders
  <2>2. IsFiniteSet(Smaller(R, S, x)) /\ rank(x) <= N /\ rank(x) # N
    BY <2>1, FS_Subset
  <2>3. rank(x) \in Nat
    BY <2>2, FS_CardinalityType
  <2> QED
    BY <1>1, <2>2, <2>3
<1>3. ASSUME NEW x \in S, NEW y \in S, <<x, y>> \in R PROVE rank(x) < rank(y)
  <2>1. Smaller(R, S, x) \subseteq Smaller(R, S, y) /\ Smaller(R, S, x) # Smaller(R, S, y)
    BY <1>3 DEF Smaller, Orders
  <2>2. rank(x) <= rank(y) /\ rank(x) # rank(y)
    BY <1>2, <2>1, FS_Subset
  <2>3. rank(x) \in Nat /\ rank(y) \in Nat
    BY <1>1, <1>2
  <2> QED
    BY <2>2, <2>3
<1>4. ASSUME NEW x \in S, NEW y \in S PROVE <<x, y>> \in R <=> rank(x) < rank(y)
  <2>0. rank(x) \in Nat /\ rank(y) \in Nat
    BY <1>1, <1>2
  <2> HIDE DEF rank
  <2>1. CASE x = y
    BY <2>0, <2>1 DEF Orders
  <2>2. CASE x # y
    <3>1. <<x, y>> \in R \/ <<y, x>> \in R
      BY <2>2 DEF Orders
    <3>2. CASE <<x, y>> \in R
      BY <1>3, <3>2
    <3>3. CASE <<y, x>> \in R
      <4>1. rank(y) < rank(x) /\ <<x, y>> \notin R
        BY <1>3, <3>3 DEF Orders
      <4> QED
        BY <2>0, <4>1
    <3> QED
      BY <3>1, <3>2, <3>3
  <2> QED
    BY <2>1, <2>2
<1>5. ASSUME NEW k \in 0 .. (N - 1) PROVE \E x \in S : rank(x) = k
  <2> SUFFICES ASSUME \A x \in S : rank(x) # k PROVE FALSE
    OBVIOUS
  <2> DEFINE T == (0 .. (N - 1)) \ {k}
             f == [x \in S |-> rank(x)]
  <2>1. IsFiniteSet(0 .. (N - 1)) /\ Cardinality(0 .. (N - 1)) = N
    <3>1. N \in Nat \ {0} /\ 0 \in Int /\ N - 1 \in Int /\ ~(0 > N - 1) /\ (N - 1) - 0 + 1 = N
      BY <1>1
    <3> HIDE DEF N
    <3> QED
      BY <3>1, FS_Interval
  <2>2. IsFiniteSet(T) /\ Cardinality(T) = N - 1
    <3> DEFINE U == 0 .. (N - 1)
    <3>1. k \in U /\ IsFiniteSet(U) /\ Cardinality(U) = N
      BY <2>1
    <3> HIDE DEF U
    <3>2. IsFiniteSet(U \ {k}) /\ Cardinality(U \ {k}) = Cardinality(U) - 1
      BY <3>1, FS_RemoveElement
    <3> QED
      BY <3>1, <3>2 DEF U
  <2>3. f \in [S -> T]
    BY <1>2
  <2>4. PICK x, y \in S : x # y /\ f[x] = f[y]
    <3>1. N - 1 < N
      BY <1>1
    <3> HIDE DEF T, f
    <3> QED
      BY <2>2, <2>3, <3>1, FS_PigeonHole
  <2>5. <<x, y>> \in R \/ <<y, x>> \in R
    BY <2>4 DEF Orders
  <2>6. rank(x) \in Nat /\ rank(x) = rank(y)
    BY <1>1, <1>2, <2>4
  <2> HIDE DEF rank
  <2> QED
    BY <1>4, <2>5, <2>6
<1> QED
  BY <1>1, <1>2, <1>4, <1>5

(* A sequence that gives each place to the element with as many smaller     *)
(* ones as there are places before it lists the set in its order.           *)
LEMMA RankedSequence ==
  ASSUME NEW S, IsFiniteSet(S), NEW R, Orders(R, S), NEW q, DOMAIN q = 1 .. Cardinality(S),
         \A k \in DOMAIN q : q[k] \in S /\ Cardinality(Smaller(R, S, q[k])) = k - 1
  PROVE  /\ \A n \in S : \E k \in DOMAIN q : q[k] = n
         /\ \A j, k \in DOMAIN q : j < k <=> <<q[j], q[k]>> \in R
<1> DEFINE rank(x) == Cardinality(Smaller(R, S, x))
           N == Cardinality(S)
<1>1. /\ N \in Nat /\ \A x \in S : rank(x) \in 0 .. (N - 1)
      /\ \A x, y \in S : <<x, y>> \in R <=> rank(x) < rank(y)
  BY Ranks
<1>2. \A k \in 1 .. N : q[k] \in S /\ rank(q[k]) = k - 1
  OBVIOUS
<1> HIDE DEF rank, N
<1>3. ASSUME NEW n \in S PROVE \E k \in 1 .. N : q[k] = n
  <2>1. rank(n) + 1 \in 1 .. N /\ rank(n) \in Nat
    BY <1>1
  <2>2. q[rank(n) + 1] \in S /\ rank(q[rank(n) + 1]) = rank(n)
    BY <1>2, <2>1
  <2>3. q[rank(n) + 1] = n
    BY <1>1, <2>1, <2>2 DEF Orders
  <2> QED
    BY <2>1, <2>3
<1>4. ASSUME NEW j \in 1 .. N, NEW k \in 1 .. N PROVE j < k <=> <<q[j], q[k]>> \in R
  <2>1. <<q[j], q[k]>> \in R <=> j - 1 < k - 1
    BY <1>1, <1>2
  <2> QED
    BY <1>1, <2>1
<1> QED
  BY <1>3, <1>4 DEF N
------------------------------------------------------------------------------
(* Skills: the files of templates and the caches of the processes.          *)

(* Calls c and d are about one template of one process; they overlap.      *)
SameTemplate(c, d) == job[c].host = job[d].host /\ job[c].key = job[d].key
Overlap(c, d)      == c # d /\ c \notin past[d] /\ d \notin past[c]
Saves(c, k)        == job[c] # Missing /\ job[c].kind = "save" /\ job[c].key = k

(* The values of the variables of the skills.                               *)
SkillsTypeOK ==
  /\ files \in [SkillKeys -> Callers \cup {Missing, Empty, Torn}]
  /\ cached \in [Hosts -> [SkillKeys -> Callers \cup {Missing}]]
  /\ job \in [Callers -> SkillCalls \cup {Missing}]
  /\ step \in [Callers -> {"new", "write", "cache", "keep", "done", "failed"}]
  /\ got \in [Callers -> Callers \cup {Missing}]
  /\ past \in [Callers -> SUBSET Callers]

(* Where a call is says what it is; the calls before it have ended. *)
CallStage(c) ==
  /\ step[c] = "new" <=> job[c] = Missing
  /\ step[c] \in {"write", "cache"} => job[c].kind = "save"
  /\ step[c] = "keep" => job[c].kind = "load" /\ got[c] # Missing
  /\ \A d \in past[c] : step[d] \in {"done", "failed"}

(* Before a save writes, its file is empty, unless another save of it has   *)
(* overlapped this one, or has failed.                                      *)
Emptied(c) ==
  step[c] = "write" =>
    \/ files[job[c].key] = Empty
    \/ \E x \in Callers : Saves(x, job[c].key) /\ (step[x] = "failed" \/ Overlap(x, c))

(* TornForACause, of one file.                                              *)
Blamed(k) ==
  files[k] \in {Empty, Torn} =>
    \/ \E c \in Callers : Saves(c, k) /\ step[c] \in {"write", "failed"}
    \/ \E c, d \in Callers : Saves(c, k) /\ Saves(d, k) /\ Overlap(c, d)

(* After a save its process remembers a template that is not older, unless  *)
(* a call for the template has overlapped the save.                         *)
Remembered(s) ==
  step[s] = "done" /\ job[s].kind = "save" =>
    LET h == cached[job[s].host][job[s].key] IN
    /\ h # Missing
    /\ \/ h = s \/ h \notin past[s]
       \/ \E x \in Callers : job[x] # Missing /\ SameTemplate(x, s) /\ Overlap(x, s)

(* A call that reads the file has begun before any save of it was done. *)
ReadsFirst(c) ==
  step[c] = "keep" =>
    \A s \in past[c] : ~(step[s] = "done" /\ job[s].kind = "save" /\ SameTemplate(s, c))

(* LoadIsLatest, of one load and one save. *)
Latest(c, s) ==
  /\ step[c] = "done" /\ job[c].kind = "load"
  /\ s \in past[c] /\ step[s] = "done" /\ job[s].kind = "save" /\ SameTemplate(s, c)
  => \/ got[c] = s \/ got[c] \notin past[s]
     \/ \E x \in Callers \ {c} : job[x] # Missing /\ SameTemplate(x, s) /\ Overlap(x, s)

(* The inductive invariant of the skills.                                   *)
SkillsInv ==
  /\ SkillsTypeOK
  /\ \A c \in Callers : CallStage(c) /\ Emptied(c) /\ Remembered(c) /\ ReadsFirst(c)
  /\ \A k \in SkillKeys : Blamed(k)
  /\ \A c, s \in Callers : Latest(c, s)

(* What a step of c leaves alone. *)
Alone(c) ==
  \A d \in Callers \ {c} :
    job'[d] = job[d] /\ step'[d] = step[d] /\ got'[d] = got[d] /\ past'[d] = past[d]

(* A call that begins: from nothing to a job, with those that had ended     *)
(* before it.                                                               *)
Begins(c) ==
  /\ job[c] = Missing /\ step[c] = "new"
  /\ job'[c] \in SkillCalls /\ job'[c] # Missing /\ past'[c] = Finished

(* A call that goes on: its job and those before it stay. *)
Continues(c) ==
  /\ job[c] # Missing /\ job'[c] = job[c] /\ past'[c] = past[c]
  /\ step[c] \notin {"new", "done", "failed"}

(* Initially there is nothing to violate. *)
LEMMA SkillsInitially == SkillsInit => SkillsInv
<1> SUFFICES ASSUME SkillsInit PROVE SkillsInv
  OBVIOUS
<1> USE SkillAssumption DEF SkillsInit
<1>1. SkillsTypeOK
  BY DEF SkillsTypeOK
<1>2. ASSUME NEW c \in Callers PROVE CallStage(c) /\ Emptied(c) /\ Remembered(c) /\ ReadsFirst(c)
  BY DEF CallStage, Emptied, Remembered, ReadsFirst
<1>3. ASSUME NEW k \in SkillKeys PROVE Blamed(k)
  BY DEF Blamed
<1>4. ASSUME NEW c \in Callers, NEW s \in Callers PROVE Latest(c, s)
  BY DEF Latest
<1> QED
  BY <1>1, <1>2, <1>3, <1>4 DEF SkillsInv

(* A step of a call: typed, of that call alone, and the call begins or goes *)
(* on.                                                                      *)
LEMMA SkillsStepIsOnes ==
  ASSUME SkillsInv, NEW c \in Callers,
         Truncate(c) \/ WriteFile(c) \/ Remember(c) \/ Load(c) \/ Keep(c)
  PROVE  SkillsTypeOK' /\ Alone(c) /\ (Begins(c) \/ Continues(c))
<1> USE SkillAssumption
<1>0. SkillsTypeOK /\ CallStage(c)
  BY DEF SkillsInv
<1>1. CASE Truncate(c)
  <2>1. PICK j \in SkillCalls : j.kind = "save" /\ Enters(c, j, "write")
                          /\ files' = [files EXCEPT ![j.key] = Empty] /\ UNCHANGED <<cached, got>>
    BY <1>1 DEF Truncate
  <2>2. Alone(c) /\ Begins(c)
    BY <1>0, <2>1 DEF SkillsTypeOK, Enters, Alone, Begins, CallStage
  <2>3. SkillsTypeOK'
    BY <1>0, <2>1 DEF SkillsTypeOK, Enters, Finished
  <2> QED
    BY <2>2, <2>3
<1>2. CASE WriteFile(c)
  <2>1. Alone(c) /\ Continues(c)
    BY <1>0, <1>2 DEF SkillsTypeOK, WriteFile, Alone, Continues, CallStage
  <2>2. files' \in [SkillKeys -> Callers \cup {Missing, Empty, Torn}]
    <3>1. /\ [files EXCEPT ![job[c].key] = c] \in [SkillKeys -> Callers \cup {Missing, Empty, Torn}]
          /\ [files EXCEPT ![job[c].key] = Torn] \in [SkillKeys -> Callers \cup {Missing, Empty, Torn}]
          /\ [files EXCEPT ![job[c].key] = files[job[c].key]] = files
      BY <1>0 DEF SkillsTypeOK
    <3>2. \E rest \in {c, Torn, files[job[c].key]} : files' = [files EXCEPT ![job[c].key] = rest]
      BY <1>2 DEF WriteFile
    <3> QED
      BY <1>0, <3>1, <3>2 DEF SkillsTypeOK
  <2>3. SkillsTypeOK'
    <3>1. step' \in [Callers -> {"new", "write", "cache", "keep", "done", "failed"}]
      BY <1>0, <1>2 DEF SkillsTypeOK, WriteFile
    <3> QED
      BY <1>0, <1>2, <2>2, <3>1 DEF SkillsTypeOK, WriteFile
  <2> QED
    BY <2>1, <2>3
<1>3. CASE Remember(c)
  <2>1. Alone(c) /\ Continues(c)
    BY <1>0, <1>3 DEF SkillsTypeOK, Remember, Alone, Continues, CallStage
  <2>2. SkillsTypeOK'
    BY <1>0, <1>3 DEF SkillsTypeOK, Remember
  <2> QED
    BY <2>1, <2>2
<1>4. CASE Load(c)
  <2>1. PICK j \in SkillCalls : j.kind = "load"
           /\ IF cached[j.host][j.key] # Missing
              THEN Enters(c, j, "done") /\ got' = [got EXCEPT ![c] = cached[j.host][j.key]]
              ELSE IF IsWhole(j.key)
              THEN Enters(c, j, "keep") /\ got' = [got EXCEPT ![c] = files[j.key]]
              ELSE Enters(c, j, "failed") /\ UNCHANGED got
    BY <1>4 DEF Load
  <2>2. j.host \in Hosts /\ j.key \in SkillKeys
    BY DEF SkillCalls
  <2>3. cached[j.host][j.key] \in Callers \cup {Missing} /\ files[j.key] \in Callers \cup {Missing, Empty, Torn}
    BY <1>0, <2>2 DEF SkillsTypeOK
  <2>4. UNCHANGED <<files, cached>>
    BY <1>4 DEF Load
  <2>5. Alone(c) /\ Begins(c)
    BY <1>0, <2>1 DEF SkillsTypeOK, Enters, Alone, Begins, CallStage
  <2>6. got' \in [Callers -> Callers \cup {Missing}]
    <3>1. CASE cached[j.host][j.key] # Missing
      BY <1>0, <2>1, <2>3, <3>1 DEF SkillsTypeOK
    <3>2. CASE cached[j.host][j.key] = Missing
      BY <1>0, <2>1, <2>3, <3>2 DEF SkillsTypeOK, IsWhole
    <3> QED
      BY <3>1, <3>2
  <2>7. /\ job' \in [Callers -> SkillCalls \cup {Missing}]
        /\ step' \in [Callers -> {"new", "write", "cache", "keep", "done", "failed"}]
        /\ past' \in [Callers -> SUBSET Callers]
    <3>1. PICK next \in {"done", "keep", "failed"} : Enters(c, j, next)
      BY <2>1
    <3> QED
      BY <1>0, <3>1 DEF SkillsTypeOK, Enters, Finished
  <2>8. SkillsTypeOK'
    BY <1>0, <2>4, <2>6, <2>7 DEF SkillsTypeOK
  <2> QED
    BY <2>5, <2>8
<1>5. CASE Keep(c)
  <2>1. Alone(c) /\ Continues(c)
    BY <1>0, <1>5 DEF SkillsTypeOK, Keep, Alone, Continues, CallStage
  <2>2. got[c] \in Callers
    BY <1>0, <1>5 DEF SkillsTypeOK, Keep, CallStage
  <2>3. SkillsTypeOK'
    <3>1. [cached EXCEPT ![job[c].host][job[c].key] = got[c]] \in [Hosts -> [SkillKeys -> Callers \cup {Missing}]]
      BY <1>0, <2>2 DEF SkillsTypeOK
    <3> QED
      BY <1>0, <1>5, <3>1 DEF SkillsTypeOK, Keep
  <2> QED
    BY <2>1, <2>3
<1> QED
  BY <1>1, <1>2, <1>3, <1>4, <1>5

(* What a step of c keeps of the calls: each has its stage, and two calls   *)
(* that have begun overlap afterwards as they did before.                   *)
LEMMA StagesStay ==
  ASSUME SkillsInv, NEW c \in Callers,
         Truncate(c) \/ WriteFile(c) \/ Remember(c) \/ Load(c) \/ Keep(c)
  PROVE  /\ \A d \in Callers : CallStage(d)'
         /\ \A d \in Callers : job[d] # Missing => job'[d] = job[d] /\ past'[d] = past[d]
         /\ \A d \in Callers : step[d] \in {"done", "failed"} => d # c
<1> USE SkillAssumption
<1>0. SkillsTypeOK /\ \A d \in Callers : CallStage(d)
  BY DEF SkillsInv
<1>1. SkillsTypeOK' /\ Alone(c) /\ (Begins(c) \/ Continues(c))
  BY SkillsStepIsOnes
<1>2. \A d \in Callers : job[d] # Missing => job'[d] = job[d] /\ past'[d] = past[d]
  BY <1>1 DEF Alone, Begins, Continues
<1>3. \A d \in Callers : step[d] \in {"done", "failed"} => d # c
  BY <1>1 DEF Begins, Continues
<1>4. ASSUME NEW d \in Callers PROVE \A e \in past'[d] : step'[e] \in {"done", "failed"}
  <2>1. \A e \in past'[d] : e \in Callers /\ step[e] \in {"done", "failed"}
    <3>1. CASE d = c /\ Begins(c)
      BY <1>0, <1>1, <3>1 DEF Begins, Finished
    <3>2. CASE ~(d = c /\ Begins(c))
      BY <1>0, <1>1, <3>2 DEF Alone, Continues, CallStage, SkillsTypeOK
    <3> QED
      BY <3>1, <3>2
  <2> QED
    BY <1>1, <1>3, <2>1 DEF Alone
<1>5. /\ step'[c] = "new" <=> job'[c] = Missing
      /\ step'[c] \in {"write", "cache"} => job'[c].kind = "save"
      /\ step'[c] = "keep" => job'[c].kind = "load" /\ got'[c] # Missing
  <2>0. CallStage(c) /\ c \in DOMAIN job /\ c \in DOMAIN step /\ c \in DOMAIN got
    BY <1>0 DEF SkillsTypeOK
  <2>1. CASE Truncate(c)
    BY <1>1, <2>0, <2>1 DEF Truncate, Enters, CallStage
  <2>2. CASE WriteFile(c)
    BY <2>0, <2>2 DEF WriteFile, CallStage
  <2>3. CASE Remember(c)
    BY <2>0, <2>3 DEF Remember, CallStage
  <2>4. CASE Load(c)
    <3>1. PICK j \in SkillCalls : j.kind = "load"
           /\ IF cached[j.host][j.key] # Missing
              THEN Enters(c, j, "done") /\ got' = [got EXCEPT ![c] = cached[j.host][j.key]]
              ELSE IF IsWhole(j.key)
              THEN Enters(c, j, "keep") /\ got' = [got EXCEPT ![c] = files[j.key]]
              ELSE Enters(c, j, "failed") /\ UNCHANGED got
      BY <2>4 DEF Load
    <3> QED
      BY <2>0, <3>1 DEF Enters, CallStage, IsWhole
  <2>5. CASE Keep(c)
    BY <2>0, <2>5 DEF Keep, CallStage
  <2> QED
    BY <2>1, <2>2, <2>3, <2>4, <2>5
<1>6. ASSUME NEW d \in Callers, d # c PROVE CallStage(d)'
  BY <1>0, <1>1, <1>4, <1>6 DEF Alone, CallStage
<1>7. CallStage(c)'
  BY <1>4, <1>5 DEF CallStage
<1> QED
  BY <1>2, <1>3, <1>6, <1>7

(* A save that is going to write finds its file empty, or one that          *)
(* overlapped it, or that failed, is to blame for what is there.            *)
LEMMA EmptiedStays ==
  ASSUME SkillsInv, NEW c \in Callers, NEW d \in Callers,
         Truncate(c) \/ WriteFile(c) \/ Remember(c) \/ Load(c) \/ Keep(c)
  PROVE  Emptied(d)'
<1> USE SkillAssumption
<1>0. SkillsTypeOK /\ Emptied(d) /\ CallStage(c) /\ CallStage(d)
  BY DEF SkillsInv
<1>1. SkillsTypeOK' /\ Alone(c) /\ (Begins(c) \/ Continues(c))
  BY SkillsStepIsOnes
<1>2. \A e \in Callers : job[e] # Missing => job'[e] = job[e] /\ past'[e] = past[e]
  BY StagesStay
<1> SUFFICES ASSUME step'[d] = "write" PROVE Emptied(d)'
  BY DEF Emptied
<1>5. ASSUME step[d] = "write", NEW x \in Callers, Saves(x, job[d].key),
             step[x] = "failed" \/ Overlap(x, d)
      PROVE  Emptied(d)'
  <2>1. job[d] # Missing /\ job'[d] = job[d] /\ past'[d] = past[d]
    BY <1>0, <1>2, <1>5 DEF CallStage
  <2>2. job[x] # Missing /\ job'[x] = job[x] /\ past'[x] = past[x]
    BY <1>2, <1>5 DEF Saves
  <2>3. step[x] = "failed" => step'[x] = "failed"
    BY <1>1, StagesStay DEF Alone
  <2> QED
    BY <1>5, <2>1, <2>2, <2>3 DEF Emptied, Saves, Overlap
<1>3. CASE Truncate(c)
  <2>1. PICK j \in SkillCalls : j.kind = "save" /\ Enters(c, j, "write")
                          /\ files' = [files EXCEPT ![j.key] = Empty] /\ UNCHANGED <<cached, got>>
    BY <1>3 DEF Truncate
  <2>2. j.key \in SkillKeys
    BY DEF SkillCalls
  <2>3. CASE d = c
    BY <1>0, <2>1, <2>2, <2>3 DEF Enters, SkillsTypeOK, Emptied
  <2>4. CASE d # c
    <3>1. step[d] = "write" /\ job[d] # Missing /\ job[d] \in SkillCalls /\ job[d].key \in SkillKeys
      BY <1>0, <1>1, <2>4 DEF Alone, CallStage, SkillsTypeOK, SkillCalls
    <3>2. files'[job[d].key] = Empty \/ files'[job[d].key] = files[job[d].key]
      BY <1>0, <2>1, <3>1 DEF SkillsTypeOK
    <3>3. job'[d] = job[d]
      BY <1>2, <3>1
    <3> QED
      BY <1>0, <1>5, <3>1, <3>2, <3>3 DEF Emptied
  <2> QED
    BY <2>3, <2>4
<1>4. CASE ~Truncate(c)
  <2>1. d # c /\ step[d] = "write"
    <3>1. step'[c] # "write"
      <4>1. CASE WriteFile(c)
        BY <1>0, <4>1 DEF WriteFile, SkillsTypeOK
      <4>2. CASE Remember(c) \/ Keep(c)
        BY <1>0, <4>2 DEF Remember, Keep, SkillsTypeOK
      <4>3. CASE Load(c)
        BY <1>0, <4>3 DEF Load, Enters, SkillsTypeOK
      <4> QED
        BY <1>4, <4>1, <4>2, <4>3
    <3> QED
      BY <1>1, <3>1 DEF Alone
  <2>2. job[d] # Missing /\ job[d] \in SkillCalls /\ job[d].key \in SkillKeys
    BY <1>0, <2>1 DEF CallStage, SkillsTypeOK, SkillCalls
  <2>3. CASE WriteFile(c)
    <3>1. job[c] # Missing /\ job[c].kind = "save" /\ step[c] = "write"
      BY <1>0, <2>3 DEF WriteFile, CallStage
    <3>2. files'[job[d].key] = files[job[d].key] \/ job[c].key = job[d].key
      BY <1>0, <2>2, <2>3 DEF WriteFile, SkillsTypeOK
    <3>3. CASE job[c].key = job[d].key
      <4>1. c \notin past[d] /\ d \notin past[c]
        BY <1>0, <2>1, <3>1 DEF CallStage
      <4>2. Overlap(c, d) /\ Saves(c, job[d].key)
        BY <2>1, <3>1, <3>3, <4>1 DEF Overlap, Saves
      <4> QED
        BY <1>5, <2>1, <4>2
    <3>4. CASE files'[job[d].key] = files[job[d].key]
      <4>1. job'[d] = job[d]
        BY <1>2, <2>2
      <4> QED
        BY <1>0, <1>5, <2>1, <3>4, <4>1 DEF Emptied
    <3> QED
      BY <3>2, <3>3, <3>4
  <2>4. CASE ~WriteFile(c)
    <3>1. files' = files /\ job'[d] = job[d]
      BY <1>2, <1>4, <2>2, <2>4 DEF Remember, Load, Keep
    <3> QED
      BY <1>0, <1>5, <2>1, <3>1 DEF Emptied
  <2> QED
    BY <2>3, <2>4
<1> QED
  BY <1>3, <1>4

(* What the step of c does to the files and the caches. *)
LEMMA SkillsEffects ==
  ASSUME SkillsInv, NEW c \in Callers,
         Truncate(c) \/ WriteFile(c) \/ Remember(c) \/ Load(c) \/ Keep(c)
  PROVE  /\ \A k \in SkillKeys : files'[k] # files[k] =>
                \/ Saves(c, k)' /\ step'[c] \in {"write", "failed"}
                \/ files'[k] = c
                \/ WriteFile(c) /\ Saves(c, k) /\ files[k] # Empty
         /\ \A p \in Hosts, k \in SkillKeys : cached'[p][k] # cached[p][k] =>
                /\ job[c] # Missing /\ job[c].host = p /\ job[c].key = k /\ step[c] \in {"cache", "keep"}
                /\ \/ cached'[p][k] = c
                   \/ step[c] = "keep" /\ cached'[p][k] = got[c]
<1> USE SkillAssumption
<1>0. SkillsTypeOK /\ CallStage(c) /\ job[c] \in SkillCalls \cup {Missing}
  BY DEF SkillsInv, SkillsTypeOK
<1>1. CASE Truncate(c)
  <2>1. PICK j \in SkillCalls : j.kind = "save" /\ Enters(c, j, "write")
                          /\ files' = [files EXCEPT ![j.key] = Empty] /\ UNCHANGED <<cached, got>>
    BY <1>1 DEF Truncate
  <2> QED
    BY <1>0, <2>1 DEF Enters, SkillsTypeOK, Saves
<1>2. CASE WriteFile(c)
  <2>1. Saves(c, job[c].key) /\ job[c].key \in SkillKeys /\ job' = job /\ UNCHANGED cached
    BY <1>0, <1>2 DEF WriteFile, CallStage, Saves, SkillCalls
  <2>2. ASSUME NEW k \in SkillKeys, files'[k] # files[k]
        PROVE  \/ Saves(c, k)' /\ step'[c] \in {"write", "failed"}
               \/ files'[k] = c
               \/ WriteFile(c) /\ Saves(c, k) /\ files[k] # Empty
    <3>1. k = job[c].key
      BY <1>0, <1>2, <2>2 DEF WriteFile, SkillsTypeOK
    <3> QED
      BY <1>0, <1>2, <2>1, <3>1 DEF WriteFile, SkillsTypeOK, Saves
  <2> QED
    BY <2>1, <2>2
<1>3. CASE Remember(c)
  BY <1>0, <1>3 DEF Remember, SkillsTypeOK, CallStage
<1>4. CASE Load(c)
  BY <1>4 DEF Load
<1>5. CASE Keep(c)
  BY <1>0, <1>5 DEF Keep, SkillsTypeOK, CallStage
<1> QED
  BY <1>1, <1>2, <1>3, <1>4, <1>5

(* A file that does not parse has a save to blame. *)
LEMMA BlamedStays ==
  ASSUME SkillsInv, NEW c \in Callers, NEW k \in SkillKeys,
         Truncate(c) \/ WriteFile(c) \/ Remember(c) \/ Load(c) \/ Keep(c)
  PROVE  Blamed(k)'
<1> USE SkillAssumption
<1>0. SkillsTypeOK /\ Blamed(k) /\ CallStage(c) /\ Emptied(c)
  BY DEF SkillsInv
<1>1. SkillsTypeOK' /\ Alone(c) /\ (Begins(c) \/ Continues(c))
  BY SkillsStepIsOnes
<1>2. \A e \in Callers : job[e] # Missing => job'[e] = job[e] /\ past'[e] = past[e]
  BY StagesStay
<1>3. \A e \in Callers : Saves(e, k) => Saves(e, k)'
  BY <1>2 DEF Saves
<1>4. \A e, f \in Callers : Saves(e, k) /\ Saves(f, k) /\ Overlap(e, f) => Overlap(e, f)'
  BY <1>2 DEF Saves, Overlap
<1> SUFFICES ASSUME files'[k] \in {Empty, Torn} PROVE Blamed(k)'
  BY DEF Blamed
<1>5. CASE WriteFile(c) /\ job[c].key = k
  <2>1. Saves(c, k) /\ step[c] = "write"
    BY <1>0, <1>5 DEF WriteFile, CallStage, Saves
  <2>2. CASE step'[c] = "failed"
    BY <1>3, <2>1, <2>2 DEF Blamed
  <2>3. CASE step'[c] # "failed"
    <3>1. files[k] # Empty
      BY <1>0, <1>5, <2>3 DEF WriteFile, SkillsTypeOK
    <3>2. PICK x \in Callers : Saves(x, k) /\ (step[x] = "failed" \/ Overlap(x, c))
      BY <1>0, <1>5, <2>1, <3>1 DEF Emptied
    <3>3. CASE step[x] = "failed"
      <4>1. step'[x] = "failed"
        BY <1>1, <2>1, <3>3 DEF Alone
      <4> QED
        BY <1>3, <3>2, <4>1 DEF Blamed
    <3>4. CASE Overlap(x, c)
      BY <1>3, <1>4, <2>1, <3>2, <3>4 DEF Blamed
    <3> QED
      BY <3>2, <3>3, <3>4
  <2> QED
    BY <2>2, <2>3
<1>6. CASE ~(WriteFile(c) /\ job[c].key = k)
  <2>1. CASE files[k] \in {Empty, Torn}
    <3>1. CASE \E e, f \in Callers : Saves(e, k) /\ Saves(f, k) /\ Overlap(e, f)
      BY <1>3, <1>4, <3>1 DEF Blamed
    <3>2. CASE \E e \in Callers : Saves(e, k) /\ step[e] \in {"write", "failed"}
      <4>1. PICK e \in Callers : Saves(e, k) /\ step[e] \in {"write", "failed"}
        BY <3>2
      <4>2. e # c
        BY <1>0, <1>1, <1>6, <4>1 DEF Begins, Continues, Saves, WriteFile, Truncate, Remember, Load, Keep, Enters
      <4> QED
        BY <1>1, <1>3, <4>1, <4>2 DEF Alone, Blamed
    <3> QED
      BY <1>0, <2>1, <3>1, <3>2 DEF Blamed
  <2>2. CASE files[k] \notin {Empty, Torn}
    <3>1. Saves(c, k)' /\ step'[c] \in {"write", "failed"}
      BY <1>6, <2>2, SkillsEffects DEF Saves
    <3> QED
      BY <3>1 DEF Blamed
  <2> QED
    BY <2>1, <2>2
<1> QED
  BY <1>5, <1>6

(* What a process remembers after a save is not older than the save. *)
LEMMA RememberedStays ==
  ASSUME SkillsInv, NEW c \in Callers, NEW s \in Callers,
         Truncate(c) \/ WriteFile(c) \/ Remember(c) \/ Load(c) \/ Keep(c)
  PROVE  Remembered(s)'
<1> USE SkillAssumption
<1>0. SkillsTypeOK /\ Remembered(s) /\ CallStage(c) /\ CallStage(s) /\ ReadsFirst(c)
  BY DEF SkillsInv
<1>1. SkillsTypeOK' /\ Alone(c) /\ (Begins(c) \/ Continues(c))
  BY SkillsStepIsOnes
<1>2. \A e \in Callers : job[e] # Missing => job'[e] = job[e] /\ past'[e] = past[e]
  BY StagesStay
<1> SUFFICES ASSUME step'[s] = "done", job'[s].kind = "save" PROVE Remembered(s)'
  BY DEF Remembered
<1>3. CASE s = c
  <2>1. Remember(c)
    <3>1. ~Load(c)
      BY <1>0, <1>3 DEF Load, Enters, SkillsTypeOK
    <3>2. ~Keep(c)
      BY <1>0, <1>3 DEF Keep, CallStage
    <3>3. ~WriteFile(c)
      BY <1>0, <1>3 DEF WriteFile, SkillsTypeOK
    <3>4. ~Truncate(c)
      BY <1>0, <1>3 DEF Truncate, Enters, SkillsTypeOK
    <3> QED
      BY <3>1, <3>2, <3>3, <3>4
  <2>2. job[c] \in SkillCalls /\ job[c].host \in Hosts /\ job[c].key \in SkillKeys
    BY <1>0, <2>1 DEF Remember, SkillsTypeOK, SkillCalls, CallStage
  <2>3. cached'[job'[c].host][job'[c].key] = c
    BY <1>0, <2>1, <2>2 DEF Remember, SkillsTypeOK
  <2> QED
    BY <1>3, <2>3 DEF Remembered
<1>4. CASE s # c
  <2>1. step[s] = "done" /\ job[s] # Missing /\ job'[s] = job[s] /\ past'[s] = past[s]
    BY <1>0, <1>1, <1>4 DEF Alone, CallStage
  <2>2. job[s] \in SkillCalls /\ job[s].host \in Hosts /\ job[s].key \in SkillKeys
    BY <1>0, <2>1 DEF SkillsTypeOK, SkillCalls
  <2>3. \A x \in Callers : job[x] # Missing /\ SameTemplate(x, s) /\ Overlap(x, s)
                         => job'[x] # Missing /\ SameTemplate(x, s)' /\ Overlap(x, s)'
    BY <1>2, <2>1 DEF SameTemplate, Overlap
  <2>4. CASE cached'[job[s].host][job[s].key] = cached[job[s].host][job[s].key]
    BY <1>0, <2>1, <2>3, <2>4 DEF Remembered
  <2>5. CASE cached'[job[s].host][job[s].key] # cached[job[s].host][job[s].key]
    <3>1. /\ job[c] # Missing /\ SameTemplate(c, s) /\ step[c] \in {"cache", "keep"}
          /\ \/ cached'[job[s].host][job[s].key] = c
             \/ step[c] = "keep" /\ cached'[job[s].host][job[s].key] = got[c]
      BY <2>2, <2>5, SkillsEffects DEF SameTemplate
    <3>2. c \notin past[s]
      BY <1>0, <3>1 DEF CallStage
    <3>3. CASE cached'[job[s].host][job[s].key] = c
      BY <2>1, <3>2, <3>3 DEF Remembered
    <3>4. CASE step[c] = "keep" /\ cached'[job[s].host][job[s].key] = got[c]
      <4>1. s \notin past[c]
        BY <1>0, <2>1, <3>1, <3>4 DEF ReadsFirst, SameTemplate
      <4>2. Overlap(c, s)
        BY <1>4, <3>2, <4>1 DEF Overlap
      <4>3. got[c] # Missing
        BY <1>0, <3>4 DEF CallStage
      <4> QED
        BY <2>1, <2>3, <3>1, <3>4, <4>2, <4>3 DEF Remembered
    <3> QED
      BY <3>1, <3>3, <3>4
  <2> QED
    BY <2>4, <2>5
<1> QED
  BY <1>3, <1>4

(* A call that reads the file began before any save of it was done. *)
LEMMA ReadsFirstStays ==
  ASSUME SkillsInv, NEW c \in Callers, NEW d \in Callers,
         Truncate(c) \/ WriteFile(c) \/ Remember(c) \/ Load(c) \/ Keep(c)
  PROVE  ReadsFirst(d)'
<1> USE SkillAssumption
<1>0. SkillsTypeOK /\ ReadsFirst(d) /\ CallStage(c) /\ CallStage(d)
  BY DEF SkillsInv
<1>1. SkillsTypeOK' /\ Alone(c) /\ (Begins(c) \/ Continues(c))
  BY SkillsStepIsOnes
<1>2. \A e \in Callers : job[e] # Missing => job'[e] = job[e] /\ past'[e] = past[e]
  BY StagesStay
<1>3. \A e \in Callers : step[e] \in {"done", "failed"} => e # c
  BY StagesStay
<1> SUFFICES ASSUME step'[d] = "keep", NEW s \in past'[d],
                    step'[s] = "done", job'[s].kind = "save", SameTemplate(s, d)'
             PROVE  FALSE
  BY DEF ReadsFirst
<1>4. s \in Callers
  BY <1>1 DEF SkillsTypeOK
<1>5. CASE step[d] = "keep" /\ past'[d] = past[d] /\ job'[d] = job[d]
  <2>1. s # c /\ step[s] = "done" /\ job'[s] = job[s]
    BY <1>0, <1>1, <1>3, <1>4, <1>5 DEF CallStage, Alone
  <2> QED
    BY <1>0, <1>5, <2>1 DEF ReadsFirst, SameTemplate
<1>6. CASE ~(step[d] = "keep" /\ past'[d] = past[d] /\ job'[d] = job[d])
  <2>1. d = c
    BY <1>1, <1>6 DEF Alone
  <2>2. Load(c)
    <3>1. ~Truncate(c)
      BY <1>0, <2>1 DEF Truncate, Enters, SkillsTypeOK
    <3>2. ~WriteFile(c)
      BY <1>0, <2>1 DEF WriteFile, SkillsTypeOK
    <3>3. ~Remember(c) /\ ~Keep(c)
      BY <1>0, <2>1 DEF Remember, Keep, SkillsTypeOK
    <3> QED
      BY <3>1, <3>2, <3>3
  <2>3. PICK j \in SkillCalls : /\ j.kind = "load" /\ cached[j.host][j.key] = Missing
                          /\ Enters(c, j, "keep")
    BY <1>0, <2>1, <2>2 DEF Load, Enters, SkillsTypeOK
  <2>4. job'[c] = j /\ past'[c] = Finished
    BY <1>0, <2>3 DEF Enters, SkillsTypeOK
  <2>5. s # c /\ step[s] = "done" /\ job'[s] = job[s]
    BY <1>1, <1>3, <1>4, <2>1, <2>4 DEF Finished, Alone
  <2>6. Remembered(s)
    BY <1>4 DEF SkillsInv
  <2> QED
    BY <2>1, <2>3, <2>4, <2>5, <2>6 DEF Remembered, SameTemplate
<1> QED
  BY <1>5, <1>6

(* A load is not older than a save that was done before it. *)
LEMMA LatestStays ==
  ASSUME SkillsInv, NEW c \in Callers, NEW d \in Callers, NEW s \in Callers,
         Truncate(c) \/ WriteFile(c) \/ Remember(c) \/ Load(c) \/ Keep(c)
  PROVE  Latest(d, s)'
<1> USE SkillAssumption
<1>0. SkillsTypeOK /\ Latest(d, s) /\ CallStage(c) /\ CallStage(d) /\ Remembered(s) /\ ReadsFirst(d)
  BY DEF SkillsInv
<1>1. SkillsTypeOK' /\ Alone(c) /\ (Begins(c) \/ Continues(c))
  BY SkillsStepIsOnes
<1>2. \A e \in Callers : job[e] # Missing => job'[e] = job[e] /\ past'[e] = past[e]
  BY StagesStay
<1>3. \A e \in Callers : step[e] \in {"done", "failed"} => e # c
  BY StagesStay
<1> SUFFICES ASSUME step'[d] = "done", job'[d].kind = "load",
                    s \in past'[d], step'[s] = "done", job'[s].kind = "save", SameTemplate(s, d)'
             PROVE  \/ got'[d] = s \/ got'[d] \notin past'[s]
                    \/ \E x \in Callers \ {d} :
                          job'[x] # Missing /\ SameTemplate(x, s)' /\ Overlap(x, s)'
  BY DEF Latest
<1>4. s # c /\ step[s] = "done" /\ job'[s] = job[s] /\ past'[s] = past[s] /\ job[s] # Missing
  <2>1. step[s] \in {"done", "failed"} /\ CallStage(s)
    BY <1>0, <1>1 DEF Begins, Continues, Finished, CallStage, Alone, SkillsInv
  <2> QED
    BY <1>1, <1>3, <2>1 DEF Alone, CallStage
<1>5. \A x \in Callers : job[x] # Missing /\ SameTemplate(x, s) /\ Overlap(x, s)
                         => job'[x] # Missing /\ SameTemplate(x, s)' /\ Overlap(x, s)'
  BY <1>2, <1>4 DEF SameTemplate, Overlap
<1>6. CASE d # c
  BY <1>0, <1>1, <1>4, <1>5, <1>6 DEF Latest, Alone, SameTemplate
<1>7. CASE d = c
  <2>1. CASE Load(c)
    <3>1. PICK j \in SkillCalls : /\ j.kind = "load" /\ cached[j.host][j.key] # Missing
                            /\ Enters(c, j, "done")
                            /\ got' = [got EXCEPT ![c] = cached[j.host][j.key]]
      BY <1>0, <1>7, <2>1 DEF Load, Enters, SkillsTypeOK
    <3>2. job[c] = Missing /\ job'[c] = j /\ got'[c] = cached[j.host][j.key]
      BY <1>0, <3>1 DEF Enters, SkillsTypeOK, CallStage
    <3>3. j.host = job[s].host /\ j.key = job[s].key
      BY <1>4, <1>7, <3>2 DEF SameTemplate
    <3> QED
      BY <1>0, <1>4, <1>5, <1>7, <3>2, <3>3 DEF Remembered
  <2>2. CASE Keep(c)
    BY <1>0, <1>1, <1>4, <1>7, <2>2 DEF Keep, Continues, Begins, ReadsFirst, SameTemplate
  <2>3. ~Truncate(c) /\ ~WriteFile(c)
    BY <1>0, <1>7 DEF Truncate, WriteFile, Enters, SkillsTypeOK
  <2>4. ~Remember(c)
    BY <1>0, <1>7 DEF Remember, CallStage
  <2> QED
    BY <2>1, <2>2, <2>3, <2>4
<1> QED
  BY <1>6, <1>7

(* The invariant is kept by every step. *)
LEMMA SkillsInvStep == SkillsInv /\ [SkillsNext]_skillVars => SkillsInv'
<1> SUFFICES ASSUME SkillsInv, [SkillsNext]_skillVars PROVE SkillsInv'
  OBVIOUS
<1>1. CASE UNCHANGED skillVars
  BY <1>1 DEF skillVars, SkillsInv, SkillsTypeOK, CallStage, Emptied, Remembered, ReadsFirst, Blamed,
              Latest, Saves, SameTemplate, Overlap
<1>2. CASE SkillsNext
  <2>1. PICK c \in Callers : Truncate(c) \/ WriteFile(c) \/ Remember(c) \/ Load(c) \/ Keep(c)
    BY <1>2 DEF SkillsNext
  <2>2. SkillsTypeOK'
    BY <2>1, SkillsStepIsOnes
  <2>3. \A d \in Callers : CallStage(d)'
    BY <2>1, StagesStay
  <2>4. \A d \in Callers : Emptied(d)' /\ Remembered(d)' /\ ReadsFirst(d)'
    BY <2>1, EmptiedStays, RememberedStays, ReadsFirstStays
  <2>5. \A k \in SkillKeys : Blamed(k)'
    BY <2>1, BlamedStays
  <2>6. \A d, s \in Callers : Latest(d, s)'
    BY <2>1, LatestStays
  <2>7. Callers' = Callers /\ SkillKeys' = SkillKeys
    BY DEF SkillKeys
  <2> QED
    BY <2>2, <2>3, <2>4, <2>5, <2>6, <2>7 DEF SkillsInv
<1> QED
  BY <1>1, <1>2

(* The invariant holds of every behaviour: calls are typed, and where they  *)
(* are says what the files and caches hold.                                 *)
THEOREM SkillCallsAreSound == SkillsSpec => []SkillsInv
BY SkillsInitially, SkillsInvStep, PTL DEF SkillsSpec

(* For any processes, calls and templates, a file that does not parse has a *)
(* save under way, a failed one, or two that overlapped (center.py:46).     *)
THEOREM TornFilesAreBlamed == SkillsSpec => []TornForACause
<1>1. SkillsInv => TornForACause
  BY DEF SkillsInv, Blamed, TornForACause, Saves, Overlap
<1> QED
  BY <1>1, SkillCallsAreSound, PTL

(* For any processes, calls and templates, what is loaded is not older than *)
(* what the same process acknowledged before, unless a call overlapped the  *)
(* save (center.py:57).                                                     *)
THEOREM LoadsAreLatest == SkillsSpec => []LoadIsLatest
<1>1. SkillsInv => LoadIsLatest
  <2> SUFFICES ASSUME SkillsInv, NEW c \in Callers, NEW s \in Callers,
                      job[c] # Missing, job[c].kind = "load", step[c] = "done",
                      s \in past[c], step[s] = "done",
                      job[s] = [host |-> job[c].host, key |-> job[c].key, kind |-> "save"]
               PROVE  \/ got[c] = s \/ got[c] \notin past[s]
                      \/ \E x \in Callers \ {s, c} :
                           /\ job[x] # Missing /\ job[x].host = job[s].host /\ job[x].key = job[s].key
                           /\ x \notin past[s] /\ s \notin past[x]
    BY DEF LoadIsLatest
  <2>1. Latest(c, s) /\ SameTemplate(s, c) /\ job[s].kind = "save"
    BY DEF SkillsInv, SameTemplate
  <2> QED
    BY <2>1 DEF Latest, SameTemplate, Overlap
<1> QED
  BY <1>1, SkillCallsAreSound, PTL
------------------------------------------------------------------------------
(* Skills: which version a run is given.                                    *)

(* Two lists of numbers do not each come after the other.                   *)
LEMMA GreaterOneWay ==
  ASSUME NEW a \in Seq(Nat), NEW b \in Seq(Nat), Greater(a, b)
  PROVE  ~Greater(b, a)
<1> SUFFICES ASSUME Greater(b, a) PROVE FALSE
  OBVIOUS
<1>1. PICK n \in DOMAIN a : /\ \A l \in 1 .. (n - 1) : l \in DOMAIN b /\ a[l] = b[l]
                            /\ n \in DOMAIN b => a[n] > b[n]
  BY DEF Greater
<1>2. PICK m \in DOMAIN b : /\ \A l \in 1 .. (m - 1) : l \in DOMAIN a /\ b[l] = a[l]
                            /\ m \in DOMAIN a => b[m] > a[m]
  BY DEF Greater
<1>3. /\ DOMAIN a = 1 .. Len(a) /\ DOMAIN b = 1 .. Len(b) /\ Len(a) \in Nat /\ Len(b) \in Nat
      /\ \A l \in DOMAIN a : a[l] \in Nat
      /\ \A l \in DOMAIN b : b[l] \in Nat
  OBVIOUS
<1>4. CASE n < m
  <2>1. n \in 1 .. (m - 1) /\ n \in DOMAIN b
    BY <1>3, <1>4
  <2> QED
    BY <1>1, <1>2, <1>3, <2>1
<1>5. CASE m < n
  <2>1. m \in 1 .. (n - 1) /\ m \in DOMAIN a
    BY <1>3, <1>5
  <2> QED
    BY <1>1, <1>2, <1>3, <2>1
<1>6. CASE n = m
  BY <1>1, <1>2, <1>3, <1>6
<1> QED
  BY <1>3, <1>4, <1>5, <1>6

(* Of two lists in their order, any third comes before the later or after   *)
(* the earlier.                                                             *)
LEMMA GreaterSplits ==
  ASSUME NEW a \in Seq(Nat), NEW b \in Seq(Nat), NEW c \in Seq(Nat), Greater(a, c)
  PROVE  Greater(a, b) \/ Greater(b, c)
<1>1. PICK n \in DOMAIN a : /\ \A l \in 1 .. (n - 1) : l \in DOMAIN c /\ a[l] = c[l]
                            /\ n \in DOMAIN c => a[n] > c[n]
  BY DEF Greater
<1>2. /\ DOMAIN a = 1 .. Len(a) /\ DOMAIN b = 1 .. Len(b) /\ DOMAIN c = 1 .. Len(c)
      /\ Len(a) \in Nat /\ Len(b) \in Nat /\ Len(c) \in Nat
      /\ \A l \in DOMAIN a : a[l] \in Nat
      /\ \A l \in DOMAIN b : b[l] \in Nat
      /\ \A l \in DOMAIN c : c[l] \in Nat
  OBVIOUS
<1> DEFINE T == {l \in 1 .. (n - 1) : l \notin DOMAIN b \/ b[l] # a[l]}
<1>3. CASE T = {}
  <2>1. \A l \in 1 .. (n - 1) : l \in DOMAIN b /\ a[l] = b[l] /\ l \in DOMAIN c /\ b[l] = c[l]
    BY <1>1, <1>3
  <2>2. CASE n \notin DOMAIN b \/ a[n] > b[n]
    BY <2>1, <2>2 DEF Greater
  <2>3. CASE n \in DOMAIN b /\ ~(a[n] > b[n])
    <3>1. n \in DOMAIN c => b[n] > c[n]
      BY <1>1, <1>2, <2>3
    <3> QED
      BY <2>1, <2>3, <3>1 DEF Greater
  <2> QED
    BY <2>2, <2>3
<1>4. CASE T # {}
  <2>1. T \subseteq Nat
    BY <1>2
  <2>2. PICK m \in T : \A l \in T : m <= l
    BY <1>4, <2>1, LeastNumber
  <2>3. m \in 1 .. (n - 1) /\ m \in DOMAIN a /\ m \in DOMAIN c /\ a[m] = c[m]
    BY <1>1, <1>2
  <2>4. \A l \in 1 .. (m - 1) : l \in 1 .. (n - 1) /\ l \notin T
    <3> SUFFICES ASSUME NEW l \in 1 .. (m - 1) PROVE l \in 1 .. (n - 1) /\ l \notin T
      OBVIOUS
    <3> HIDE DEF T
    <3>0. n \in Nat /\ m \in 1 .. (n - 1)
      BY <1>2, <2>3
    <3>1. l \in 1 .. (n - 1) /\ l < m /\ l \in Nat /\ m \in Nat
      BY <3>0
    <3> QED
      BY <2>2, <3>1
  <2>5. \A l \in 1 .. (m - 1) : l \in DOMAIN b /\ a[l] = b[l] /\ l \in DOMAIN c /\ b[l] = c[l]
    BY <1>1, <2>4
  <2>6. CASE m \notin DOMAIN b \/ a[m] > b[m]
    BY <2>3, <2>5, <2>6 DEF Greater
  <2>7. CASE m \in DOMAIN b /\ ~(a[m] > b[m])
    <3>1. b[m] # a[m]
      BY <2>2, <2>7
    <3>2. b[m] > c[m]
      BY <1>2, <2>3, <2>7, <3>1
    <3> QED
      BY <2>5, <2>7, <3>2 DEF Greater
  <2> QED
    BY <2>6, <2>7
<1> QED
  BY <1>3, <1>4

(* The order of versions, as its uses need it.                              *)
LEMMA GreaterOrders ==
  ASSUME NEW a \in Seq(Nat), NEW b \in Seq(Nat), NEW c \in Seq(Nat)
  PROVE  /\ ~Greater(a, a)
         /\ ~Greater(a, b) /\ Greater(c, b) => ~Greater(a, c)
         /\ ~Greater(a, b) /\ ~Greater(b, c) => ~Greater(a, c)
<1>1. ~Greater(a, a)
  BY GreaterOneWay
<1>2. ASSUME Greater(a, c) PROVE Greater(a, b) \/ Greater(b, c)
  BY <1>2, GreaterSplits
<1>3. ASSUME Greater(c, b) PROVE ~Greater(b, c)
  BY <1>3, GreaterOneWay
<1> QED
  BY <1>1, <1>2, <1>3

(* LatestVersion: the version listed after file n, from the one before it.  *)
NextBest(s, best, n) ==
  IF IsWhole(<<s, n>>) /\ (best = 0 \/ VersionGt(n, best)) THEN n ELSE best

(* The version a skill is listed with, as its files are gone through.       *)
LEMMA VersionsRead ==
  ASSUME NEW s
  PROVE  \E g : /\ g \in [0 .. Len(Versions) -> 0 .. Len(Versions)] /\ g[0] = 0
                /\ \A n \in 1 .. Len(Versions) : g[n] = NextBest(s, g[n - 1], n)
                /\ LatestVersion(s) = g[Len(Versions)]
<1> DEFINE N == Len(Versions)
           F(g) == [n \in 0 .. N |->
                     IF n = 0 THEN 0
                     ELSE IF IsWhole(<<s, n>>) /\ (g[n - 1] = 0 \/ VersionGt(n, g[n - 1]))
                     THEN n ELSE g[n - 1]]
           h == CHOOSE g : g = F(g)
           f == [p \in (1 .. N) \X (0 .. N) |-> NextBest(s, p[2], p[1])]
<1>1. N \in Nat
  BY SkillAssumption
<1>2. LatestVersion(s) = h[N]
  BY DEF LatestVersion
<1>3. \A n \in 1 .. N, m \in 0 .. N : f[<<n, m>>] = NextBest(s, m, n)
  OBVIOUS
<1>4. f \in [(1 .. N) \X (0 .. N) -> 0 .. N]
  BY <1>1 DEF NextBest
<1> HIDE DEF f, N
<1>5. PICK g : Recurs(g, N, 0 .. N, 0, f)
  <2>1. 0 \in 0 .. N
    BY <1>1
  <2> QED
    BY <1>1, <1>4, <2>1, RecursiveFunction
<1>6. g \in [0 .. N -> 0 .. N] /\ g[0] = 0 /\ \A n \in 1 .. N : g[n] = f[<<n, g[n - 1]>>]
  BY <1>5 DEF Recurs
<1>7. \A n \in 1 .. N : n - 1 \in 0 .. N /\ g[n] = NextBest(s, g[n - 1], n)
  <2> SUFFICES ASSUME NEW n \in 1 .. N
               PROVE  n - 1 \in 0 .. N /\ g[n] = NextBest(s, g[n - 1], n)
    OBVIOUS
  <2>1. n - 1 \in 0 .. N
    BY <1>1
  <2>2. g[n - 1] \in 0 .. N
    BY <1>6, <2>1
  <2> QED
    BY <1>3, <1>6, <2>1, <2>2
<1>8. g = F(g)
  <2>1. \A n \in 0 .. N : g[n] = F(g)[n]
    BY <1>1, <1>6, <1>7 DEF NextBest
  <2> QED
    BY <1>6, <2>1
<1>9. h = F(h)
  BY <1>8
<1> HIDE DEF h
<1>10. DOMAIN h = 0 .. N /\ h[0] = 0 /\ \A n \in 1 .. N : h[n] = NextBest(s, h[n - 1], n)
  BY <1>1, <1>9 DEF NextBest
<1>11. \A n \in 0 .. N : h[n] \in 0 .. N
  <2> DEFINE H == {n \in 0 .. N : h[n] \in 0 .. N}
  <2>1. 0 \in H
    BY <1>1, <1>10
  <2>2. \A n \in 1 .. N : n - 1 \in H => n \in H
    <3> SUFFICES ASSUME NEW n \in 1 .. N, n - 1 \in H PROVE h[n] \in 0 .. N /\ n \in 0 .. N
      OBVIOUS
    <3>1. h[n] = NextBest(s, h[n - 1], n) /\ h[n - 1] \in 0 .. N
      BY <1>10
    <3>2. h[n] = n \/ h[n] = h[n - 1]
      BY <3>1 DEF NextBest
    <3> QED
      BY <1>1, <3>1, <3>2
  <2> HIDE DEF H
  <2>3. \A n \in 0 .. N : n \in H
    BY <1>1, <2>1, <2>2, Induction
  <2> QED
    BY <2>3 DEF H
<1>12. h \in [0 .. N -> 0 .. N]
  BY <1>9, <1>11
<1> QED
  BY <1>2, <1>10, <1>12 DEF N

(* A skill is listed with its highest version, when its versions are        *)
(* numeric, and with none only when it has no file.                         *)
LEMMA VersionsListed ==
  ASSUME NEW s, \A n \in DOMAIN Versions : IsWhole(<<s, n>>) => Versions[n].numbers # <<>>
  PROVE  /\ LatestVersion(s) \in 0 .. Len(Versions)
         /\ LatestVersion(s) = 0 => \A n \in DOMAIN Versions : ~IsWhole(<<s, n>>)
         /\ LatestVersion(s) # 0 =>
              /\ IsWhole(<<s, LatestVersion(s)>>)
              /\ \A n \in DOMAIN Versions : IsWhole(<<s, n>>) =>
                   ~Greater(Versions[n].numbers, Versions[LatestVersion(s)].numbers)
<1> DEFINE N == Len(Versions)
           num(n) == Versions[n].numbers
           Best(m, n) == /\ m = 0 => \A l \in 1 .. n : ~IsWhole(<<s, l>>)
                         /\ m # 0 => /\ IsWhole(<<s, m>>)
                                     /\ \A l \in 1 .. n : IsWhole(<<s, l>>) => ~Greater(num(l), num(m))
<1>1. /\ N \in Nat /\ DOMAIN Versions = 1 .. N
      /\ \A n \in 1 .. N : num(n) \in Seq(Nat)
  BY SkillAssumption DEF Range
<1>2. PICK g : /\ g \in [0 .. N -> 0 .. N] /\ g[0] = 0
               /\ \A n \in 1 .. N : g[n] = NextBest(s, g[n - 1], n)
               /\ LatestVersion(s) = g[N]
  BY VersionsRead
<1>3. \A n \in 1 .. N : IsWhole(<<s, n>>) => num(n) # <<>>
  BY <1>1
<1>4. \A m, n \in 1 .. N :
        IsWhole(<<s, m>>) /\ IsWhole(<<s, n>>) => (VersionGt(m, n) <=> Greater(num(m), num(n)))
  BY <1>3 DEF VersionGt
<1> HIDE DEF num, N
<1> DEFINE H == {n \in 0 .. N : Best(g[n], n)}
<1>5. 0 \in H
  BY <1>1, <1>2
<1>6. ASSUME NEW n \in 1 .. N, n - 1 \in H PROVE n \in H
  <2>1. n - 1 \in 0 .. N /\ n \in 0 .. N /\ 1 .. n = (1 .. (n - 1)) \cup {n}
    BY <1>1
  <2> DEFINE m == g[n - 1]
  <2>2. m \in 0 .. N /\ Best(m, n - 1) /\ g[n] = NextBest(s, m, n)
    BY <1>2, <1>6, <2>1
  <2> HIDE DEF m
  <2>3. CASE ~IsWhole(<<s, n>>)
    <3>1. g[n] = m
      BY <2>2, <2>3 DEF NextBest
    <3>2. Best(m, n)
      BY <2>1, <2>2, <2>3
    <3> QED
      BY <2>1, <3>1, <3>2
  <2>4. CASE IsWhole(<<s, n>>) /\ m = 0
    <3>1. g[n] = n
      BY <2>2, <2>4 DEF NextBest
    <3>2. ~Greater(num(n), num(n)) /\ n # 0
      BY <1>1, GreaterOrders
    <3>3. Best(n, n)
      BY <2>1, <2>2, <2>4, <3>2
    <3> QED
      BY <2>1, <3>1, <3>3
  <2>5. CASE IsWhole(<<s, n>>) /\ m # 0
    <3>1. IsWhole(<<s, m>>) /\ m \in 1 .. N /\ \A l \in 1 .. (n - 1) : IsWhole(<<s, l>>) => ~Greater(num(l), num(m))
      BY <1>1, <2>2, <2>5
    <3>2. VersionGt(n, m) <=> Greater(num(n), num(m))
      BY <1>4, <2>5, <3>1
    <3>3. \A l \in 1 .. (n - 1) : l \in 1 .. N
      BY <1>1
    <3>4. CASE VersionGt(n, m)
      <4>1. g[n] = n /\ n # 0
        BY <1>1, <2>2, <2>5, <3>4 DEF NextBest
      <4>2. ASSUME NEW l \in 1 .. (n - 1), IsWhole(<<s, l>>) PROVE ~Greater(num(l), num(n))
        <5>1. num(l) \in Seq(Nat) /\ num(m) \in Seq(Nat) /\ num(n) \in Seq(Nat)
          BY <1>1, <3>1, <3>3
        <5>2. ~Greater(num(l), num(m)) /\ Greater(num(n), num(m))
          BY <3>1, <3>2, <3>4, <4>2
        <5> QED
          BY <5>1, <5>2, GreaterOrders
      <4>3. ~Greater(num(n), num(n))
        BY <1>1, GreaterOrders
      <4>4. Best(n, n)
        BY <2>1, <2>5, <4>1, <4>2, <4>3
      <4> QED
        BY <2>1, <4>1, <4>4
    <3>5. CASE ~VersionGt(n, m)
      <4>1. g[n] = m
        BY <2>2, <2>5, <3>5 DEF NextBest
      <4>2. Best(m, n)
        BY <2>1, <2>5, <3>1, <3>2, <3>5
      <4> QED
        BY <2>1, <4>1, <4>2
    <3> QED
      BY <3>4, <3>5
  <2> QED
    BY <2>3, <2>4, <2>5
<1> HIDE DEF H
<1>7. N \in H
  <2>1. \A n \in 0 .. N : n \in H
    BY <1>1, <1>5, <1>6, Induction
  <2> QED
    BY <1>1, <2>1
<1>8. Best(LatestVersion(s), N) /\ LatestVersion(s) \in 0 .. N
  BY <1>1, <1>2, <1>7 DEF H
<1> QED
  BY <1>1, <1>8 DEF N, num

(* Merged: the choice after skill n, from the one before it.                *)
NextNamed(name, best, n) ==
  IF /\ IsNamed(SkillIds[n], name)
     /\ best = <<>> \/ VersionGt(LatestVersion(SkillIds[n]), best[2])
  THEN <<SkillIds[n], LatestVersion(SkillIds[n])>> ELSE best
Choices == {<<>>} \cup SkillKeys

(* The skill ids are a sequence.                                            *)
LEMMA SkillsCounted ==
  /\ Len(SkillIds) \in Nat /\ DOMAIN SkillIds = 1 .. Len(SkillIds)
  /\ \A n \in 1 .. Len(SkillIds) : SkillIds[n] \in Range(SkillIds)
  /\ \A s \in Range(SkillIds) : \E n \in 1 .. Len(SkillIds) : SkillIds[n] = s
  BY SkillAssumption DEF Range

(* A choice is nothing or a file.                                           *)
LEMMA NamedNext ==
  ASSUME NEW name, NEW best \in Choices, NEW n \in 1 .. Len(SkillIds)
  PROVE  NextNamed(name, best, n) \in Choices
<1>1. ASSUME IsNamed(SkillIds[n], name) PROVE <<SkillIds[n], LatestVersion(SkillIds[n])>> \in SkillKeys
  <2>1. Len(Versions) \in Nat /\ DOMAIN Versions = 1 .. Len(Versions)
    BY SkillAssumption
  <2>2. LatestVersion(SkillIds[n]) \in 0 .. Len(Versions)
    <3>1. PICK g : /\ g \in [0 .. Len(Versions) -> 0 .. Len(Versions)]
                   /\ LatestVersion(SkillIds[n]) = g[Len(Versions)]
      BY VersionsRead
    <3>2. Len(Versions) \in 0 .. Len(Versions)
      BY <2>1
    <3> QED
      BY <3>1, <3>2
  <2>3. LatestVersion(SkillIds[n]) # 0
    BY <1>1 DEF IsNamed
  <2> QED
    BY <2>1, <2>2, <2>3, SkillsCounted DEF SkillKeys
<1> QED
  BY <1>1 DEF NextNamed, Choices

(* The skill a name is given, as the skills are gone through.               *)
LEMMA NamesRead ==
  ASSUME NEW name
  PROVE  \E g : /\ g \in [0 .. Len(SkillIds) -> Choices] /\ g[0] = <<>>
                /\ \A n \in 1 .. Len(SkillIds) : g[n] = NextNamed(name, g[n - 1], n)
                /\ Merged(name) = g[Len(SkillIds)]
<1> DEFINE N == Len(SkillIds)
           F(g) == [n \in 0 .. N |->
                     IF n = 0 THEN <<>>
                     ELSE IF /\ IsNamed(SkillIds[n], name)
                             /\ g[n - 1] = <<>> \/ VersionGt(LatestVersion(SkillIds[n]), g[n - 1][2])
                     THEN <<SkillIds[n], LatestVersion(SkillIds[n])>> ELSE g[n - 1]]
           h == CHOOSE g : g = F(g)
           f == [p \in (1 .. N) \X Choices |-> NextNamed(name, p[2], p[1])]
<1>1. N \in Nat
  BY SkillAssumption
<1>2. Merged(name) = h[N]
  BY DEF Merged
<1>3. \A n \in 1 .. N, m \in Choices : f[<<n, m>>] = NextNamed(name, m, n)
  OBVIOUS
<1>4. f \in [(1 .. N) \X Choices -> Choices]
  BY NamedNext
<1> HIDE DEF f
<1>0. <<>> \in Choices /\ \A n \in 1 .. N, m \in Choices : NextNamed(name, m, n) \in Choices
  BY NamedNext DEF Choices
<1> HIDE DEF N
<1>5. PICK g : Recurs(g, N, Choices, <<>>, f)
  BY <1>0, <1>1, <1>4, RecursiveFunction
<1>6. g \in [0 .. N -> Choices] /\ g[0] = <<>> /\ \A n \in 1 .. N : g[n] = f[<<n, g[n - 1]>>]
  BY <1>5 DEF Recurs
<1>7. \A n \in 1 .. N : n - 1 \in 0 .. N /\ g[n] = NextNamed(name, g[n - 1], n)
  <2> SUFFICES ASSUME NEW n \in 1 .. N
               PROVE  n - 1 \in 0 .. N /\ g[n] = NextNamed(name, g[n - 1], n)
    OBVIOUS
  <2>1. n - 1 \in 0 .. N
    BY <1>1
  <2>2. g[n - 1] \in Choices
    BY <1>6, <2>1
  <2> QED
    BY <1>3, <1>6, <2>1, <2>2
<1>8. g = F(g)
  <2>1. ASSUME NEW n \in 0 .. N PROVE g[n] = F(g)[n]
    <3>1. CASE n = 0
      BY <1>6, <3>1
    <3>2. CASE n # 0
      <4>1. n \in 1 .. N
        BY <1>1, <3>2
      <4>2. g[n] = NextNamed(name, g[n - 1], n)
        BY <1>7, <4>1
      <4> QED
        BY <3>2, <4>2, Zenon DEF NextNamed
    <3> QED
      BY <3>1, <3>2
  <2> QED
    BY <1>6, <2>1
<1>9. h = F(h)
  BY <1>8
<1> HIDE DEF h
<1>10. DOMAIN h = 0 .. N /\ h[0] = <<>> /\ \A n \in 1 .. N : h[n] = NextNamed(name, h[n - 1], n)
  <2>1. DOMAIN h = 0 .. N /\ 0 \in 0 .. N
    BY <1>1, <1>9
  <2>2. ASSUME NEW n \in 0 .. N
        PROVE  h[n] = IF n = 0 THEN <<>> ELSE NextNamed(name, h[n - 1], n)
    BY <1>9, Zenon DEF NextNamed
  <2>3. h[0] = <<>>
    BY <2>1, <2>2
  <2>4. \A n \in 1 .. N : n \in 0 .. N /\ n # 0
    BY <1>1
  <2> QED
    BY <2>1, <2>2, <2>3, <2>4
<1>11. \A n \in 0 .. N : h[n] \in Choices
  <2> DEFINE H == {n \in 0 .. N : h[n] \in Choices}
  <2>1. 0 \in H
    BY <1>0, <1>1, <1>10
  <2>2. \A n \in 1 .. N : n - 1 \in H => n \in H
    <3> SUFFICES ASSUME NEW n \in 1 .. N, n - 1 \in H PROVE h[n] \in Choices /\ n \in 0 .. N
      OBVIOUS
    <3>1. h[n] = NextNamed(name, h[n - 1], n) /\ h[n - 1] \in Choices
      BY <1>10
    <3> QED
      BY <1>0, <1>1, <3>1
  <2> HIDE DEF H
  <2>3. \A n \in 0 .. N : n \in H
    BY <1>1, <2>1, <2>2, Induction
  <2> QED
    BY <2>3 DEF H
<1>12. h \in [0 .. N -> Choices]
  BY <1>9, <1>11
<1> QED
  BY <1>2, <1>10, <1>12 DEF N

(* Of the files of a skill the highest ones, and those with a name.         *)
WholeFiles == {k \in SkillKeys : IsWhole(k)}
Newest     == {k \in WholeFiles : \A l \in WholeFiles :
                 l[1] = k[1] => ~Greater(Versions[l[2]].numbers, Versions[k[2]].numbers)}

(* When versions are numeric, and none is twice the highest of a skill, a   *)
(* name is given the highest of the newest versions that have it, and       *)
(* nothing only when none has.                                              *)
LEMMA NewestIsMerged ==
  ASSUME \A k \in WholeFiles : Versions[k[2]].numbers # <<>>,
         \A k, l \in Newest : k[1] = l[1] => k = l,
         NEW name, NEW named, named = {k \in Newest : NameOf[files[k]] = name}
  PROVE  /\ named = {} => Merged(name) = <<>>
         /\ named # {} => /\ Merged(name) \in named
                          /\ \A k \in named : ~Greater(Versions[k[2]].numbers, Versions[Merged(name)[2]].numbers)
<1> DEFINE N == Len(SkillIds)
           num(v) == Versions[v].numbers
           key(n) == <<SkillIds[n], LatestVersion(SkillIds[n])>>
           Best(m, n) == /\ m = <<>> => \A l \in 1 .. n : ~IsNamed(SkillIds[l], name)
                         /\ m # <<>> => /\ m \in named
                                        /\ \A l \in 1 .. n : IsNamed(SkillIds[l], name) =>
                                             ~Greater(num(LatestVersion(SkillIds[l])), num(m[2]))
<1>1. /\ N \in Nat /\ DOMAIN Versions = 1 .. Len(Versions) /\ Len(Versions) \in Nat
      /\ \A v \in DOMAIN Versions : num(v) \in Seq(Nat)
  BY SkillAssumption DEF Range
<1>2. \A k \in named : /\ k[1] \in Range(SkillIds) /\ k[2] \in DOMAIN Versions /\ k = <<k[1], k[2]>>
                       /\ k \in Newest /\ IsWhole(k) /\ num(k[2]) \in Seq(Nat) /\ num(k[2]) # <<>>
  BY <1>1 DEF SkillKeys, WholeFiles, Newest
<1>3. \A s \in Range(SkillIds), v \in DOMAIN Versions :
        IsWhole(<<s, v>>) => <<s, v>> \in WholeFiles /\ Versions[v].numbers # <<>>
  BY DEF SkillKeys, WholeFiles
<1>4. ASSUME NEW s \in Range(SkillIds), LatestVersion(s) # 0
      PROVE  <<s, LatestVersion(s)>> \in Newest
  <2>1. \A v \in DOMAIN Versions : IsWhole(<<s, v>>) => Versions[v].numbers # <<>>
    BY <1>3
  <2>2. /\ LatestVersion(s) \in 0 .. Len(Versions)
        /\ IsWhole(<<s, LatestVersion(s)>>)
        /\ \A n \in DOMAIN Versions : IsWhole(<<s, n>>) =>
             ~Greater(Versions[n].numbers, Versions[LatestVersion(s)].numbers)
    BY <1>4, <2>1, VersionsListed
  <2>3. PICK top \in DOMAIN Versions : top = LatestVersion(s)
    BY <1>1, <1>4, <2>2
  <2>4. <<s, top>> \in WholeFiles
    BY <1>3, <2>2, <2>3
  <2>5. ASSUME NEW l \in WholeFiles, l[1] = s
        PROVE  ~Greater(Versions[l[2]].numbers, Versions[top].numbers)
    <3>1. l = <<s, l[2]>> /\ l[2] \in DOMAIN Versions /\ IsWhole(l)
      BY <2>5 DEF WholeFiles, SkillKeys
    <3> QED
      BY <2>2, <2>3, <3>1
  <2>6. <<s, top>>[1] = s /\ <<s, top>>[2] = top
    OBVIOUS
  <2>7. <<s, top>> \in Newest
    BY <2>4, <2>5, <2>6 DEF Newest
  <2> QED
    BY <2>3, <2>7
<1>5. ASSUME NEW k \in named PROVE IsNamed(k[1], name) /\ LatestVersion(k[1]) = k[2]
  <2>1. \A v \in DOMAIN Versions : IsWhole(<<k[1], v>>) => Versions[v].numbers # <<>>
    BY <1>2, <1>3
  <2>2. LatestVersion(k[1]) = 0 => \A n \in DOMAIN Versions : ~IsWhole(<<k[1], n>>)
    BY <2>1, VersionsListed
  <2>3. IsWhole(<<k[1], k[2]>>) /\ k[2] \in DOMAIN Versions
    BY <1>2
  <2>4. LatestVersion(k[1]) # 0
    BY <2>2, <2>3
  <2> DEFINE top == <<k[1], LatestVersion(k[1])>>
  <2>5. top \in Newest /\ top[1] = k[1] /\ top[2] = LatestVersion(k[1])
    BY <1>2, <1>4, <2>4
  <2> HIDE DEF top
  <2>6. k \in Newest
    BY <1>2
  <2>7. top = k
    BY <2>5, <2>6
  <2>8. LatestVersion(k[1]) = k[2] /\ NameOf[files[k]] = name /\ k = <<k[1], k[2]>>
    BY <1>2, <2>5, <2>7
  <2> QED
    BY <2>4, <2>8 DEF IsNamed
<1>6. \A n \in 1 .. N : SkillIds[n] \in Range(SkillIds)
  BY SkillsCounted
<1>7. \A n \in 1 .. N : IsNamed(SkillIds[n], name) => key(n) \in named
  BY <1>4, <1>6 DEF IsNamed
<1>8. PICK g : /\ g \in [0 .. N -> Choices] /\ g[0] = <<>>
               /\ \A n \in 1 .. N : g[n] = NextNamed(name, g[n - 1], n)
               /\ Merged(name) = g[N]
  BY NamesRead
<1>9. \A k, m \in named : VersionGt(k[2], m[2]) <=> Greater(num(k[2]), num(m[2]))
  BY <1>2 DEF VersionGt
<1>10. \A k \in named : k # <<>>
  BY <1>2
<1> HIDE DEF num, N
<1> DEFINE H == {n \in 0 .. N : Best(g[n], n)}
<1>11. 0 \in H
  BY <1>1, <1>8
<1>12. ASSUME NEW n \in 1 .. N, n - 1 \in H PROVE n \in H
  <2>1. n - 1 \in 0 .. N /\ n \in 0 .. N /\ 1 .. n = (1 .. (n - 1)) \cup {n}
    BY <1>1
  <2> DEFINE m == g[n - 1]
  <2>2. Best(m, n - 1) /\ g[n] = NextNamed(name, m, n)
    BY <1>8, <1>12, <2>1
  <2> HIDE DEF m
  <2>3. CASE ~IsNamed(SkillIds[n], name)
    <3>1. g[n] = m
      BY <2>2, <2>3 DEF NextNamed
    <3>2. Best(m, n)
      BY <2>1, <2>2, <2>3
    <3> QED
      BY <2>1, <3>1, <3>2
  <2>4. CASE IsNamed(SkillIds[n], name)
    <3>1. PICK k \in named : k = key(n) /\ k[2] = LatestVersion(SkillIds[n])
      BY <1>7, <2>4
    <3>2. k # <<>> /\ num(k[2]) \in Seq(Nat) /\ ~Greater(num(k[2]), num(k[2]))
      BY <1>2, <1>10, GreaterOrders
    <3>3. CASE m = <<>>
      <4>1. g[n] = k
        BY <2>2, <2>4, <3>1, <3>3 DEF NextNamed
      <4>2. Best(k, n)
        BY <2>1, <2>2, <3>1, <3>2, <3>3
      <4> QED
        BY <2>1, <4>1, <4>2
    <3>4. CASE m # <<>>
      <4>1. /\ m \in named
            /\ \A l \in 1 .. (n - 1) : IsNamed(SkillIds[l], name) =>
                 ~Greater(num(LatestVersion(SkillIds[l])), num(m[2]))
        BY <2>2, <3>4
      <4>2. VersionGt(k[2], m[2]) <=> Greater(num(k[2]), num(m[2]))
        BY <1>9, <4>1
      <4>3. CASE VersionGt(k[2], m[2])
        <5>1. g[n] = k
          BY <2>2, <2>4, <3>1, <4>3 DEF NextNamed
        <5>2. ASSUME NEW l \in 1 .. (n - 1), IsNamed(SkillIds[l], name)
              PROVE  ~Greater(num(LatestVersion(SkillIds[l])), num(k[2]))
          <6>1. l \in 1 .. N
            BY <1>1
          <6>2. key(l) \in named /\ key(l)[2] = LatestVersion(SkillIds[l])
            BY <1>7, <5>2, <6>1
          <6>3. num(LatestVersion(SkillIds[l])) \in Seq(Nat) /\ num(m[2]) \in Seq(Nat)
            BY <1>2, <4>1, <6>2
          <6>4. ~Greater(num(LatestVersion(SkillIds[l])), num(m[2])) /\ Greater(num(k[2]), num(m[2]))
            BY <4>1, <4>2, <4>3, <5>2
          <6> QED
            BY <3>2, <6>3, <6>4, GreaterOrders
        <5>3. Best(k, n)
          BY <2>1, <3>1, <3>2, <5>2
        <5> QED
          BY <2>1, <5>1, <5>3
      <4>4. CASE ~VersionGt(k[2], m[2])
        <5>1. g[n] = m
          BY <2>2, <3>1, <3>4, <4>4 DEF NextNamed
        <5>2. Best(m, n)
          BY <2>1, <3>1, <3>4, <4>1, <4>2, <4>4
        <5> QED
          BY <2>1, <5>1, <5>2
      <4> QED
        BY <4>3, <4>4
    <3> QED
      BY <3>3, <3>4
  <2> QED
    BY <2>3, <2>4
<1> HIDE DEF H
<1>13. N \in H
  <2>1. \A n \in 0 .. N : n \in H
    BY <1>1, <1>11, <1>12, Induction
  <2> QED
    BY <1>1, <2>1
<1>14. Best(Merged(name), N)
  BY <1>8, <1>13 DEF H
<1>15. ASSUME NEW k \in named
       PROVE  /\ Merged(name) \in named
              /\ ~Greater(num(k[2]), num(Merged(name)[2]))
  <2>1. PICK n \in 1 .. N : SkillIds[n] = k[1]
    BY <1>2, SkillsCounted DEF N
  <2>2. IsNamed(SkillIds[n], name)
    BY <1>5, <2>1
  <2>3. Merged(name) \in named /\ ~Greater(num(LatestVersion(k[1])), num(Merged(name)[2]))
    BY <1>14, <2>1, <2>2
  <2>4. LatestVersion(k[1]) = k[2]
    BY <1>5
  <2> QED
    BY <2>3, <2>4
<1>16. ASSUME named = {} PROVE Merged(name) = <<>>
  BY <1>14, <1>16
<1> QED
  BY <1>15, <1>16 DEF num

(* For any files, names and versions, a run is given, under each name, the  *)
(* highest of the newest versions of the skills that have it, when versions *)
(* are numeric and none is there twice, whatever the order of the file      *)
(* names (center.py:85, context.py:53).                                     *)
THEOREM HighestVersionsAreUsed == SkillsSpec => []NewestIsUsed
<1>1. NewestIsUsed
  <2> DEFINE number(k) == Versions[k[2]].numbers
             whole     == {k \in SkillKeys : IsWhole(k)}
             newest    == {k \in whole : \A l \in whole : l[1] = k[1] => ~Greater(number(l), number(k))}
             Given(name, named) ==
               /\ named = {} => Merged(name) = <<>>
               /\ named # {} => /\ Merged(name) \in named
                                /\ \A k \in named : ~Greater(number(k), number(Merged(name)))
  <2>1. whole = WholeFiles /\ newest = Newest
    BY DEF WholeFiles, Newest
  <2>2. ASSUME \A k \in whole : number(k) # <<>>,
               \A k, l \in newest : k[1] = l[1] => k = l,
               NEW name \in Range(NameOf)
        PROVE  Given(name, {k \in newest : NameOf[files[k]] = name})
    <3>1. PICK named : named = {k \in newest : NameOf[files[k]] = name}
      OBVIOUS
    <3>2. named = {k \in Newest : NameOf[files[k]] = name}
      BY <2>1, <3>1
    <3>3. \A k \in WholeFiles : Versions[k[2]].numbers # <<>>
      BY <2>1, <2>2
    <3>4. \A k, l \in Newest : k[1] = l[1] => k = l
      <4> HIDE DEF newest
      <4> QED
        BY <2>1, <2>2
    <3>5. Given(name, named)
      BY <3>2, <3>3, <3>4, NewestIsMerged
    <3> HIDE DEF Given, newest
    <3> QED
      BY <3>1, <3>5
  <2>3. (\A k \in whole : number(k) # <<>>) /\ (\A k, l \in newest : k[1] = l[1] => k = l)
        => \A name \in Range(NameOf) : Given(name, {k \in newest : NameOf[files[k]] = name})
    <3> HIDE DEF whole, newest, Given, number
    <3> QED
      BY <2>2
  <2> QED
    BY <2>3 DEF NewestIsUsed
<1> QED
  BY <1>1, PTL
------------------------------------------------------------------------------
(* Knowledge: what ingestions leave and what searches find.                 *)

(* What the chunks of the texts contain.                                    *)
Contents == {words \in UNION {Range(text) : text \in Texts} : IsFiniteSet(words)}

(* A text has numbered chunks, each a finite set of words of the known ones. *)
LEMMA TextChunks ==
  ASSUME NEW text \in Texts
  PROVE  /\ text \in Seq(Contents) /\ DOMAIN text = 1 .. Len(text) /\ Len(text) \in Nat
         /\ DOMAIN text \subseteq Nat /\ IsFiniteSet(DOMAIN text)
<1>1. text \in Seq({words \in Range(text) : IsFiniteSet(words)})
  BY KnowledgeAssumption
<1>2. Len(text) \in Nat /\ DOMAIN text = 1 .. Len(text)
  BY <1>1
<1>3. \A k \in DOMAIN text : text[k] \in Contents
  BY <1>1 DEF Contents
<1>4. text \in [1 .. Len(text) -> Contents]
  BY <1>1, <1>2, <1>3
<1>5. text \in Seq(Contents)
  BY <1>2, <1>4
<1>6. IsFiniteSet(1 .. Len(text))
  <2>1. 1 \in Int /\ Len(text) \in Int
    BY <1>2
  <2> QED
    BY <2>1, FS_Interval
<1> QED
  BY <1>2, <1>5, <1>6

(* The values of the variables of the knowledge base.                       *)
KnowledgeTypeOK ==
  /\ stored \in BOOLEAN
  /\ chunks \in Seq([source : Sources, index : Nat, content : Contents, at : Nat])
  /\ document \in [Ingests -> Documents \cup {NoChunk}]
  /\ ingest \in [Ingests -> {"new", "loaded", "done", "refused", "lost"}]
  /\ DOMAIN loaded = Ingests
  /\ since \in [Ingests -> SUBSET Ingests]

(* A text is known once its request arrived, one that is in a transaction   *)
(* is of a base with a table, and its request came after those that had     *)
(* been answered.                                                           *)
StagesFit ==
  \A i \in Ingests :
    /\ document[i] = NoChunk <=> ingest[i] = "new"
    /\ since[i] \subseteq AnsweredTo

(* The words of chunk k that i may leave: its own, or those of a text that  *)
(* was stored since i came.                                                 *)
From(i, k, content) ==
  \E w \in {i} \cup {j \in Ingests \ since[i] : ingest[j] \in {"done", "lost"}} :
    /\ document[w].source = document[i].source
    /\ k \in DOMAIN document[w].text /\ content = document[w].text[k]

(* A row that a transaction selected is there, with the words selected or   *)
(* with those of a text that was stored since the transaction's came.       *)
SelectedStays ==
  \A i \in {j \in Ingests : ingest[j] = "loaded"} :
    /\ DOMAIN loaded[i] = DOMAIN document[i].text
    /\ \A k \in DOMAIN document[i].text :
         loaded[i][k] # NoChunk =>
           \E c \in RowsFor(document[i].source, k) :
             c.content = loaded[i][k] \/ From(i, k, c.content)

(* The inductive invariant of the knowledge base.                           *)
KnowledgeInv ==
  /\ KnowledgeTypeOK /\ StagesFit /\ SelectedStays
  /\ AckedTextStays /\ StoredInOnePiece

(* Whole, in the words of From.                                             *)
LEMMA WholeSaid ==
  ASSUME NEW i
  PROVE  Whole(i) <=> \A k \in DOMAIN document[i].text :
                        \E c \in RowsFor(document[i].source, k) : From(i, k, c.content)
  BY DEF Whole, From

(* The empty base satisfies the invariant.                                  *)
LEMMA KnowledgeInitially == KnowledgeInit => KnowledgeInv
<1> SUFFICES ASSUME KnowledgeInit PROVE KnowledgeInv
  OBVIOUS
<1> USE DEF KnowledgeInit
<1>1. KnowledgeTypeOK
  BY DEF KnowledgeTypeOK
<1>2. StagesFit
  BY DEF StagesFit, AnsweredTo
<1>3. SelectedStays /\ AckedTextStays
  BY DEF SelectedStays, AckedTextStays
<1>4. StoredInOnePiece
  BY DEF StoredInOnePiece, Range
<1> QED
  BY <1>1, <1>2, <1>3, <1>4 DEF KnowledgeInv

(* A row; and a row that says what the text of i says.                      *)
Rows == [source : Sources, index : Nat, content : Contents, at : Nat]
Says(i, c) ==
  /\ document[i].source = c.source
  /\ c.index \in DOMAIN document[i].text /\ c.content = document[i].text[c.index]

(* What a step of the ingestion of i does to the requests: a request that   *)
(* comes brings a text, and has a transaction or is answered; a transaction *)
(* ends with its text as it was.                                            *)
RequestMoves(i) ==
  /\ \A j \in Ingests \ {i} : /\ document'[j] = document[j] /\ ingest'[j] = ingest[j]
                              /\ loaded'[j] = loaded[j] /\ since'[j] = since[j]
  /\ document'[i] \in Documents
  /\ \/ ingest[i] = "new" /\ ingest'[i] \in {"loaded", "done"} /\ since'[i] = AnsweredTo
     \/ /\ ingest[i] = "loaded" /\ ingest'[i] \in {"done", "refused", "lost"}
        /\ document'[i] = document[i] /\ loaded'[i] = loaded[i] /\ since'[i] = since[i]

(* The text of i is stored: the chunks join the list, or the transaction is *)
(* committed.                                                               *)
Lands(i) ==
  \/ Ingest(i) /\ ingest'[i] = "done"
  \/ Commit(i) /\ ~Conflict(i) /\ ingest'[i] \in {"done", "lost"}

(* What a step of i does to the rows: no row goes, and one changes only to  *)
(* what the text of i says, in the step in which that is stored.            *)
RowMoves(i) ==
  /\ \A c \in Range(chunks) : \E d \in Range(chunks)' :
       /\ d.source = c.source /\ d.index = c.index
       /\ d.content = c.content \/ (Lands(i) /\ Says(i, d)')
  /\ \A d \in Range(chunks)' :
       \/ \E c \in Range(chunks) : d.source = c.source /\ d.index = c.index /\ d.content = c.content
       \/ Lands(i) /\ Says(i, d)'

(* The members of a sequence.                                               *)
LEMMA RangeOfSequence ==
  ASSUME NEW S, NEW q \in Seq(S)
  PROVE  /\ Range(q) \subseteq S /\ Len(q) \in Nat /\ DOMAIN q = 1 .. Len(q)
         /\ \A n \in 1 .. Len(q) : q[n] \in Range(q)
         /\ \A c \in Range(q) : \E n \in 1 .. Len(q) : c = q[n]
  BY DEF Range

(* Every step of an ingestion moves the requests so.                        *)
LEMMA RequestsMove ==
  ASSUME KnowledgeTypeOK, StagesFit, NEW i \in Ingests, Ingest(i) \/ Commit(i) \/ Abort(i)
  PROVE  RequestMoves(i)
<1>1. CASE Ingest(i)
  BY <1>1 DEF Ingest, RequestMoves, KnowledgeTypeOK
<1>2. CASE Commit(i)
  <2>1. document[i] \in Documents
    BY <1>2 DEF Commit, KnowledgeTypeOK, StagesFit
  <2> QED
    BY <1>2, <2>1 DEF Commit, RequestMoves, KnowledgeTypeOK
<1>3. CASE Abort(i)
  <2>1. document[i] \in Documents
    BY <1>3 DEF Abort, KnowledgeTypeOK, StagesFit
  <2> QED
    BY <1>3, <2>1 DEF Abort, RequestMoves, KnowledgeTypeOK
<1> QED
  BY <1>1, <1>2, <1>3

(* Chunks of a text that join the list: all of it is there, and the rest as *)
(* it was.                                                                  *)
LEMMA ChunksJoin ==
  ASSUME KnowledgeTypeOK, StagesFit, NEW i \in Ingests, Ingest(i), ingest'[i] = "done"
  PROVE  /\ chunks' \in Seq(Rows) /\ RowMoves(i)
         /\ \A k \in DOMAIN document'[i].text : \E c \in RowsFor(document[i].source, k)' : Says(i, c)'
<1>1. PICK doc \in Documents :
        /\ document' = [document EXCEPT ![i] = doc]
        /\ chunks' = chunks \o [k \in DOMAIN doc.text |-> Chunk(doc.source, k, doc.text[k], Clock + 1)]
  BY DEF Ingest, KnowledgeTypeOK
<1>0. PICK more : more = [k \in DOMAIN doc.text |-> Chunk(doc.source, k, doc.text[k], Clock + 1)]
  OBVIOUS
<1>2. /\ doc.text \in Seq(Contents) /\ DOMAIN doc.text = 1 .. Len(doc.text) /\ Len(doc.text) \in Nat
      /\ doc.source \in Sources
  BY TextChunks DEF Documents
<1>3. chunks \in Seq(Rows) /\ Len(chunks) \in Nat /\ DOMAIN chunks = 1 .. Len(chunks)
  BY DEF KnowledgeTypeOK, Rows
<1>4. Clock \in Nat
  <2>1. CASE chunks = <<>>
    BY <2>1 DEF Clock
  <2>2. CASE chunks # <<>>
    <3>1. chunks[Len(chunks)] \in Rows
      BY <1>3, <2>2
    <3> QED
      BY <2>2, <3>1 DEF Clock, Rows
  <2> QED
    BY <2>1, <2>2
<1>5. \A k \in DOMAIN doc.text : more[k] \in Rows
  BY <1>0, <1>2, <1>4 DEF Chunk, Rows
<1>6. more \in Seq(Rows) /\ Len(more) = Len(doc.text)
  <2>1. more \in [1 .. Len(doc.text) -> Rows]
    BY <1>0, <1>2, <1>5
  <2> QED
    BY <1>2, <2>1
<1>7. document'[i] = doc
  BY <1>1 DEF KnowledgeTypeOK
<1>8. \A k \in DOMAIN doc.text : more[k].source = doc.source /\ more[k].index = k /\ more[k].content = doc.text[k]
  BY <1>0 DEF Chunk
<1>9. chunks' = chunks \o more
  BY <1>0, <1>1
<1>10. chunks' \in Seq(Rows) /\ Len(chunks') = Len(chunks) + Len(more)
  <2> DEFINE all == chunks \o more
  <2>1. all \in Seq(Rows) /\ Len(all) = Len(chunks) + Len(more)
    BY <1>3, <1>6
  <2> QED
    BY <1>9, <2>1
<1>11. \A n \in 1 .. Len(chunks) : chunks'[n] = chunks[n]
  BY <1>3, <1>6, <1>9
<1>12. \A k \in 1 .. Len(more) : chunks'[Len(chunks) + k] = more[k] /\ Len(chunks) + k \in 1 .. Len(chunks')
  BY <1>3, <1>6, <1>9, <1>10
<1>13. \A k \in DOMAIN doc.text : Says(i, more[k])' 
  BY <1>7, <1>8 DEF Says
<1>14. \A n \in 1 .. Len(chunks) : chunks'[n] \in Range(chunks)'
  BY <1>3, <1>6, <1>10, RangeOfSequence
<1>15. \A k \in DOMAIN doc.text : more[k] \in Range(chunks)'
  BY <1>2, <1>6, <1>10, <1>12, RangeOfSequence
<1>16. ASSUME NEW d \in Range(chunks)'
       PROVE  d \in Range(chunks) \/ \E k \in DOMAIN doc.text : d = more[k]
  <2>1. PICK n \in 1 .. Len(chunks') : d = chunks'[n]
    BY <1>10, RangeOfSequence
  <2>2. CASE n \in 1 .. Len(chunks)
    BY <1>3, <1>11, <2>1, <2>2, RangeOfSequence
  <2>3. CASE n \notin 1 .. Len(chunks)
    <3>1. n - Len(chunks) \in 1 .. Len(more) /\ Len(chunks) + (n - Len(chunks)) = n
      BY <1>3, <1>6, <1>10, <2>1, <2>3
    <3>2. d = more[n - Len(chunks)]
      BY <1>12, <2>1, <3>1
    <3> QED
      BY <1>2, <1>6, <3>1, <3>2
  <2> QED
    BY <2>2, <2>3
<1>17. RowMoves(i)
  <2>1. \A c \in Range(chunks) : c \in Range(chunks)'
    BY <1>3, <1>11, <1>14, RangeOfSequence
  <2>2. \A d \in Range(chunks)' : d \in Range(chunks) \/ Says(i, d)'
    BY <1>13, <1>16
  <2>3. Lands(i)
    BY DEF Lands
  <2>4. ASSUME NEW c \in Range(chunks)
        PROVE  \E d \in Range(chunks)' : d.source = c.source /\ d.index = c.index /\ d.content = c.content
    BY <2>1
  <2>5. ASSUME NEW d \in Range(chunks)'
        PROVE  \/ \E c \in Range(chunks) : d.source = c.source /\ d.index = c.index /\ d.content = c.content
               \/ Says(i, d)'
    BY <2>2
  <2> HIDE DEF Says, Lands
  <2> QED
    BY <2>3, <2>4, <2>5, ZenonT(30) DEF RowMoves
<1>18. ASSUME NEW k \in DOMAIN document'[i].text
       PROVE  \E c \in RowsFor(document[i].source, k)' : Says(i, c)'
  <2>1. k \in DOMAIN doc.text
    BY <1>7
  <2>2. more[k] \in RowsFor(document[i].source, k)'
    BY <1>7, <1>8, <1>15, <2>1 DEF RowsFor
  <2> QED
    BY <1>13, <2>1, <2>2
<1> QED
  BY <1>10, <1>17, <1>18

(* The members of a finite set of numbers, in ascending order. *)
LEMMA Ascending ==
  ASSUME NEW S, S \subseteq Nat, IsFiniteSet(S)
  PROVE  /\ Cardinality(S) \in Nat
         /\ Ordered(S, <) \in [1 .. Cardinality(S) -> S]
         /\ \A n \in S : \E k \in 1 .. Cardinality(S) : Ordered(S, <)[k] = n
         /\ \A j, k \in 1 .. Cardinality(S) : j < k <=> Ordered(S, <)[j] < Ordered(S, <)[k]
<1>1. PICK R : /\ Orders(R, S)
               /\ \A n \in S : Smaller(R, S, n) = {m \in S : m < n}
               /\ \A m, n \in S : <<m, n>> \in R <=> m < n
  <2> DEFINE T == {p \in S \X S : p[1] < p[2]}
  <2>1. Orders(T, S)
    BY DEF Orders
  <2>2. \A n \in S : Smaller(T, S, n) = {m \in S : m < n}
    BY DEF Smaller
  <2> QED
    BY <2>1, <2>2
<1> DEFINE q == Ordered(S, <)
           N == Cardinality(S)
<1>3. q = [k \in 1 .. N |-> CHOOSE n \in S : Cardinality({m \in S : m < n}) = k - 1]
  BY DEF Ordered
<1> HIDE DEF q
<1>4. N \in Nat /\ \A k \in 0 .. (N - 1) : \E n \in S : Cardinality({m \in S : m < n}) = k
  <2>1. N \in Nat
    BY FS_CardinalityType
  <2>2. \A k \in 0 .. (N - 1) : \E n \in S : Cardinality(Smaller(R, S, n)) = k
    BY <1>1, Ranks
  <2> QED
    BY <1>1, <2>1, <2>2, Zenon
<1> HIDE DEF N
<1>5. ASSUME NEW k \in 1 .. N PROVE q[k] \in S /\ Cardinality({m \in S : m < q[k]}) = k - 1
  <2>1. k - 1 \in 0 .. (N - 1)
    BY <1>4
  <2>2. \E n \in S : Cardinality({m \in S : m < n}) = k - 1
    BY <1>4, <2>1
  <2>3. q[k] = CHOOSE n \in S : Cardinality({m \in S : m < n}) = k - 1
    BY <1>3
  <2> QED
    BY <2>2, <2>3
<1>6. DOMAIN q = 1 .. N /\ \A k \in DOMAIN q : q[k] \in S /\ Cardinality(Smaller(R, S, q[k])) = k - 1
  BY <1>1, <1>3, <1>5
<1>7. /\ \A n \in S : \E k \in DOMAIN q : q[k] = n
      /\ \A j, k \in DOMAIN q : j < k <=> <<q[j], q[k]>> \in R
  BY <1>1, <1>6, RankedSequence DEF N
<1>8. q \in [1 .. N -> S]
  BY <1>3, <1>5
<1>9. \A j, k \in 1 .. N : j < k <=> q[j] < q[k]
  BY <1>1, <1>7, <1>8
<1> QED
  BY <1>4, <1>6, <1>7, <1>8, <1>9 DEF q, N

(* A transaction that commits leaves each row, with the words of its own    *)
(* text where the row it selected had others, and adds the rows it missed.  *)
LEMMA RowsCommitted ==
  ASSUME KnowledgeTypeOK, StagesFit, SelectedStays, NEW i \in Ingests, Commit(i), ~Conflict(i)
  PROVE  /\ chunks' \in Seq(Rows)
         /\ \A c \in Range(chunks) : \E d \in Range(chunks)' :
              /\ d.source = c.source /\ d.index = c.index
              /\ \/ d = c /\ (Says(i, c) \/ c.source # document[i].source \/ c.index \notin DOMAIN document[i].text
                              \/ loaded[i][c.index] = document[i].text[c.index])
                 \/ Says(i, d)
         /\ \A d \in Range(chunks)' : d \in Range(chunks) \/ Says(i, d)
         /\ \A k \in DOMAIN document[i].text :
              loaded[i][k] = NoChunk => \E d \in Range(chunks)' : d.index = k /\ Says(i, d)
<1>1. PICK doc \in Documents : document[i] = doc /\ chunks' = Upserted(i) /\ ingest[i] = "loaded"
  BY DEF Commit, KnowledgeTypeOK, StagesFit
<1>2. /\ doc.text \in Seq(Contents) /\ DOMAIN doc.text = 1 .. Len(doc.text) /\ Len(doc.text) \in Nat
      /\ DOMAIN doc.text \subseteq Nat /\ IsFiniteSet(DOMAIN doc.text) /\ doc.source \in Sources
  BY TextChunks DEF Documents
<1>3. chunks \in Seq(Rows) /\ Len(chunks) \in Nat /\ DOMAIN chunks = 1 .. Len(chunks)
  BY DEF KnowledgeTypeOK, Rows
<1>4. Clock \in Nat
  <2>1. CASE chunks = <<>>
    BY <2>1 DEF Clock
  <2>2. CASE chunks # <<>>
    <3>1. chunks[Len(chunks)] \in Rows
      BY <1>3, <2>2
    <3> QED
      BY <2>2, <3>1 DEF Clock, Rows
  <2> QED
    BY <2>1, <2>2
<1> DEFINE isMine(c) == c.source = doc.source /\ c.index \in DOMAIN doc.text
           new(c) == IF isMine(c) /\ loaded[i][c.index] # doc.text[c.index]
                     THEN [c EXCEPT !.content = doc.text[c.index]] ELSE c
           absent == {k \in DOMAIN doc.text : loaded[i][k] = NoChunk}
<1>5. PICK missing : missing = Ordered(absent, <)
  OBVIOUS
<1>6. PICK first : first = [n \in DOMAIN chunks |-> new(chunks[n])]
  OBVIOUS
<1>7. PICK more : more = [n \in DOMAIN missing |-> Chunk(doc.source, missing[n], doc.text[missing[n]], Clock + 1)]
  OBVIOUS
<1>8. chunks' = first \o more
  BY <1>1, <1>5, <1>6, <1>7 DEF Upserted
<1>9. absent \subseteq Nat /\ IsFiniteSet(absent)
  BY <1>2, FS_Subset
<1>10. PICK size \in Nat : /\ missing \in [1 .. size -> absent]
                          /\ \A k \in absent : \E n \in 1 .. size : missing[n] = k
  <2> HIDE DEF absent
  <2>1. Cardinality(absent) \in Nat /\ missing \in [1 .. Cardinality(absent) -> absent]
    BY <1>5, <1>9, Ascending
  <2>2. \A k \in absent : \E n \in 1 .. Cardinality(absent) : missing[n] = k
    BY <1>5, <1>9, Ascending
  <2> QED
    BY <2>1, <2>2
<1>11. \A n \in 1 .. size : /\ more[n] \in Rows /\ more[n].index = missing[n]
                            /\ more[n].source = doc.source /\ more[n].content = doc.text[missing[n]]
                            /\ missing[n] \in DOMAIN doc.text
  <2> SUFFICES ASSUME NEW n \in 1 .. size
               PROVE  /\ more[n] \in Rows /\ more[n].index = missing[n]
                      /\ more[n].source = doc.source /\ more[n].content = doc.text[missing[n]]
                      /\ missing[n] \in DOMAIN doc.text
    OBVIOUS
  <2>1. missing[n] \in DOMAIN doc.text /\ missing[n] \in Nat
    BY <1>2, <1>10
  <2>2. doc.text[missing[n]] \in Contents
    BY <1>2, <2>1
  <2>3. more[n] = Chunk(doc.source, missing[n], doc.text[missing[n]], Clock + 1)
    BY <1>7, <1>10
  <2> QED
    BY <1>2, <1>4, <2>1, <2>2, <2>3 DEF Chunk, Rows
<1>12. more \in Seq(Rows) /\ Len(more) = size
  <2>1. more \in [1 .. size -> Rows]
    BY <1>7, <1>10, <1>11
  <2> QED
    BY <2>1
<1>13. ASSUME NEW n \in 1 .. Len(chunks)
       PROVE  /\ first[n] \in Rows /\ chunks[n] \in Rows
              /\ first[n].source = chunks[n].source /\ first[n].index = chunks[n].index
              /\ \/ /\ first[n] = chunks[n]
                    /\ ~isMine(chunks[n]) \/ loaded[i][chunks[n].index] = doc.text[chunks[n].index]
                 \/ isMine(first[n]) /\ first[n].content = doc.text[first[n].index]
  <2>1. PICK c \in Rows : c = chunks[n]
    BY <1>3
  <2>2. first[n] = new(c)
    BY <1>3, <1>6, <2>1
  <2>3. CASE isMine(c) /\ loaded[i][c.index] # doc.text[c.index]
    <3>1. doc.text[c.index] \in Contents
      BY <1>2, <2>3
    <3>2. first[n] = [c EXCEPT !.content = doc.text[c.index]]
      BY <2>2, <2>3
    <3> QED
      BY <2>1, <2>3, <3>1, <3>2 DEF Rows
  <2>4. CASE ~(isMine(c) /\ loaded[i][c.index] # doc.text[c.index])
    <3>1. first[n] = c
      BY <2>2, <2>4
    <3> QED
      BY <2>1, <2>4, <3>1
  <2> QED
    BY <2>3, <2>4
<1>14. first \in Seq(Rows) /\ Len(first) = Len(chunks)
  <2>1. first \in [1 .. Len(chunks) -> Rows]
    BY <1>3, <1>6, <1>13
  <2> QED
    BY <1>3, <2>1
<1>15. chunks' \in Seq(Rows) /\ Len(chunks') = Len(chunks) + size
  <2> DEFINE all == first \o more
  <2>1. all \in Seq(Rows) /\ Len(all) = Len(first) + Len(more)
    BY <1>12, <1>14
  <2> QED
    BY <1>8, <1>12, <1>14, <2>1
<1>16. \A n \in 1 .. Len(chunks) : chunks'[n] = first[n]
  BY <1>3, <1>8, <1>12, <1>14
<1>17. \A n \in 1 .. size : chunks'[Len(chunks) + n] = more[n] /\ Len(chunks) + n \in 1 .. Len(chunks')
  BY <1>3, <1>8, <1>12, <1>14, <1>15
<1>18. \A n \in 1 .. Len(chunks) : first[n] \in Range(chunks)'
  BY <1>3, <1>15, <1>16, RangeOfSequence
<1>19. \A n \in 1 .. size : more[n] \in Range(chunks)'
  BY <1>15, <1>17, RangeOfSequence
<1> HIDE DEF new, absent
<1>20. ASSUME NEW c \in Range(chunks)
       PROVE  \E d \in Range(chunks)' :
                /\ d.source = c.source /\ d.index = c.index
                /\ \/ d = c /\ (Says(i, c) \/ c.source # document[i].source \/ c.index \notin DOMAIN document[i].text
                                \/ loaded[i][c.index] = document[i].text[c.index])
                   \/ Says(i, d)
  <2>1. PICK n \in 1 .. Len(chunks) : c = chunks[n]
    BY <1>3, RangeOfSequence
  <2> QED
    BY <1>1, <1>13, <1>18, <2>1 DEF Says
<1>21. ASSUME NEW d \in Range(chunks)' PROVE d \in Range(chunks) \/ Says(i, d)
  <2>1. PICK n \in 1 .. Len(chunks') : d = chunks'[n]
    BY <1>15, RangeOfSequence
  <2>2. CASE n \in 1 .. Len(chunks)
    <3>1. d = first[n] /\ chunks[n] \in Range(chunks)
      BY <1>3, <1>16, <2>1, <2>2, RangeOfSequence
    <3> QED
      BY <1>1, <1>13, <2>2, <3>1 DEF Says
  <2>3. CASE n \notin 1 .. Len(chunks)
    <3>1. n - Len(chunks) \in 1 .. size /\ Len(chunks) + (n - Len(chunks)) = n
      BY <1>3, <1>15, <2>1, <2>3
    <3>2. d = more[n - Len(chunks)]
      BY <1>17, <2>1, <3>1
    <3> QED
      BY <1>1, <1>11, <3>1, <3>2 DEF Says
  <2> QED
    BY <2>2, <2>3
<1>22. ASSUME NEW k \in DOMAIN document[i].text, loaded[i][k] = NoChunk
       PROVE  \E d \in Range(chunks)' : d.index = k /\ Says(i, d)
  <2>1. k \in absent
    BY <1>1, <1>22 DEF absent
  <2>2. PICK n \in 1 .. size : missing[n] = k
    BY <1>10, <2>1
  <2> QED
    BY <1>1, <1>11, <1>19, <2>2 DEF Says
<1> QED
  BY <1>15, <1>20, <1>21, <1>22

(* Every step of an ingestion moves the rows so, and keeps them rows.       *)
LEMMA RowsMove ==
  ASSUME KnowledgeTypeOK, StagesFit, SelectedStays, NEW i \in Ingests, Ingest(i) \/ Commit(i) \/ Abort(i)
  PROVE  chunks' \in Seq(Rows) /\ RowMoves(i)
<1>1. \A c : (document' = document => Says(i, c)' = Says(i, c))
  BY DEF Says
<1>2. ASSUME chunks' = chunks PROVE chunks' \in Seq(Rows) /\ RowMoves(i)
  <2>1. Range(chunks)' = Range(chunks) /\ chunks' \in Seq(Rows)
    BY <1>2 DEF KnowledgeTypeOK, Rows
  <2>2. ASSUME NEW c \in Range(chunks)
        PROVE  \E d \in Range(chunks)' : d.source = c.source /\ d.index = c.index /\ d.content = c.content
    BY <2>1
  <2>3. ASSUME NEW d \in Range(chunks)'
        PROVE  \E c \in Range(chunks) : d.source = c.source /\ d.index = c.index /\ d.content = c.content
    BY <2>1
  <2> QED
    BY <2>1, <2>2, <2>3, ZenonT(30) DEF RowMoves
<1>3. CASE Ingest(i)
  <2>1. CASE ingest'[i] = "done"
    BY <1>3, <2>1, ChunksJoin
  <2>2. CASE ingest'[i] # "done"
    <3>1. chunks' = chunks
      BY <1>3, <2>2 DEF Ingest, KnowledgeTypeOK
    <3> QED
      BY <1>2, <3>1
  <2> QED
    BY <2>1, <2>2
<1>4. CASE Commit(i)
  <2>1. CASE Conflict(i)
    BY <1>2, <1>4, <2>1 DEF Commit
  <2>2. CASE ~Conflict(i)
    <3>1. document' = document /\ Lands(i)
      BY <1>4, <2>2 DEF Commit, Lands, KnowledgeTypeOK
    <3>2. /\ chunks' \in Seq(Rows)
          /\ \A c \in Range(chunks) : \E d \in Range(chunks)' :
               d.source = c.source /\ d.index = c.index /\ (d.content = c.content \/ Says(i, d))
          /\ \A d \in Range(chunks)' : d \in Range(chunks) \/ Says(i, d)
      <4> HIDE DEF Says
      <4>1. chunks' \in Seq(Rows)
        BY <1>4, <2>2, RowsCommitted
      <4>2. ASSUME NEW c \in Range(chunks)
            PROVE  \E d \in Range(chunks)' :
                     d.source = c.source /\ d.index = c.index /\ (d.content = c.content \/ Says(i, d))
        <5>1. PICK d \in Range(chunks)' :
                 d.source = c.source /\ d.index = c.index /\ (d = c \/ Says(i, d))
          BY <1>4, <2>2, RowsCommitted
        <5> QED
          BY <5>1
      <4>3. \A d \in Range(chunks)' : d \in Range(chunks) \/ Says(i, d)
        BY <1>4, <2>2, RowsCommitted
      <4> QED
        BY <4>1, <4>2, <4>3
    <3>3. ASSUME NEW c \in Range(chunks)
          PROVE  \E d \in Range(chunks)' :
                   d.source = c.source /\ d.index = c.index /\ (d.content = c.content \/ Says(i, d)')
      BY <1>1, <3>1, <3>2
    <3>4. ASSUME NEW d \in Range(chunks)'
          PROVE  \/ \E c \in Range(chunks) : d.source = c.source /\ d.index = c.index /\ d.content = c.content
                 \/ Says(i, d)'
      BY <1>1, <3>1, <3>2
    <3> QED
      BY <3>1, <3>2, <3>3, <3>4, ZenonT(30) DEF RowMoves
  <2> QED
    BY <2>1, <2>2
<1>5. CASE Abort(i)
  BY <1>2, <1>5 DEF Abort
<1> QED
  BY <1>3, <1>4, <1>5

(* It keeps the types, and the stages of the requests.                      *)
LEMMA KnowledgeTypes ==
  ASSUME KnowledgeInv, NEW i \in Ingests, Ingest(i) \/ Commit(i) \/ Abort(i)
  PROVE  KnowledgeTypeOK' /\ StagesFit'
<1>1. KnowledgeTypeOK /\ StagesFit /\ SelectedStays
  BY DEF KnowledgeInv
<1>2. RequestMoves(i) /\ chunks' \in Seq(Rows)
  BY <1>1, RequestsMove, RowsMove
<1>3. KnowledgeTypeOK'
  <2>1. /\ stored' = stored /\ DOMAIN document' = Ingests /\ DOMAIN ingest' = Ingests
        /\ DOMAIN loaded' = Ingests /\ DOMAIN since' = Ingests
    BY <1>1 DEF Ingest, Commit, Abort, KnowledgeTypeOK
  <2>2. AnsweredTo \subseteq Ingests
    BY DEF AnsweredTo
  <2>3. \A j \in Ingests : document'[j] \in Documents \cup {NoChunk}
    BY <1>1, <1>2 DEF RequestMoves, KnowledgeTypeOK
  <2>4. \A j \in Ingests : ingest'[j] \in {"new", "loaded", "done", "refused", "lost"}
    BY <1>1, <1>2 DEF RequestMoves, KnowledgeTypeOK
  <2>5. \A j \in Ingests : since'[j] \in SUBSET Ingests
    BY <1>1, <1>2, <2>2 DEF RequestMoves, KnowledgeTypeOK
  <2>6. /\ document' \in [Ingests -> Documents \cup {NoChunk}]
        /\ ingest' \in [Ingests -> {"new", "loaded", "done", "refused", "lost"}]
        /\ since' \in [Ingests -> SUBSET Ingests]
    <3>1. /\ document' = [j \in Ingests |-> document'[j]] /\ ingest' = [j \in Ingests |-> ingest'[j]]
          /\ since' = [j \in Ingests |-> since'[j]]
      BY <1>1 DEF Ingest, Commit, Abort, KnowledgeTypeOK
    <3> QED
      BY <2>3, <2>4, <2>5, <3>1
  <2> QED
    BY <1>1, <1>2, <2>1, <2>6 DEF KnowledgeTypeOK, Rows
<1>4. StagesFit'
  <2>1. AnsweredTo \subseteq AnsweredTo'
    BY <1>1, <1>2 DEF RequestMoves, AnsweredTo
  <2>2. \A j \in Ingests : since'[j] \subseteq AnsweredTo
    BY <1>1, <1>2 DEF RequestMoves, StagesFit
  <2>3. \A j \in Ingests : document'[j] = NoChunk <=> ingest'[j] = "new"
    BY <1>1, <1>2, KnowledgeAssumption DEF RequestMoves, StagesFit
  <2> QED
    BY <2>1, <2>2, <2>3 DEF StagesFit
<1> QED
  BY <1>3, <1>4

(* What a text may leave, it may still leave: those that are stored stay.   *)
LEMMA FromStays ==
  ASSUME KnowledgeInv, NEW i \in Ingests, RequestMoves(i), NEW j \in Ingests, ingest[j] # "new",
         NEW k, NEW content, From(j, k, content)
  PROVE  From(j, k, content)'
<1>1. PICK w \in {j} \cup {v \in Ingests \ since[j] : ingest[v] \in {"done", "lost"}} :
        /\ document[w].source = document[j].source
        /\ k \in DOMAIN document[w].text /\ content = document[w].text[k]
  BY DEF From
<1>2. \A v \in Ingests : ingest[v] # "new" => document'[v] = document[v] /\ since'[v] = since[v]
  BY DEF RequestMoves, KnowledgeInv, StagesFit
<1>3. ingest[w] # "new" /\ (w = j \/ ingest'[w] \in {"done", "lost"})
  BY <1>1 DEF RequestMoves
<1>4. document'[w] = document[w] /\ document'[j] = document[j] /\ since'[j] = since[j]
  BY <1>1, <1>2, <1>3
<1> QED
  BY <1>1, <1>3, <1>4 DEF From

(* A text that is stored is one that the others not answered by then may    *)
(* leave.                                                                   *)
LEMMA LateTextCounts ==
  ASSUME KnowledgeInv, NEW i \in Ingests, RequestMoves(i), Lands(i), NEW j \in Ingests, ingest[j] # "new",
         NEW d, Says(i, d)', d.source = document[j].source
  PROVE  From(j, d.index, d.content)'
<1>1. i \notin since[j] /\ ingest'[i] \in {"done", "lost"}
  BY DEF Lands, RequestMoves, KnowledgeInv, StagesFit, AnsweredTo
<1>2. document'[j] = document[j] /\ since'[j] = since[j]
  BY DEF RequestMoves
<1>3. i \in {v \in Ingests \ since'[j] : ingest'[v] \in {"done", "lost"}}
  BY <1>1, <1>2
<1>4. /\ document'[i].source = document'[j].source
      /\ d.index \in DOMAIN document'[i].text /\ d.content = document'[i].text[d.index]
  BY <1>2 DEF Says
<1> QED
  BY <1>3, <1>4 DEF From

(* A row of the source of j stays, with its words or with some j may leave. *)
LEMMA RowStays ==
  ASSUME KnowledgeInv, NEW i \in Ingests, RequestMoves(i), RowMoves(i),
         NEW j \in Ingests, ingest[j] # "new", NEW k, NEW c \in RowsFor(document[j].source, k)
  PROVE  /\ document'[j] = document[j]
         /\ \E d \in RowsFor(document[j].source, k)' :
              d.content = c.content \/ From(j, k, d.content)'
<1>1. document'[j] = document[j]
  BY DEF RequestMoves, KnowledgeInv, StagesFit
<1>2. c \in Range(chunks) /\ c.source = document[j].source /\ c.index = k
  BY DEF RowsFor
<1>3. PICK d \in Range(chunks)' :
        /\ d.source = c.source /\ d.index = c.index
        /\ d.content = c.content \/ (Lands(i) /\ Says(i, d)')
  BY <1>2 DEF RowMoves
<1>4. d \in RowsFor(document[j].source, k)'
  BY <1>1, <1>2, <1>3 DEF RowsFor
<1>5. CASE d.content = c.content
  BY <1>1, <1>4, <1>5
<1>6. CASE Lands(i) /\ Says(i, d)'
  <2>1. From(j, d.index, d.content)'
    BY <1>2, <1>3, <1>6, LateTextCounts
  <2>2. From(j, k, d.content)'
    BY <1>2, <1>3, <2>1
  <2> QED
    BY <1>1, <1>4, <2>2
<1> QED
  BY <1>3, <1>5, <1>6

(* A step of an ingestion keeps the rows that transactions selected.        *)
LEMMA SelectedStaysStep ==
  ASSUME KnowledgeInv, NEW i \in Ingests, Ingest(i) \/ Commit(i) \/ Abort(i)
  PROVE  SelectedStays'
<1>1. KnowledgeTypeOK /\ StagesFit /\ SelectedStays
  BY DEF KnowledgeInv
<1>2. RequestMoves(i) /\ RowMoves(i)
  BY <1>1, RequestsMove, RowsMove
<1> SUFFICES ASSUME NEW j \in Ingests, ingest'[j] = "loaded"
             PROVE  /\ DOMAIN loaded'[j] = DOMAIN document'[j].text
                    /\ \A k \in DOMAIN document'[j].text :
                         loaded'[j][k] # NoChunk =>
                           \E d \in RowsFor(document[j].source, k)' :
                             d.content = loaded'[j][k] \/ From(j, k, d.content)'
  BY DEF SelectedStays
<1>3. CASE j = i
  <2>1. ingest[i] = "new" /\ Ingest(i)
    BY <1>2, <1>3 DEF RequestMoves, Commit, Abort
  <2>2. PICK doc \in Documents :
          /\ document'[i] = doc /\ chunks' = chunks
          /\ loaded'[i] = [k \in DOMAIN doc.text |-> Content(doc.source, k)]
    BY <1>1, <1>3, <2>1 DEF Ingest, KnowledgeTypeOK
  <2>3. ASSUME NEW k \in DOMAIN doc.text, Content(doc.source, k) # NoChunk
        PROVE  \E d \in RowsFor(doc.source, k) : d.content = Content(doc.source, k)
    BY <2>3 DEF Content
  <2>4. \A k : RowsFor(document[i].source, k)' = RowsFor(doc.source, k)
    BY <2>2 DEF RowsFor
  <2> QED
    BY <1>3, <2>2, <2>3, <2>4
<1>4. CASE j # i
  <2>1. loaded'[j] = loaded[j] /\ ingest[j] = "loaded" /\ document'[j] = document[j]
    BY <1>2, <1>4 DEF RequestMoves
  <2>2. DOMAIN loaded[j] = DOMAIN document[j].text
    BY <1>1, <2>1 DEF SelectedStays
  <2>3. ASSUME NEW k \in DOMAIN document[j].text, loaded[j][k] # NoChunk
        PROVE  \E d \in RowsFor(document[j].source, k)' :
                 d.content = loaded[j][k] \/ From(j, k, d.content)'
    <3>1. PICK c \in RowsFor(document[j].source, k) : c.content = loaded[j][k] \/ From(j, k, c.content)
      BY <1>1, <2>1, <2>3 DEF SelectedStays
    <3>2. PICK d \in RowsFor(document[j].source, k)' : d.content = c.content \/ From(j, k, d.content)'
      BY <1>2, <2>1, RowStays
    <3>3. From(j, k, c.content) => From(j, k, c.content)'
      BY <1>2, <2>1, FromStays
    <3> QED
      BY <3>1, <3>2, <3>3
  <2> QED
    BY <2>1, <2>2, <2>3
<1> QED
  BY <1>3, <1>4

(* A text that is stored is there.                                          *)
LEMMA LandsWhole ==
  ASSUME KnowledgeInv, NEW i \in Ingests, Lands(i)
  PROVE  Whole(i)'
<1>1. KnowledgeTypeOK /\ StagesFit /\ SelectedStays
  BY DEF KnowledgeInv
<1>2. \A k, c : Says(i, c)' /\ c.index = k => From(i, k, c.content)'
  BY DEF Says, From
<1>3. ASSUME NEW k \in DOMAIN document'[i].text
      PROVE  \E d \in RowsFor(document[i].source, k)' : From(i, k, d.content)'
  <2>1. CASE Ingest(i) /\ ingest'[i] = "done"
    <3>1. PICK c \in RowsFor(document[i].source, k)' : Says(i, c)'
      BY <1>1, <2>1, ChunksJoin
    <3>2. c.index = k
      BY DEF RowsFor
    <3> QED
      BY <1>2, <3>1, <3>2
  <2>2. CASE Commit(i) /\ ~Conflict(i)
    <3>1. document' = document /\ since' = since /\ loaded' = loaded /\ ingest[i] = "loaded"
      BY <2>2 DEF Commit
    <3>2. \A c : Says(i, c)' = Says(i, c)
      BY <3>1 DEF Says
    <3>3. CASE loaded[i][k] = NoChunk
      <4>1. PICK d \in Range(chunks)' : d.index = k /\ Says(i, d)
        BY <1>1, <1>3, <2>2, <3>1, <3>3, RowsCommitted
      <4>2. d \in RowsFor(document[i].source, k)'
        BY <3>1, <4>1 DEF RowsFor, Says
      <4> QED
        BY <1>2, <3>2, <4>1, <4>2
    <3>4. CASE loaded[i][k] # NoChunk
      <4>1. PICK c \in RowsFor(document[i].source, k) : c.content = loaded[i][k] \/ From(i, k, c.content)
        BY <1>1, <1>3, <3>1, <3>4 DEF SelectedStays
      <4>2. c \in Range(chunks) /\ c.source = document[i].source /\ c.index = k
        BY <4>1 DEF RowsFor
      <4>3. PICK d \in Range(chunks)' :
              /\ d.source = c.source /\ d.index = c.index
              /\ \/ d = c /\ (Says(i, c) \/ c.source # document[i].source \/ c.index \notin DOMAIN document[i].text
                              \/ loaded[i][c.index] = document[i].text[c.index])
                 \/ Says(i, d)
        BY <1>1, <2>2, <4>2, RowsCommitted
      <4>4. d \in RowsFor(document[i].source, k)'
        BY <3>1, <4>2, <4>3 DEF RowsFor
      <4>5. Says(i, d) \/ (From(i, k, c.content) /\ d = c)
        BY <1>3, <3>1, <4>1, <4>2, <4>3 DEF Says
      <4>6. From(i, k, c.content) => From(i, k, c.content)'
        <5>1. RequestMoves(i)
          BY <1>1, <2>2, RequestsMove
        <5> QED
          BY <3>1, <5>1, FromStays
      <4> QED
        BY <1>2, <3>2, <4>2, <4>3, <4>4, <4>5, <4>6
    <3> QED
      BY <3>3, <3>4
  <2> QED
    BY <2>1, <2>2 DEF Lands
<1> QED
  BY <1>3 DEF Whole, From

(* A step of an ingestion leaves a text that was there.                     *)
LEMMA WholeStays ==
  ASSUME KnowledgeInv, NEW i \in Ingests, RequestMoves(i), RowMoves(i),
         NEW j \in Ingests, ingest[j] # "new", Whole(j)
  PROVE  Whole(j)'
<1>1. document'[j] = document[j]
  BY DEF RequestMoves, KnowledgeInv, StagesFit
<1>2. ASSUME NEW k \in DOMAIN document[j].text
      PROVE  \E d \in RowsFor(document[j].source, k)' : From(j, k, d.content)'
  <2>1. PICK c \in RowsFor(document[j].source, k) : From(j, k, c.content)
    BY WholeSaid
  <2>2. PICK d \in RowsFor(document[j].source, k)' : d.content = c.content \/ From(j, k, d.content)'
    BY RowStays
  <2>3. From(j, k, c.content)'
    BY <2>1, FromStays
  <2> QED
    BY <2>2, <2>3
<1> QED
  BY <1>1, <1>2 DEF Whole, From

(* It keeps the texts that were acknowledged, and one it acknowledges is    *)
(* there.                                                                   *)
LEMMA AckedStaysStep ==
  ASSUME KnowledgeInv, NEW i \in Ingests, Ingest(i) \/ Commit(i) \/ Abort(i)
  PROVE  AckedTextStays'
<1>1. KnowledgeTypeOK /\ StagesFit /\ AckedTextStays
  BY DEF KnowledgeInv
<1>2. RequestMoves(i) /\ RowMoves(i)
  BY RequestsMove, RowsMove DEF KnowledgeInv
<1>3. ASSUME NEW j \in Ingests, ingest'[j] = "done" PROVE Whole(j)'
  <2>1. CASE ingest[j] = "done"
    BY <1>1, <1>2, <2>1, WholeStays DEF AckedTextStays
  <2>2. CASE ingest[j] # "done"
    <3>1. j = i /\ Lands(i)
      BY <1>1, <1>2, <1>3, <2>2 DEF RequestMoves, Lands, Commit, Abort, KnowledgeTypeOK
    <3> QED
      BY <3>1, LandsWhole
  <2> QED
    BY <2>1, <2>2
<1> QED
  BY <1>3 DEF AckedTextStays

(* It leaves no chunk of a text that is not there.                          *)
LEMMA PiecesStayStep ==
  ASSUME KnowledgeInv, NEW i \in Ingests, Ingest(i) \/ Commit(i) \/ Abort(i)
  PROVE  StoredInOnePiece'
<1>1. RequestMoves(i) /\ RowMoves(i)
  BY RequestsMove, RowsMove DEF KnowledgeInv
<1>2. ASSUME NEW d \in Range(chunks)'
      PROVE  \E j \in Ingests : ingest'[j] \in {"done", "lost"} /\ Whole(j)' /\ Says(j, d)'
  <2>1. CASE Lands(i) /\ Says(i, d)'
    <3>1. Whole(i)' /\ ingest'[i] \in {"done", "lost"}
      BY <2>1, LandsWhole DEF Lands
    <3> QED
      BY <2>1, <3>1
  <2>2. CASE \E c \in Range(chunks) : d.source = c.source /\ d.index = c.index /\ d.content = c.content
    <3>1. PICK c \in Range(chunks) : d.source = c.source /\ d.index = c.index /\ d.content = c.content
      BY <2>2
    <3>2. PICK j \in Ingests : ingest[j] \in {"done", "lost"} /\ Whole(j) /\ Says(j, c)
      BY <3>1 DEF KnowledgeInv, StoredInOnePiece, Says
    <3>3. document'[j] = document[j] /\ ingest'[j] = ingest[j]
      BY <1>1, <3>2 DEF RequestMoves
    <3>4. Whole(j)'
      BY <1>1, <3>2, WholeStays
    <3> QED
      BY <3>1, <3>2, <3>3, <3>4 DEF Says
  <2> QED
    BY <1>1, <2>1, <2>2 DEF RowMoves
<1> QED
  BY <1>2 DEF StoredInOnePiece, Says

(* Every step of the knowledge base keeps the invariant.                    *)
LEMMA KnowledgeInvStep == KnowledgeInv /\ [KnowledgeNext]_knowledgeVars => KnowledgeInv'
<1> SUFFICES ASSUME KnowledgeInv, [KnowledgeNext]_knowledgeVars PROVE KnowledgeInv'
  OBVIOUS
<1>1. CASE \E i \in Ingests : Ingest(i) \/ Commit(i) \/ Abort(i)
  BY <1>1, KnowledgeTypes, SelectedStaysStep, AckedStaysStep, PiecesStayStep DEF KnowledgeInv
<1>2. CASE UNCHANGED <<stored, chunks, document, ingest, loaded, since>>
  BY <1>2 DEF KnowledgeInv, KnowledgeTypeOK, StagesFit, SelectedStays, AckedTextStays,
              StoredInOnePiece, Whole, RowsFor, From, AnsweredTo
<1> QED
  BY <1>1, <1>2 DEF KnowledgeNext, knowledgeVars, Search

(* The invariant holds in every state.                                      *)
LEMMA KnowledgeRuns == KnowledgeSpec => []KnowledgeInv
  BY KnowledgeInitially, KnowledgeInvStep, PTL DEF KnowledgeSpec

(* For any requests, texts and sources, what a client was told was accepted *)
(* is in the base, with its words or with those of a text of the source     *)
(* that was stored since the request came (knowledge_repo.py:36).           *)
THEOREM AcknowledgedTextsStay == KnowledgeSpec => []AckedTextStays
  BY KnowledgeRuns, PTL DEF KnowledgeInv

(* For any requests, texts and sources, every chunk is one of a text that   *)
(* is there in one piece, acknowledged or not, whichever transactions break *)
(* the unique key or lose their connection before or after the commit.      *)
THEOREM TextsAreStoredInOnePiece == KnowledgeSpec => []StoredInOnePiece
  BY KnowledgeRuns, PTL DEF KnowledgeInv

(* There are N numbers up to N.                                             *)
LEMMA UpTo ==
  ASSUME NEW N \in Nat
  PROVE  IsFiniteSet(1 .. N) /\ Cardinality(1 .. N) = N
<1>1. 1 \in Int /\ N \in Int
  OBVIOUS
<1>2. IsFiniteSet(1 .. N) /\ Cardinality(1 .. N) = IF 1 > N THEN 0 ELSE N - 1 + 1
  BY <1>1, FS_Interval
<1> QED
  BY <1>2

(* The score of a chunk is a number.                                        *)
LEMMA ScoreIsANumber ==
  ASSUME NEW c \in Rows, NEW query
  PROVE  Score(c, query) \in Nat
<1>1. IsFiniteSet(c.content)
  BY DEF Rows, Contents
<1>2. IsFiniteSet(query \cap c.content)
  BY <1>1, FS_Intersection
<1> QED
  BY <1>2, FS_CardinalityType DEF Score

(* A candidate with a word of the query is among the citations, unless they *)
(* are Limit candidates that are as good.                                   *)
LEMMA RankFinds ==
  ASSUME NEW candidates \in Seq(Rows), NEW query,
         NEW n \in 1 .. Len(candidates), Score(candidates[n], query) > 0
  PROVE  \/ \E m \in DOMAIN Rank(candidates, query) : Rank(candidates, query)[m] = candidates[n]
         \/ /\ Len(Rank(candidates, query)) = Limit
            /\ \A m \in DOMAIN Rank(candidates, query) :
                 Score(Rank(candidates, query)[m], query) >= Score(candidates[n], query)
<1> DEFINE hits == {m \in DOMAIN candidates : query = {} \/ Score(candidates[m], query) > 0}
           score(m) == Score(candidates[m], query)
           better(l, m) == \/ Score(candidates[l], query) > Score(candidates[m], query)
                           \/ Score(candidates[l], query) = Score(candidates[m], query) /\ l < m
           R == {p \in hits \X hits : better(p[1], p[2])}
           found == Rank(candidates, query)
           q == [k \in 1 .. Cardinality(hits) |->
                  CHOOSE m \in hits : Cardinality({l \in hits : better(l, m)}) = k - 1]
<1>0. Limit \in Nat
  BY KnowledgeAssumption
<1>1. /\ DOMAIN candidates = 1 .. Len(candidates) /\ Len(candidates) \in Nat
      /\ \A m \in DOMAIN candidates : score(m) \in Nat
  BY ScoreIsANumber
<1>2. hits \subseteq Nat /\ IsFiniteSet(hits) /\ n \in hits
  BY <1>1, UpTo, FS_Subset
<1>3. \A m \in hits : score(m) \in Nat /\ m \in Nat
  BY <1>1, <1>2
<1>4. found = [k \in 1 .. (IF Len(q) < Limit THEN Len(q) ELSE Limit) |-> candidates[q[k]]]
  BY DEF Rank, Ordered
<1> HIDE DEF hits, score, found
<1>5. \A l, m \in hits : <<l, m>> \in R <=> score(l) > score(m) \/ (score(l) = score(m) /\ l < m)
  BY DEF score
<1>6. \A m \in hits : Smaller(R, hits, m) = {l \in hits : better(l, m)}
  BY DEF Smaller
<1> HIDE DEF R
<1>7. Orders(R, hits)
  <2>1. \A m \in hits : <<m, m>> \notin R
    BY <1>3, <1>5
  <2>2. \A k, l, m \in hits : <<k, l>> \in R /\ <<l, m>> \in R => <<k, m>> \in R
    BY <1>3, <1>5
  <2>3. \A l, m \in hits : l # m => <<l, m>> \in R \/ <<m, l>> \in R
    BY <1>3, <1>5
  <2> QED
    BY <2>1, <2>2, <2>3 DEF Orders
<1> DEFINE N == Cardinality(hits)
<1>8. N \in Nat /\ \A k \in 0 .. (N - 1) : \E m \in hits : Cardinality({l \in hits : better(l, m)}) = k
  <2>1. N \in Nat
    BY <1>2, FS_CardinalityType
  <2>2. \A k \in 0 .. (N - 1) : \E m \in hits : Cardinality(Smaller(R, hits, m)) = k
    <3>1. IsFiniteSet(hits)
      BY <1>2
    <3> HIDE DEF better, q
    <3> QED
      BY <1>7, <3>1, Ranks
  <2> HIDE DEF better
  <2> QED
    BY <1>6, <2>1, <2>2, Zenon
<1>9. q = [k \in 1 .. N |-> CHOOSE m \in hits : Cardinality({l \in hits : better(l, m)}) = k - 1]
  OBVIOUS
<1> HIDE DEF N, better, q
<1>10. ASSUME NEW k \in 1 .. N PROVE q[k] \in hits /\ Cardinality({l \in hits : better(l, q[k])}) = k - 1
  <2>1. k - 1 \in 0 .. (N - 1)
    BY <1>8
  <2>2. \E m \in hits : Cardinality({l \in hits : better(l, m)}) = k - 1
    BY <1>8, <2>1
  <2>3. q[k] = CHOOSE m \in hits : Cardinality({l \in hits : better(l, m)}) = k - 1
    BY <1>9
  <2> QED
    BY <2>2, <2>3
<1>11. DOMAIN q = 1 .. N /\ \A k \in DOMAIN q : q[k] \in hits /\ Cardinality(Smaller(R, hits, q[k])) = k - 1
  BY <1>6, <1>9, <1>10
<1>12. /\ \A m \in hits : \E k \in DOMAIN q : q[k] = m
       /\ \A j, k \in DOMAIN q : j < k <=> <<q[j], q[k]>> \in R
  BY <1>2, <1>7, <1>11, RankedSequence DEF N
<1>13. Len(q) = N
  BY <1>8, <1>9, <1>11
<1>14. PICK r \in 1 .. N : q[r] = n
  BY <1>2, <1>11, <1>12
<1>15. CASE r <= Limit
  <2>1. r \in DOMAIN found /\ found[r] = candidates[n]
    BY <1>4, <1>8, <1>13, <1>14, <1>15, <1>0
  <2> QED
    BY <2>1 DEF found
<1>16. CASE r > Limit
  <2>1. ~(N < Limit)
    BY <1>8, <1>14, <1>16, <1>0
  <2>2. found = [k \in 1 .. Limit |-> candidates[q[k]]]
    BY <1>4, <1>13, <2>1
  <2>3. Len(found) = Limit
    BY <2>2, <1>0
  <2>4. ASSUME NEW m \in 1 .. Limit PROVE Score(found[m], query) >= Score(candidates[n], query)
    <3>1. m \in 1 .. N /\ m < r
      BY <1>8, <1>14, <1>16, <2>4, <1>0
    <3>2. <<q[m], q[r]>> \in R /\ q[m] \in hits /\ n \in hits
      BY <1>2, <1>10, <1>11, <1>12, <3>1
    <3>3. score(q[m]) >= score(n)
      <4>1. <<q[m], n>> \in R
        BY <1>14, <3>2
      <4>2. score(q[m]) > score(n) \/ score(q[m]) = score(n)
        BY <1>5, <3>2, <4>1
      <4>3. score(q[m]) \in Nat /\ score(n) \in Nat
        BY <1>3, <3>2
      <4> QED
        BY <4>2, <4>3
    <3>4. found[m] = candidates[q[m]]
      BY <2>2
    <3> QED
      BY <3>3, <3>4 DEF score
  <2>5. DOMAIN found = 1 .. Limit
    BY <2>2
  <2> QED
    BY <2>3, <2>4, <2>5 DEF found
<1>17. r \in Nat /\ Limit \in Nat
  BY <1>8, <1>0
<1> QED
  BY <1>15, <1>16, <1>17

(* A chunk of a tenant is among the candidates of its search, unless as     *)
(* many of the tenant's other rows as the window holds are as new.          *)
LEMMA CandidatesMiss ==
  ASSUME KnowledgeTypeOK, NEW tenant, NEW candidates \in Candidates(tenant), NEW n \in DOMAIN chunks,
         TenantOf[chunks[n].source] = tenant
  PROVE  /\ candidates \in Seq(Rows)
         /\ \/ \E k \in 1 .. Len(candidates) : candidates[k] = chunks[n]
            \/ /\ stored
               /\ LET own == {m \in DOMAIN chunks : TenantOf[chunks[m].source] = tenant}
                  IN Cardinality({m \in own \ {n} : chunks[m].at >= chunks[n].at}) >= Window
<1> DEFINE own == {m \in DOMAIN chunks : TenantOf[chunks[m].source] = tenant}
           list == Ordered(own, <)
           N == Cardinality(own)
           size == IF N < Window THEN N ELSE Window
           asNew == {m \in own \ {n} : chunks[m].at >= chunks[n].at}
<1>0. Window \in Nat
  BY KnowledgeAssumption
<1>1. chunks \in Seq(Rows) /\ Len(chunks) \in Nat /\ DOMAIN chunks = 1 .. Len(chunks)
  BY DEF KnowledgeTypeOK, Rows
<1>2. own \subseteq Nat /\ own \subseteq DOMAIN chunks /\ n \in own
  BY <1>1
<1>3. IsFiniteSet(own)
  BY <1>1, <1>2, UpTo, FS_Subset
<1>4. N \in Nat /\ list \in [1 .. N -> own] /\ \A m \in own : \E k \in 1 .. N : list[k] = m
  <2> HIDE DEF own
  <2>1. own \subseteq Nat
    BY <1>2
  <2>2. N \in Nat /\ list \in [1 .. N -> own]
    BY <1>3, <2>1, Ascending
  <2>3. \A m \in own : \E k \in 1 .. N : list[k] = m
    BY <1>3, <2>1, Ascending
  <2> QED
    BY <2>2, <2>3
<1>5. \/ ~stored /\ candidates = [k \in DOMAIN list |-> chunks[list[k]]]
      \/ /\ stored
         /\ \E o \in Injection(1 .. size, own) :
              /\ \A k \in 1 .. size, m \in own \ Range(o) : chunks[o[k]].at >= chunks[m].at
              /\ candidates = [k \in 1 .. size |-> chunks[o[k]]]
  BY DEF Candidates
<1>6. \A m \in own : chunks[m] \in Rows
  BY <1>1, <1>2
<1> HIDE DEF own, list
<1>7. CASE ~stored
  <2>1. candidates = [k \in 1 .. N |-> chunks[list[k]]]
    BY <1>4, <1>5, <1>7
  <2>2. \A k \in 1 .. N : chunks[list[k]] \in Rows
    BY <1>4, <1>6
  <2>3. candidates \in Seq(Rows) /\ Len(candidates) = N
    <3>1. candidates \in [1 .. N -> Rows]
      BY <2>1, <2>2
    <3> QED
      BY <1>4, <3>1
  <2>4. PICK k \in 1 .. N : list[k] = n
    BY <1>2, <1>4
  <2>5. candidates[k] = chunks[n]
    BY <2>1, <2>4
  <2> QED
    BY <2>3, <2>5
<1>8. CASE stored
  <2>0. size \in Nat /\ (size = N \/ size = Window)
    BY <1>0, <1>4
  <2> HIDE DEF size, N
  <2>1. PICK o \in Injection(1 .. size, own) :
          /\ \A k \in 1 .. size, m \in own \ Range(o) : chunks[o[k]].at >= chunks[m].at
          /\ candidates = [k \in 1 .. size |-> chunks[o[k]]]
    BY <1>5, <1>8
  <2>2. /\ o \in [1 .. size -> own]
        /\ \A k, m \in 1 .. size : o[k] = o[m] => k = m
    BY <2>1 DEF Injection, IsInjective
  <2>3. \A k \in 1 .. size : chunks[o[k]] \in Rows
    BY <1>6, <2>2
  <2>4. candidates \in Seq(Rows) /\ Len(candidates) = size
    <3>1. candidates \in [1 .. size -> Rows]
      BY <2>1, <2>3
    <3> QED
      BY <2>0, <3>1
  <2>5. CASE n \in Range(o)
    <3>1. PICK k \in 1 .. size : o[k] = n
      BY <2>2, <2>5 DEF Range
    <3>2. k \in 1 .. Len(candidates) /\ candidates[k] = chunks[n]
      BY <2>1, <2>4, <3>1
    <3> QED
      BY <2>4, <3>2
  <2>6. CASE n \notin Range(o)
    <3>1. ASSUME NEW k \in 1 .. size PROVE o[k] \in asNew
      <4>1. o[k] \in own /\ o[k] # n
        BY <2>2, <2>6 DEF Range
      <4>2. chunks[o[k]].at >= chunks[n].at
        BY <1>2, <2>1, <2>6
      <4> QED
        BY <4>1, <4>2
    <3>2. asNew \subseteq own /\ asNew \subseteq own \ {n}
      OBVIOUS
    <3>3. IsFiniteSet(asNew) /\ Cardinality(asNew) \in Nat
      BY <1>3, <3>2, FS_Subset, FS_CardinalityType
    <3>4. Cardinality(asNew) >= size
      <4> SUFFICES ASSUME Cardinality(asNew) < size PROVE FALSE
        BY <2>0, <3>3
      <4> DEFINE f == [k \in 1 .. size |-> o[k]]
      <4> HIDE DEF asNew
      <4>1. f \in [1 .. size -> asNew]
        BY <3>1
      <4>2. IsFiniteSet(1 .. size) /\ Cardinality(asNew) < Cardinality(1 .. size)
        BY <2>0, UpTo
      <4>3. \E k, m \in 1 .. size : k # m /\ f[k] = f[m]
        <5> HIDE DEF f
        <5> QED
          BY <3>3, <4>1, <4>2, FS_PigeonHole
      <4>4. PICK k, m \in 1 .. size : k # m /\ o[k] = o[m]
        BY <4>3
      <4> QED
        BY <2>2, <4>4
    <3>5. Cardinality(asNew) < N
      <4>1. asNew # own
        BY <1>2
      <4>2. Cardinality(asNew) <= Cardinality(own) /\ Cardinality(asNew) # Cardinality(own)
        <5> HIDE DEF asNew
        <5> QED
          BY <1>3, <3>2, <4>1, FS_Subset
      <4> QED
        BY <1>4, <3>3, <4>2 DEF N
    <3>6. size = Window
      BY <1>4, <2>0, <3>3, <3>4, <3>5
    <3> QED
      BY <1>8, <2>4, <3>4, <3>6 DEF own
  <2> QED
    BY <2>5, <2>6
<1> QED
  BY <1>7, <1>8

(* For any chunks, query and limits, a search finds every chunk of the      *)
(* tenant with a word of the query, unless it cites Limit others that are   *)
(* as good, or Window rows of the tenant are as new (retriever.py,          *)
(* knowledge_repo.py:47).                                                   *)
THEOREM SearchesFind == KnowledgeSpec => FoundUnlessCrowded
<1> DEFINE own == {n \in DOMAIN chunks : TenantOf[chunks[n].source] = reply'.tenant}
           Finds == reply' \notin {reply, NoChunk} =>
             \A n \in own : Score(chunks[n], reply'.query) > 0 =>
               \/ \E m \in DOMAIN reply'.found : reply'.found[m] = chunks[n]
               \/ /\ Len(reply'.found) = Limit
                  /\ \A m \in DOMAIN reply'.found :
                       Score(reply'.found[m], reply'.query) >= Score(chunks[n], reply'.query)
               \/ /\ stored
                  /\ Cardinality({m \in own \ {n} : chunks[m].at >= chunks[n].at}) >= Window
<1>1. ASSUME KnowledgeInv, [KnowledgeNext]_knowledgeVars PROVE [Finds]_knowledgeVars
  <2>1. CASE UNCHANGED knowledgeVars
    BY <2>1
  <2>2. ASSUME NEW i \in Ingests, Ingest(i) \/ Commit(i) \/ Abort(i) PROVE Finds
    BY <2>2 DEF Ingest, Commit, Abort
  <2>3. ASSUME NEW source \in Sources, NEW query \in Queries, Search(TenantOf[source], query)
        PROVE  Finds
    <3>1. PICK candidates \in Candidates(TenantOf[source]) :
            reply' = [tenant |-> TenantOf[source], query |-> query, found |-> Rank(candidates, query)]
      BY <2>3 DEF Search
    <3>2. reply'.tenant = TenantOf[source] /\ reply'.query = query /\ reply'.found = Rank(candidates, query)
      BY <3>1
    <3> SUFFICES ASSUME NEW n \in DOMAIN chunks, TenantOf[chunks[n].source] = TenantOf[source],
                        Score(chunks[n], query) > 0
                 PROVE
                   \/ \E m \in DOMAIN reply'.found : reply'.found[m] = chunks[n]
                   \/ /\ Len(reply'.found) = Limit
                      /\ \A m \in DOMAIN reply'.found :
                           Score(reply'.found[m], query) >= Score(chunks[n], query)
                   \/ /\ stored
                      /\ Cardinality({m \in own \ {n} : chunks[m].at >= chunks[n].at}) >= Window
      BY <3>2
    <3>3. own = {m \in DOMAIN chunks : TenantOf[chunks[m].source] = TenantOf[source]}
      BY <3>2
    <3>4. KnowledgeTypeOK
      BY <1>1 DEF KnowledgeInv
    <3>5. candidates \in Seq(Rows)
      BY <3>4, CandidatesMiss
    <3>6. \/ \E k \in 1 .. Len(candidates) : candidates[k] = chunks[n]
          \/ /\ stored
             /\ Cardinality({m \in own \ {n} : chunks[m].at >= chunks[n].at}) >= Window
      BY <3>3, <3>4, CandidatesMiss
    <3>7. ASSUME NEW k \in 1 .. Len(candidates), candidates[k] = chunks[n]
          PROVE  \/ \E m \in DOMAIN reply'.found : reply'.found[m] = chunks[n]
                 \/ /\ Len(reply'.found) = Limit
                    /\ \A m \in DOMAIN reply'.found :
                         Score(reply'.found[m], query) >= Score(chunks[n], query)
      <4>1. Score(candidates[k], query) > 0
        BY <3>7
      <4>2. \/ \E m \in DOMAIN Rank(candidates, query) : Rank(candidates, query)[m] = candidates[k]
            \/ /\ Len(Rank(candidates, query)) = Limit
               /\ \A m \in DOMAIN Rank(candidates, query) :
                    Score(Rank(candidates, query)[m], query) >= Score(candidates[k], query)
        BY <3>5, <4>1, RankFinds
      <4> QED
        BY <3>2, <3>7, <4>2
    <3> HIDE DEF own
    <3> QED
      BY <3>6, <3>7
  <2> QED
    BY <1>1, <2>1, <2>2, <2>3 DEF KnowledgeNext
<1>2. [][Finds]_knowledgeVars => FoundUnlessCrowded
  BY DEF FoundUnlessCrowded
<1> QED
  BY <1>1, <1>2, KnowledgeRuns, PTL DEF KnowledgeSpec
------------------------------------------------------------------------------
(* Generation: the parts of a prompt and the provider that is called.       *)

(* Texts: sequences of parts.                                               *)
PartNames == {"label", "system", "policy", "skills", "tools", "task", "evidence", "memory", "line", "..."}
Parts     == [name : PartNames, words : Nat]
Text      == Seq(Parts)

(* What a text is made of. *)
LEMMA TextParts ==
  ASSUME NEW t \in Text
  PROVE  /\ Len(t) \in Nat /\ DOMAIN t = 1 .. Len(t)
         /\ \A n \in 1 .. Len(t) :
              t[n] \in Parts /\ t[n].words \in Nat /\ t[n].name \in PartNames
              /\ t[n] = Part(t[n].name, t[n].words)
<1>1. Len(t) \in Nat /\ DOMAIN t = 1 .. Len(t) /\ \A n \in 1 .. Len(t) : t[n] \in Parts
  BY DEF Text
<1> QED
  BY <1>1 DEF Parts, Part

(* Joining texts. *)
LEMMA JoinedText ==
  ASSUME NEW t \in Text, NEW u \in Text
  PROVE  /\ t \o u \in Text /\ Len(t \o u) = Len(t) + Len(u)
         /\ \A i \in 1 .. Len(t) : (t \o u)[i] = t[i]
         /\ \A i \in 1 .. Len(u) : (t \o u)[Len(t) + i] = u[i]
BY DEF Text

(* A part joins a text.                                                     *)
LEMMA LongerText ==
  ASSUME NEW t \in Text, NEW part \in Parts
  PROVE  /\ Append(t, part) \in Text /\ Len(Append(t, part)) = Len(t) + 1
         /\ \A i \in 1 .. Len(t) : Append(t, part)[i] = t[i]
         /\ Append(t, part)[Len(t) + 1] = part
BY DEF Text

(* The sums of a text: each adds the words of one part to the one before.   *)
LEMMA SumsAre ==
  ASSUME NEW t \in Text
  PROVE  /\ Sums(t) \in [0 .. Len(t) -> Nat] /\ Sums(t)[0] = 0
         /\ \A n \in 1 .. Len(t) : Sums(t)[n] = Sums(t)[n - 1] + t[n].words
<1> DEFINE N == Len(t)
           F(g) == [n \in 0 .. N |-> IF n = 0 THEN 0 ELSE g[n - 1] + t[n].words]
           s == Sums(t)
<1>1. N \in Nat /\ \A n \in 1 .. N : t[n].words \in Nat
  BY TextParts
<1>2. \E g : g = F(g)
  <2> DEFINE f == [p \in (1 .. N) \X Nat |-> p[2] + t[p[1]].words]
  <2>1. f \in [(1 .. N) \X Nat -> Nat]
    BY <1>1
  <2>2. \A n \in 1 .. N, m \in Nat : f[<<n, m>>] = m + t[n].words
    OBVIOUS
  <2> HIDE DEF f, N
  <2>3. PICK g : Recurs(g, N, Nat, 0, f)
    BY <1>1, <2>1, RecursiveFunction
  <2>4. g \in [0 .. N -> Nat] /\ g[0] = 0 /\ \A n \in 1 .. N : g[n] = f[<<n, g[n - 1]>>]
    BY <2>3 DEF Recurs
  <2>5. \A n \in 1 .. N : g[n] = g[n - 1] + t[n].words
    <3>1. \A n \in 1 .. N : n - 1 \in 0 .. N /\ g[n - 1] \in Nat
      BY <1>1, <2>4
    <3> QED
      BY <2>2, <2>4, <3>1
  <2>6. g = F(g)
    BY <1>1, <2>4, <2>5
  <2> QED
    BY <2>6
<1>3. s = F(s)
  <2>1. s = CHOOSE g : g = F(g)
    BY DEF Sums
  <2> QED
    BY <1>2, <2>1
<1> HIDE DEF s
<1>4. /\ DOMAIN s = 0 .. N /\ s[0] = 0
      /\ \A n \in 1 .. N : s[n] = s[n - 1] + t[n].words
  BY <1>1, <1>3
<1>5. \A n \in 0 .. N : s[n] \in Nat
  <2> DEFINE H == {n \in 0 .. N : s[n] \in Nat}
  <2>1. 0 \in H
    BY <1>1, <1>4
  <2>2. \A n \in 1 .. N : n - 1 \in H => n \in H
    BY <1>1, <1>4
  <2> HIDE DEF H, N
  <2>3. \A n \in 0 .. N : n \in H
    BY <1>1, <2>1, <2>2, Induction
  <2> QED
    BY <2>3 DEF H
<1>6. s \in [0 .. N -> Nat]
  BY <1>3, <1>4, <1>5
<1> QED
  BY <1>4, <1>6 DEF s

(* A text has a number of words. *)
LEMMA WordsType ==
  ASSUME NEW t \in Text
  PROVE  Words(t) \in Nat
<1>1. Len(t) \in 0 .. Len(t) /\ Sums(t) \in [0 .. Len(t) -> Nat]
  BY SumsAre, TextParts
<1> QED
  BY <1>1 DEF Words

(* Sums grow. *)
LEMMA SumsGrow ==
  ASSUME NEW t \in Text, NEW i \in 0 .. Len(t)
  PROVE  Sums(t)[i] <= Words(t)
<1> DEFINE N == Len(t)
           H == {n \in 0 .. N : n < i \/ Sums(t)[i] <= Sums(t)[n]}
<1>0. N \in Nat /\ \A n \in 1 .. N : t[n].words \in Nat
  BY TextParts
<1>1. /\ Sums(t) \in [0 .. N -> Nat]
      /\ \A n \in 1 .. N : Sums(t)[n] = Sums(t)[n - 1] + t[n].words
  BY SumsAre
<1>2. 0 \in H
  BY <1>0, <1>1
<1>3. ASSUME NEW n \in 1 .. N, n - 1 \in H PROVE n \in H
  <2>0. n - 1 \in 0 .. N /\ n \in 0 .. N /\ i \in 0 .. N
    BY <1>0
  <2>1. Sums(t)[n] \in Nat /\ Sums(t)[n - 1] \in Nat /\ t[n].words \in Nat /\ Sums(t)[i] \in Nat
    BY <1>0, <1>1, <2>0
  <2>2. CASE n - 1 < i
    <3>1. n < i \/ n = i
      BY <2>2
    <3> QED
      BY <2>1, <3>1
  <2>3. CASE ~(n - 1 < i)
    <3>1. Sums(t)[i] <= Sums(t)[n - 1] /\ Sums(t)[n] = Sums(t)[n - 1] + t[n].words
      BY <1>1, <1>3, <2>3
    <3> QED
      BY <2>1, <3>1
  <2> QED
    BY <2>2, <2>3
<1> HIDE DEF H
<1>4. \A n \in 0 .. N : n \in H
  BY <1>0, <1>2, <1>3, Induction
<1> QED
  BY <1>0, <1>4 DEF H, Words

(* Where two texts go on alike, so do their sums. *)
LEMMA SumsAlike ==
  ASSUME NEW t \in Text, NEW u \in Text, NEW k \in Nat, NEW l \in Nat,
         k + l <= Len(t), l <= Len(u), \A i \in 1 .. l : t[k + i].words = u[i].words
  PROVE  \A i \in 0 .. l : Sums(t)[k + i] = Sums(t)[k] + Sums(u)[i]
<1> DEFINE H == {i \in 0 .. l : Sums(t)[k + i] = Sums(t)[k] + Sums(u)[i]}
<1>0. Len(t) \in Nat /\ Len(u) \in Nat
  BY DEF Text
<1>1. /\ Sums(t) \in [0 .. Len(t) -> Nat] /\ Sums(u) \in [0 .. Len(u) -> Nat] /\ Sums(u)[0] = 0
      /\ \A n \in 1 .. Len(t) : Sums(t)[n] = Sums(t)[n - 1] + t[n].words
      /\ \A n \in 1 .. Len(u) : Sums(u)[n] = Sums(u)[n - 1] + u[n].words
  BY SumsAre
<1>2. 0 \in H
  <2>1. k \in 0 .. Len(t) /\ k + 0 = k
    BY <1>0
  <2>2. Sums(t)[k] \in Nat
    BY <1>1, <2>1
  <2> QED
    BY <1>1, <2>1, <2>2
<1>3. ASSUME NEW i \in 1 .. l, i - 1 \in H PROVE i \in H
  <2>1. /\ k + i \in 1 .. Len(t) /\ i \in 1 .. Len(u) /\ (k + i) - 1 = k + (i - 1)
        /\ k + (i - 1) \in 0 .. Len(t) /\ i - 1 \in 0 .. Len(u) /\ k \in 0 .. Len(t)
    BY <1>0
  <2>2. Sums(t)[k + (i - 1)] = Sums(t)[k] + Sums(u)[i - 1]
    BY <1>3
  <2>3. /\ Sums(t)[k + i] = Sums(t)[k + (i - 1)] + t[k + i].words
        /\ Sums(u)[i] = Sums(u)[i - 1] + u[i].words
    BY <1>1, <2>1
  <2>4. t[k + i].words = u[i].words
    OBVIOUS
  <2>5. Sums(t)[k] \in Nat /\ Sums(u)[i - 1] \in Nat /\ u[i].words \in Nat
    BY <1>1, <2>1, TextParts
  <2>6. Sums(t)[k + i] = Sums(t)[k] + Sums(u)[i]
    <3> DEFINE a == Sums(t)[k + i]  b == Sums(t)[k + (i - 1)]  p == Sums(t)[k]
               q == Sums(u)[i - 1]  r == Sums(u)[i]  w == u[i].words
    <3>1. a = b + w /\ b = p + q /\ r = q + w /\ p \in Nat /\ q \in Nat /\ w \in Nat
      BY <2>2, <2>3, <2>4, <2>5
    <3> HIDE DEF a, b, p, q, r, w
    <3>2. a = p + r
      BY <3>1
    <3> QED
      BY <3>2 DEF a, p, r
  <2> QED
    BY <2>6
<1> HIDE DEF H
<1>4. \A i \in 0 .. l : i \in H
  BY <1>2, <1>3, Induction
<1> QED
  BY <1>4 DEF H

(* Cutting a text keeps its parts and their names, cuts their sums at n, and *)
(* leaves a part alone that ends before that.                                *)
LEMMA CutKeeps ==
  ASSUME NEW t \in Text, NEW n \in Nat
  PROVE  /\ Cut(t, n) \in Text /\ Len(Cut(t, n)) = Len(t)
         /\ \A i \in 0 .. Len(t) : Sums(Cut(t, n))[i] = AtMost(Sums(t)[i], n)
         /\ \A i \in 1 .. Len(t) : Sums(t)[i] <= n => Cut(t, n)[i] = t[i]
<1> DEFINE N == Len(t)
           c == Cut(t, n)
           H == {i \in 0 .. N : Sums(c)[i] = AtMost(Sums(t)[i], n)}
<1>0. /\ N \in Nat /\ DOMAIN t = 1 .. N
      /\ \A i \in 1 .. N : t[i].words \in Nat /\ t[i].name \in PartNames
                            /\ t[i] = Part(t[i].name, t[i].words)
  BY TextParts
<1>1. /\ Sums(t) \in [0 .. N -> Nat] /\ Sums(t)[0] = 0
      /\ \A i \in 1 .. N : Sums(t)[i] = Sums(t)[i - 1] + t[i].words
  BY SumsAre
<1>2. c = [i \in 1 .. N |-> Part(t[i].name, IF Sums(t)[i - 1] >= n THEN 0
                                            ELSE AtMost(t[i].words, n - Sums(t)[i - 1]))]
  BY <1>0 DEF Cut
<1> HIDE DEF c
<1>3. ASSUME NEW i \in 1 .. N
      PROVE  /\ Sums(t)[i - 1] \in Nat /\ t[i].words \in Nat
             /\ c[i].words = IF Sums(t)[i - 1] >= n THEN 0
                             ELSE AtMost(t[i].words, n - Sums(t)[i - 1])
             /\ c[i] = Part(t[i].name, c[i].words) /\ c[i].words \in Nat
             /\ c[i] \in Parts
  <2>1. Sums(t)[i - 1] \in Nat /\ t[i].words \in Nat /\ t[i].name \in PartNames
    BY <1>0, <1>1
  <2>2. c[i] = Part(t[i].name, IF Sums(t)[i - 1] >= n THEN 0 ELSE AtMost(t[i].words, n - Sums(t)[i - 1]))
    BY <1>2
  <2>3. c[i].words = IF Sums(t)[i - 1] >= n THEN 0 ELSE AtMost(t[i].words, n - Sums(t)[i - 1])
    BY <2>2 DEF Part
  <2>4. c[i].words \in Nat
    BY <2>1, <2>3 DEF AtMost
  <2>5. c[i] = Part(t[i].name, c[i].words)
    BY <2>2, <2>3
  <2> QED
    BY <2>1, <2>3, <2>4, <2>5 DEF Part, Parts
<1>4. c \in Text /\ Len(c) = N
  BY <1>0, <1>2, <1>3 DEF Text
<1>5. /\ Sums(c) \in [0 .. N -> Nat] /\ Sums(c)[0] = 0
      /\ \A i \in 1 .. N : Sums(c)[i] = Sums(c)[i - 1] + c[i].words
  BY <1>4, SumsAre
<1>6. 0 \in H
  BY <1>0, <1>1, <1>5 DEF AtMost
<1>7. ASSUME NEW i \in 1 .. N, i - 1 \in H PROVE i \in H
  <2>1. i \in 0 .. N /\ Sums(c)[i - 1] = AtMost(Sums(t)[i - 1], n)
    BY <1>7
  <2>2. /\ Sums(c)[i] = Sums(c)[i - 1] + c[i].words
        /\ Sums(t)[i] = Sums(t)[i - 1] + t[i].words
    BY <1>1, <1>5
  <2>3. Sums(c)[i] = AtMost(Sums(t)[i], n)
    BY <1>3, <2>1, <2>2 DEF AtMost
  <2> QED
    BY <2>1, <2>3
<1> HIDE DEF H
<1>8. \A i \in 0 .. N : i \in H
  BY <1>0, <1>6, <1>7, Induction
<1>9. ASSUME NEW i \in 1 .. N, Sums(t)[i] <= n PROVE c[i] = t[i]
  <2>1. c[i].words = t[i].words
    BY <1>1, <1>3, <1>9 DEF AtMost
  <2> QED
    BY <1>0, <1>3, <2>1 DEF Part
<1> QED
  BY <1>4, <1>8, <1>9 DEF H, c

(* The first sums of a text, written out. *)
LEMMA SumsUnrolled ==
  ASSUME NEW t \in Text, Len(t) >= 8
  PROVE  Sums(t)[7] = t[1].words + t[2].words + t[3].words + t[4].words
                      + t[5].words + t[6].words + t[7].words
         /\ Sums(t)[3] = t[1].words + t[2].words + t[3].words
         /\ Sums(t)[8] = Sums(t)[7] + t[8].words
<1>1. /\ Sums(t)[0] = 0
      /\ \A n \in 1 .. Len(t) : Sums(t)[n] = Sums(t)[n - 1] + t[n].words /\ t[n].words \in Nat
      /\ Len(t) \in Nat
  BY SumsAre, TextParts
<1>2. \A n \in {1, 2, 3, 4, 5, 6, 7, 8} : n \in 1 .. Len(t)
  BY <1>1
<1>3. \A n \in {1, 2, 3, 4, 5, 6, 7, 8} : Sums(t)[n] = Sums(t)[n - 1] + t[n].words /\ t[n].words \in Nat
  BY <1>1, <1>2
<1>4. /\ Sums(t)[1] = Sums(t)[0] + t[1].words /\ Sums(t)[2] = Sums(t)[1] + t[2].words
      /\ Sums(t)[3] = Sums(t)[2] + t[3].words /\ Sums(t)[4] = Sums(t)[3] + t[4].words
      /\ Sums(t)[5] = Sums(t)[4] + t[5].words /\ Sums(t)[6] = Sums(t)[5] + t[6].words
      /\ Sums(t)[7] = Sums(t)[6] + t[7].words /\ Sums(t)[8] = Sums(t)[7] + t[8].words
  BY <1>3
<1>5. /\ t[1].words \in Nat /\ t[2].words \in Nat /\ t[3].words \in Nat /\ t[4].words \in Nat
      /\ t[5].words \in Nat /\ t[6].words \in Nat /\ t[7].words \in Nat
  BY <1>3
<1> DEFINE s(n) == Sums(t)[n]
           w(n) == t[n].words
<1>6. /\ s(0) = 0 /\ s(1) = s(0) + w(1) /\ s(2) = s(1) + w(2) /\ s(3) = s(2) + w(3) /\ s(4) = s(3) + w(4)
      /\ s(5) = s(4) + w(5) /\ s(6) = s(5) + w(6) /\ s(7) = s(6) + w(7) /\ s(8) = s(7) + w(8)
      /\ w(1) \in Nat /\ w(2) \in Nat /\ w(3) \in Nat /\ w(4) \in Nat /\ w(5) \in Nat /\ w(6) \in Nat
      /\ w(7) \in Nat
  BY <1>1, <1>4, <1>5
<1> HIDE DEF s, w
<1>7. /\ s(7) = w(1) + w(2) + w(3) + w(4) + w(5) + w(6) + w(7)
      /\ s(3) = w(1) + w(2) + w(3) /\ s(8) = s(7) + w(8)
  BY <1>6
<1> QED
  BY <1>7 DEF s, w

(* The sections a run may bring along. *)
Sections == [skills : Skillsets, forceAll : BOOLEAN, task : Lengths, evidence : Lengths,
             memory : Lengths, type : TaskTypes, sensitivity : Sensitivities]

(* The list of skills has a number of words. *)
LEMMA SkillWordsType ==
  ASSUME NEW s \in Sections
  PROVE  SkillWords(s.skills, s.forceAll) \in Nat
<1> DEFINE selected == IF s.forceAll \/ Len(s.skills) <= MaxSkills THEN s.skills
                       ELSE SubSeq(s.skills, 1, MaxSkills)
           lines == [i \in DOMAIN selected |-> Part("line", 6 + AtMost(selected[i], MaxDescription))]
<1>1. s.skills \in Seq(Nat) /\ MaxSkills \in Nat /\ MaxDescription \in Nat
  BY GenerationAssumption DEF Sections
<1>2. selected \in Seq(Nat)
  BY <1>1
<1> HIDE DEF selected
<1>3. DOMAIN selected = 1 .. Len(selected) /\ Len(selected) \in Nat
      /\ \A i \in DOMAIN selected : selected[i] \in Nat
  BY <1>2
<1>4. \A i \in DOMAIN selected : lines[i] \in Parts
  BY <1>1, <1>3 DEF Part, Parts, PartNames, AtMost
<1>5. lines \in Text
  BY <1>3, <1>4 DEF Text
<1> HIDE DEF lines
<1>6. Words(lines) \in Nat
  BY <1>5, WordsType
<1> QED
  BY <1>6 DEF SkillWords, lines, selected

(* The eighth part of the template is the task. *)
LEMMA TemplateParts ==
  ASSUME NEW s \in Sections
  PROVE  /\ Template(s) \in Text /\ Len(Template(s)) = 13
         /\ Template(s)[8] = Part("task", s.task)
         /\ Sums(Template(s))[8] = 11 + SkillWords(s.skills, s.forceAll) + ToolWords + s.task
<1> DEFINE t == Template(s)
           x == SkillWords(s.skills, s.forceAll)
<1>1. x \in Nat /\ s.task \in Nat /\ s.evidence \in Nat /\ s.memory \in Nat /\ ToolWords \in Nat
  BY SkillWordsType, GenerationAssumption DEF Sections
<1> HIDE DEF x
<1>2. t = <<Label, Part("policy", 7), Label, Part("skills", x), Label, Part("tools", ToolWords), Label,
            Part("task", s.task), Label, Part("evidence", s.evidence), Label, Part("memory", s.memory),
            Label>>
  BY DEF Template, x
<1> HIDE DEF t
<1>3. Len(t) = 13 /\ t \in Text
  <2>1. /\ Label \in Parts /\ Part("policy", 7) \in Parts /\ Part("skills", x) \in Parts
        /\ Part("tools", ToolWords) \in Parts /\ Part("task", s.task) \in Parts
        /\ Part("evidence", s.evidence) \in Parts /\ Part("memory", s.memory) \in Parts
    BY <1>1 DEF Label, Part, Parts, PartNames
  <2> QED
    BY <1>2, <2>1 DEF Text
<1>4. /\ t[1].words = 1 /\ t[2].words = 7 /\ t[3].words = 1 /\ t[4].words = x /\ t[5].words = 1
      /\ t[6].words = ToolWords /\ t[7].words = 1 /\ t[8] = Part("task", s.task) /\ t[8].words = s.task
  BY <1>2 DEF Label, Part
<1>5. Sums(t)[8] = 11 + x + ToolWords + s.task
  <2>1. /\ Sums(t)[7] = t[1].words + t[2].words + t[3].words + t[4].words
                        + t[5].words + t[6].words + t[7].words
        /\ Sums(t)[8] = Sums(t)[7] + t[8].words
    <3>1. Len(t) >= 8
      BY <1>3
    <3> QED
      BY <1>3, <3>1, SumsUnrolled
  <2>2. Sums(t)[7] = 1 + 7 + 1 + x + 1 + ToolWords + 1
    BY <1>4, <2>1
  <2> QED
    BY <1>1, <1>4, <2>1, <2>2
<1> QED
  BY <1>3, <1>4, <1>5 DEF t, x

(* A prompt is the template, cut at the budget: its task is whole if what    *)
(* comes before it leaves room.                                              *)
LEMMA PromptKeepsTask ==
  ASSUME NEW s \in Sections
  PROVE  /\ Assembled(s) \in Text /\ Len(Assembled(s)) = 13
         /\ LET sum == 11 + SkillWords(s.skills, s.forceAll) + ToolWords + s.task IN
            sum + 11 <= MaxTokens =>
              Assembled(s)[8] = Part("task", s.task) /\ Sums(Assembled(s))[8] = sum
<1> DEFINE t == Template(s)
           p == Assembled(s)
           sum == 11 + SkillWords(s.skills, s.forceAll) + ToolWords + s.task
           n == IF MaxTokens = 0 THEN 1 ELSE MaxTokens
<1>1. t \in Text /\ Len(t) = 13 /\ t[8] = Part("task", s.task) /\ Sums(t)[8] = sum
  BY TemplateParts
<1>2. n \in Nat /\ (MaxTokens = 0 \/ n = MaxTokens) /\ MaxTokens \in Nat /\ sum \in Nat
  BY GenerationAssumption, SkillWordsType DEF Sections
<1>3. p = t \/ p = Cut(t, n)
  BY DEF Assembled, Truncated
<1> HIDE DEF t, p, sum, n
<1>4. CASE p = t
  BY <1>1, <1>4 DEF p, sum
<1>5. CASE p = Cut(t, n)
  <2>1. p \in Text /\ Len(p) = 13 /\ Sums(p)[8] = AtMost(sum, n) /\ (sum <= n => p[8] = t[8])
    BY <1>1, <1>2, <1>5, CutKeeps
  <2>2. sum + 11 <= MaxTokens => sum <= n
    BY <1>2
  <2>3. sum + 11 <= MaxTokens => p[8] = Part("task", s.task) /\ Sums(p)[8] = sum
    BY <1>1, <1>2, <2>1, <2>2 DEF AtMost
  <2> QED
    BY <2>1, <2>3 DEF p, sum
<1> QED
  BY <1>3, <1>4, <1>5

(* The context has one word more than its budget at most, and keeps a task  *)
(* that ends before it.                                                     *)
LEMMA ContextKeepsTask ==
  ASSUME NEW s \in Sections, NEW p \in Text, Len(p) = 13
  PROVE  /\ Words(Context(s, p)) <= MaxTokens + 1
         /\ p[8] = Part("task", s.task) /\ Sums(p)[8] + 11 <= MaxTokens
            => \E i \in DOMAIN Context(s, p) : Context(s, p)[i] = Part("task", s.task)
<1> DEFINE head == <<Label, Part("system", 9), Label>>
           tail == <<Label, Part("evidence", s.evidence), Label, Part("memory", s.memory), Label>>
           t == head \o p \o tail
           c == Cut(t, MaxTokens)
           dots == Part("...", 1)
<1>1. s.evidence \in Nat /\ s.memory \in Nat /\ MaxTokens \in Nat
  BY GenerationAssumption DEF Sections
<1>2. head \in Text /\ Len(head) = 3 /\ tail \in Text /\ Len(tail) = 5
  <2>1. /\ Label \in Parts /\ Part("system", 9) \in Parts
        /\ Part("evidence", s.evidence) \in Parts /\ Part("memory", s.memory) \in Parts
    BY <1>1 DEF Label, Part, Parts, PartNames
  <2> QED
    BY <2>1 DEF Text
<1>3. head[1].words = 1 /\ head[2].words = 9 /\ head[3].words = 1
  BY DEF Label, Part
<1> HIDE DEF head, tail
<1>4. /\ t \in Text /\ Len(t) = 21
      /\ \A i \in 1 .. 3 : t[i] = head[i]
      /\ \A i \in 1 .. 13 : t[3 + i] = p[i]
  <2> DEFINE u == head \o p
  <2>1. /\ u \in Text /\ Len(u) = 16 /\ \A i \in 1 .. 3 : u[i] = head[i]
        /\ \A i \in 1 .. 13 : u[3 + i] = p[i]
    <3>1. /\ u \in Text /\ Len(u) = Len(head) + Len(p)
          /\ \A i \in 1 .. Len(head) : u[i] = head[i]
          /\ \A i \in 1 .. Len(p) : u[Len(head) + i] = p[i]
      BY <1>2, JoinedText
    <3> HIDE DEF u
    <3> QED
      BY <1>2, <3>1
  <2> HIDE DEF u
  <2>2. u \o tail \in Text /\ Len(u \o tail) = 21 /\ \A i \in 1 .. 16 : (u \o tail)[i] = u[i]
    <3> DEFINE v == u \o tail
    <3>1. v \in Text /\ Len(v) = Len(u) + Len(tail) /\ \A i \in 1 .. Len(u) : v[i] = u[i]
      BY <1>2, <2>1, JoinedText
    <3> HIDE DEF v
    <3>2. v \in Text /\ Len(v) = 21 /\ \A i \in 1 .. 16 : v[i] = u[i]
      BY <1>2, <2>1, <3>1
    <3> QED
      BY <3>2 DEF v
  <2>3. t = u \o tail
    BY DEF u
  <2> HIDE DEF t
  <2>4. \A i \in 1 .. 13 : 3 + i \in 1 .. 16
    OBVIOUS
  <2>5. /\ t \in Text /\ Len(t) = 21 /\ \A i \in 1 .. 16 : t[i] = u[i]
    BY <2>2, <2>3
  <2>6. \A i \in 1 .. 3 : t[i] = head[i]
    BY <2>1, <2>5
  <2>7. \A i \in 1 .. 13 : t[3 + i] = p[i]
    BY <2>1, <2>4, <2>5
  <2> QED
    BY <2>5, <2>6, <2>7
<1> HIDE DEF t
<1>5. Sums(t)[3] = 11
  <2>1. t[1].words = 1 /\ t[2].words = 9 /\ t[3].words = 1
    BY <1>3, <1>4
  <2>2. Sums(t)[3] = t[1].words + t[2].words + t[3].words
    <3>1. Len(t) >= 8
      BY <1>4
    <3> QED
      BY <1>4, <3>1, SumsUnrolled
  <2> QED
    BY <2>1, <2>2
<1>6. Sums(t)[11] = 11 + Sums(p)[8]
  <2>1. \A i \in 1 .. 8 : t[3 + i].words = p[i].words
    BY <1>4
  <2>2. \A i \in 0 .. 8 : Sums(t)[3 + i] = Sums(t)[3] + Sums(p)[i]
    <3>1. 3 \in Nat /\ 8 \in Nat /\ 3 + 8 <= Len(t) /\ 8 <= Len(p)
      BY <1>4
    <3> QED
      BY <1>4, <2>1, <3>1, SumsAlike
  <2> QED
    BY <1>5, <2>2
<1>7. /\ c \in Text /\ Len(c) = 21 /\ Words(c) = AtMost(Words(t), MaxTokens)
      /\ Sums(t)[11] <= MaxTokens => c[11] = t[11]
  <2>1. /\ c \in Text /\ Len(c) = Len(t)
        /\ \A i \in 0 .. Len(t) : Sums(c)[i] = AtMost(Sums(t)[i], MaxTokens)
        /\ \A i \in 1 .. Len(t) : Sums(t)[i] <= MaxTokens => c[i] = t[i]
    BY <1>1, <1>4, CutKeeps
  <2> HIDE DEF c
  <2> QED
    BY <1>4, <2>1 DEF Words
<1>8. Words(t) \in Nat
  BY <1>4, WordsType
<1>9. Context(s, p) = IF Words(t) <= MaxTokens THEN t ELSE Append(c, dots)
  BY DEF Context, Summarized, t, head, tail
<1> HIDE DEF c
<1>10. CASE Words(t) <= MaxTokens
  <2>1. Context(s, p) = t /\ 11 \in DOMAIN t /\ t[11] = p[8]
    BY <1>4, <1>9, <1>10 DEF Text
  <2>2. Words(t) <= MaxTokens + 1
    BY <1>1, <1>8, <1>10
  <2> QED
    BY <2>1, <2>2
<1>11. CASE ~(Words(t) <= MaxTokens)
  <2> DEFINE d == Append(c, dots)
  <2>1. dots \in Parts /\ dots.words = 1
    BY DEF Part, Parts, PartNames
  <2>2. /\ d \in Text /\ Len(d) = 22 /\ d[22] = dots /\ DOMAIN d = 1 .. 22
        /\ \A i \in 1 .. 21 : d[i] = c[i]
    <3> HIDE DEF dots
    <3>1. /\ d \in Text /\ Len(d) = Len(c) + 1 /\ d[Len(c) + 1] = dots
          /\ \A i \in 1 .. Len(c) : d[i] = c[i]
      BY <1>7, <2>1, LongerText
    <3> HIDE DEF d
    <3>2. DOMAIN d = 1 .. Len(d)
      BY <3>1, TextParts
    <3> QED
      BY <1>7, <3>1, <3>2
  <2> HIDE DEF d, dots
  <2>3. Words(d) = Words(c) + 1
    <3>1. \A i \in 1 .. 21 : d[0 + i].words = c[i].words
      BY <2>2
    <3>2. \A i \in 0 .. 21 : Sums(d)[0 + i] = Sums(d)[0] + Sums(c)[i]
      <4>1. 0 \in Nat /\ 21 \in Nat /\ 0 + 21 <= Len(d) /\ 21 <= Len(c)
        BY <1>7, <2>2
      <4> QED
        BY <1>7, <2>2, <3>1, <4>1, SumsAlike
    <3>3. /\ Sums(d)[0] = 0 /\ Sums(d)[22] = Sums(d)[21] + d[22].words
          /\ Sums(c)[21] \in Nat
      <4>1. Sums(d)[0] = 0 /\ \A n \in 1 .. 22 : Sums(d)[n] = Sums(d)[n - 1] + d[n].words
        BY <2>2, SumsAre
      <4>2. Sums(c)[21] \in Nat
        BY <1>7, WordsType DEF Words
      <4> QED
        BY <4>1, <4>2
    <3>4. Sums(d)[21] = Sums(c)[21]
      BY <3>2, <3>3
    <3> QED
      BY <1>7, <2>1, <2>2, <3>3, <3>4 DEF Words
  <2>4. Words(c) = MaxTokens
    BY <1>1, <1>7, <1>8, <1>11 DEF AtMost
  <2>5. Sums(p)[8] + 11 <= MaxTokens => d[11] = p[8]
    <3>1. Sums(p)[8] \in Nat
      BY SumsAre
    <3> QED
      BY <1>4, <1>6, <1>7, <2>2, <3>1
  <2>6. Context(s, p) = d
    BY <1>9, <1>11 DEF d
  <2> QED
    BY <1>1, <2>2, <2>3, <2>4, <2>5, <2>6
<1> QED
  BY <1>10, <1>11

(* The rules that match a request; the first of them names the provider.    *)
Matches(s, n) == Rules[n].type = s.type /\ Rules[n].sensitivity = s.sensitivity

(* What FallbackIsTold says of the provider p a request is routed to. *)
Named(s, p) ==
  \/ \E n \in DOMAIN Rules :
       /\ Rules[n] = [type |-> s.type, sensitivity |-> s.sensitivity, provider |-> p]
       /\ \A m \in 1..(n - 1) : <<Rules[m].type, Rules[m].sensitivity>> # <<s.type, s.sensitivity>>
  \/ /\ p = Default
     /\ \A r \in Range(Rules) : <<r.type, r.sensitivity>> # <<s.type, s.sensitivity>>

(* The provider that is named is the one a call is routed to.               *)
LEMMA RouteIsNamed ==
  ASSUME NEW s, NEW p
  PROVE  Named(s, p) <=> p = Route(s)
<1> DEFINE matching == {n \in DOMAIN Rules : Matches(s, n)}
<1>1. /\ DOMAIN Rules = 1 .. Len(Rules) /\ Len(Rules) \in Nat
      /\ \A n \in DOMAIN Rules : Rules[n] \in Range(Rules)
      /\ \A n \in DOMAIN Rules :
           Rules[n] = [type |-> Rules[n].type, sensitivity |-> Rules[n].sensitivity,
                       provider |-> Rules[n].provider]
      /\ \A r \in Range(Rules) : \E n \in DOMAIN Rules : r = Rules[n]
  BY GenerationAssumption DEF Range
<1>2. Route(s) = IF matching = {} THEN Default
                 ELSE Rules[CHOOSE n \in matching : \A m \in matching : n <= m].provider
  BY DEF Route, Matches
<1>3. CASE matching = {}
  <2>1. \A r \in Range(Rules) : <<r.type, r.sensitivity>> # <<s.type, s.sensitivity>>
    BY <1>1, <1>3 DEF Matches
  <2>2. \A n \in DOMAIN Rules : ~Matches(s, n)
    BY <1>3
  <2>3. Route(s) = Default
    BY <1>2, <1>3
  <2>4. ASSUME NEW n \in DOMAIN Rules,
               Rules[n] = [type |-> s.type, sensitivity |-> s.sensitivity, provider |-> p]
        PROVE  FALSE
    BY <2>2, <2>4 DEF Matches
  <2> QED
    BY <2>1, <2>3, <2>4 DEF Named
<1>4. CASE matching # {}
  <2>1. matching \subseteq Nat
    BY <1>1
  <2>2. \E n \in matching : \A m \in matching : n <= m
    BY <1>4, <2>1, LeastNumber
  <2> DEFINE first == CHOOSE n \in matching : \A m \in matching : n <= m
  <2>3. first \in matching /\ \A m \in matching : first <= m
    BY <2>2
  <2>4. Route(s) = Rules[first].provider
    BY <1>2, <1>4
  <2> HIDE DEF first
  <2>5. first \in DOMAIN Rules /\ Matches(s, first)
        /\ \A m \in DOMAIN Rules : Matches(s, m) => first <= m
    BY <2>3
  <2> HIDE DEF matching
  <2>6. \A m \in DOMAIN Rules : m \in Nat
    BY <1>1
  <2>7. Rules[first] = [type |-> s.type, sensitivity |-> s.sensitivity, provider |-> Route(s)]
    BY <1>1, <2>4, <2>5 DEF Matches
  <2>8. ASSUME NEW m \in 1 .. (first - 1)
        PROVE  <<Rules[m].type, Rules[m].sensitivity>> # <<s.type, s.sensitivity>>
    <3>1. m \in DOMAIN Rules /\ ~(first <= m)
      BY <1>1, <2>5, <2>6
    <3>2. ~Matches(s, m)
      BY <2>5, <3>1
    <3> QED
      BY <3>2 DEF Matches
  <2>9. p = Route(s) => Named(s, p)
    BY <2>5, <2>7, <2>8 DEF Named
  <2>10. ASSUME Named(s, p) PROVE p = Route(s)
    <3>1. Rules[first] \in Range(Rules)
          /\ <<Rules[first].type, Rules[first].sensitivity>> = <<s.type, s.sensitivity>>
      BY <1>1, <2>5 DEF Matches
    <3>2. PICK n \in DOMAIN Rules :
            /\ Rules[n] = [type |-> s.type, sensitivity |-> s.sensitivity, provider |-> p]
            /\ \A m \in 1..(n - 1) : <<Rules[m].type, Rules[m].sensitivity>> # <<s.type, s.sensitivity>>
      BY <2>10, <3>1 DEF Named
    <3>3. Matches(s, n)
      BY <3>2 DEF Matches
    <3>4. first <= n /\ first \in Nat /\ n \in Nat /\ first >= 1
      BY <1>1, <2>5, <2>6, <3>3
    <3>5. first \notin 1 .. (n - 1)
      BY <3>1, <3>2
    <3>6. first = n
      BY <3>4, <3>5
    <3>7. Rules[n].provider = p
      BY <3>2
    <3> QED
      BY <2>4, <3>6, <3>7
  <2> QED
    BY <2>9, <2>10
<1> QED
  BY <1>3, <1>4

(* Where the run is says what has been assembled, and who has been asked.   *)
GenerationInv ==
  /\ sections \in Sections /\ raised \in Nat
  /\ phase \in {"assemble", "build", "primary", "fallback", "done"}
  /\ phase # "assemble" => prompt = Assembled(sections)
  /\ phase \in {"primary", "fallback", "done"} => context = Context(sections, prompt)
  /\ phase \in {"assemble", "build", "primary"} => raised = 0
  /\ phase = "fallback" => raised > 0
  /\ phase = "done" =>
       /\ ~flagged => answer = Route(sections) /\ answer \in Providers /\ raised = 0
       /\ answer = "prompt" => flagged /\ (raised = 0 \/ raised > Len(Fallbacks))

(* Every call keeps the invariant.                                          *)
LEMMA GenerationInvStep == GenerationInv /\ [GenerationNext]_generationVars => GenerationInv'
<1> SUFFICES ASSUME GenerationInv, [GenerationNext]_generationVars PROVE GenerationInv'
  OBVIOUS
<1> USE GenerationAssumption
<1>0. Sections' = Sections
  BY DEF Sections
<1>1. CASE Assemble
  BY <1>1 DEF Assemble, GenerationInv
<1>2. CASE Build
  BY <1>2 DEF Build, GenerationInv
<1>3. CASE Primary
  <2>1. sections' = sections /\ prompt' = prompt /\ context' = context /\ Route(sections)' = Route(sections)
    BY <1>3 DEF Primary, Route
  <2>2. CASE phase' = "fallback"
    BY <1>3, <2>1, <2>2 DEF Primary, Answers, GenerationInv
  <2>3. CASE phase' # "fallback"
    <3>1. /\ phase = "primary" /\ phase' = "done" /\ raised' = raised
          /\ \/ Route(sections) \in Providers /\ answer' = Route(sections) /\ flagged' = FALSE
             \/ answer' = "prompt" /\ flagged' = TRUE
      BY <1>3, <2>3 DEF Primary, Answers
    <3> QED
      BY <2>1, <3>1 DEF GenerationInv
  <2> QED
    BY <2>2, <2>3
<1>4. CASE Fallback
  <2>1. sections' = sections /\ prompt' = prompt /\ context' = context /\ Route(sections)' = Route(sections)
    BY <1>4 DEF Fallback, Route
  <2>2. CASE phase' = "fallback"
    BY <1>4, <2>1, <2>2 DEF Fallback, Answers, GenerationInv
  <2>3. CASE phase' # "fallback"
    <3>1. /\ phase = "fallback" /\ phase' = "done" /\ raised' = raised /\ flagged' = TRUE
          /\ answer' \in Providers \/ raised > Len(Fallbacks)
      BY <1>4, <2>3 DEF Fallback, Answers, GenerationInv
    <3> QED
      BY <2>1, <3>1 DEF GenerationInv
  <2> QED
    BY <2>2, <2>3
<1>5. CASE UNCHANGED generationVars
  <2>1. Route(sections)' = Route(sections)
    BY <1>5 DEF generationVars, Route
  <2>2. Context(sections, prompt)' = Context(sections, prompt) /\ Assembled(sections)' = Assembled(sections)
    BY <1>5 DEF generationVars
  <2> QED
    BY <1>5, <2>1, <2>2 DEF generationVars, GenerationInv
<1> QED
  BY <1>1, <1>2, <1>3, <1>4, <1>5 DEF GenerationNext

(* The invariant holds in every state.                                      *)
LEMMA GenerationRuns == GenerationSpec => []GenerationInv
<1>1. GenerationInit => GenerationInv
  BY DEF GenerationInit, GenerationInv, Sections
<1> QED
  BY <1>1, GenerationInvStep, PTL DEF GenerationSpec

(* For any rules, fallbacks and providers, a client that is told of no       *)
(* fallback was answered by the provider the rules name first, and one that  *)
(* is answered with its own prompt is told so, after every fallback was      *)
(* asked (router.py:72).                                                     *)
THEOREM FallbacksAreTold == GenerationSpec => []FallbackIsTold
<1>1. GenerationInv => FallbackIsTold
  <2> SUFFICES ASSUME GenerationInv, phase = "done" PROVE FallbackIsTold
    BY DEF FallbackIsTold
  <2>1. /\ raised > 0 => flagged
        /\ answer = "prompt" => flagged /\ (raised = 0 \/ raised > Len(Fallbacks))
    BY DEF GenerationInv
  <2>2. ASSUME ~flagged PROVE answer = CHOOSE p \in Providers \cup {Default} : Named(sections, p)
    <3>1. answer = Route(sections) /\ answer \in Providers
      BY <2>2 DEF GenerationInv
    <3>2. \A p : Named(sections, p) <=> p = answer
      BY <3>1, RouteIsNamed
    <3> QED
      BY <3>1, <3>2
  <2> QED
    BY <2>1, <2>2 DEF FallbackIsTold, Named
<1> QED
  BY <1>1, GenerationRuns, PTL

(* For any lengths and budget, the context has one word more than its       *)
(* budget at most, and the task is whole unless the skills and tools before *)
(* it have used the budget up (assembly.py:74, summarizer.py:11).           *)
THEOREM TasksAreKept == GenerationSpec => []TaskIsKept
<1>1. GenerationInv => TaskIsKept
  <2> SUFFICES ASSUME GenerationInv, phase \in {"primary", "fallback", "done"} PROVE TaskIsKept
    BY DEF TaskIsKept
  <2> DEFINE p == Assembled(sections)
             x == SkillWords(sections.skills, sections.forceAll)
  <2>1. sections \in Sections /\ context = Context(sections, p)
    BY DEF GenerationInv
  <2>2. p \in Text /\ Len(p) = 13
        /\ (22 + x + ToolWords + sections.task <= MaxTokens =>
             p[8] = Part("task", sections.task) /\ Sums(p)[8] + 11 <= MaxTokens)
    <3> HIDE DEF p, x
    <3>0. x \in Nat /\ ToolWords \in Nat /\ sections.task \in Nat /\ MaxTokens \in Nat
      BY <2>1, SkillWordsType, GenerationAssumption DEF Sections, x
    <3>1. p \in Text /\ Len(p) = 13
          /\ ((11 + x + ToolWords + sections.task) + 11 <= MaxTokens =>
               p[8] = Part("task", sections.task) /\ Sums(p)[8] = 11 + x + ToolWords + sections.task)
      BY <2>1, PromptKeepsTask DEF p, x
    <3> QED
      BY <3>0, <3>1
  <2> HIDE DEF p
  <2>3. Words(context) <= MaxTokens + 1
    BY <2>1, <2>2, ContextKeepsTask
  <2>4. 22 + x + ToolWords + sections.task <= MaxTokens
          => \E i \in DOMAIN context : context[i] = Part("task", sections.task)
    BY <2>1, <2>2, ContextKeepsTask
  <2>5. 11 + 7 + 4 + x + ToolWords + sections.task = 22 + x + ToolWords + sections.task
    OBVIOUS
  <2> QED
    BY <2>3, <2>4, <2>5 DEF TaskIsKept
<1> QED
  BY <1>1, GenerationRuns, PTL
==============================================================================
