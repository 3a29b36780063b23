----------------------------- MODULE AccessProofs -----------------------------
(***************************************************************************)
(* Theorems about the users, the tokens and the sessions of Accounts.      *)
(***************************************************************************)
EXTENDS AccountsProofs

(* Call c makes the row of n. *)
Makes(c, n) ==
  /\ users'[n] # Absent /\ users'[n].id = c /\ users'[n].name = n /\ asked'[c].name = n
  /\ db => users[n] = Absent
  /\ pc[c] = "insert" \/ (pc[c] = "new" /\ Asks(c, {"create"})')
  /\ pc'[c] \in {"ok", "error"}

(* Call c writes an update. *)
Writes(c) == UpdateWrite(c) \/ (UpdateSelect(c) /\ pc'[c] = "ok")

(* An insertion makes the row of its name, or changes none. *)
LEMMA InsertsStep ==
  ASSUME WellFormed, NEW c \in Calls, NEW name \in Names, NEW password \in Passwords,
         NEW role \in Roles, NEW status \in Statuses, Inserts(c, name, password, role, status),
         asked'[c].name = name, pc[c] = "insert" \/ (pc[c] = "new" /\ Asks(c, {"create"})'),
         NEW n \in Names
  PROVE  /\ users'[n] = users[n] \/ Makes(c, n)
         /\ pc'[c] = "ok" => Makes(c, name)
<1> DEFINE user == [name |-> name, id |-> c, role |-> role, status |-> status,
                    password |-> password]
<1>1. users \in [Names -> Users \cup {Absent}] /\ pc \in [Calls -> {"new"} \cup InFlight \cup Ended]
  BY DEF WellFormed, AccountsTypeOK
<1>2. CASE db /\ users[name] # Absent
  BY <1>1, <1>2 DEF Inserts, Goes, userVars
<1>3. CASE ~(db /\ users[name] # Absent)
  <2>1. users' = [users EXCEPT ![name] = user] /\ pc'[c] \in {"ok", "error"}
    BY <1>1, <1>3 DEF Inserts, Stores, Commits, Goes
  <2>2. user # Absent
    <3>1. user \in Users
      BY DEF Users, Ids
    <3> QED
      BY <3>1, AccountsAssumption
  <2>3. Makes(c, name)
    BY <1>1, <1>3, <2>1, <2>2 DEF Makes
  <2> QED
    BY <1>1, <2>1, <2>3
<1> QED
  BY <1>2, <1>3

(* What a step of c does to a row, other than the write of an update. *)
LEMMA UsersStep ==
  ASSUME WellFormed, NEW c \in Calls, Call(c), ~Writes(c), NEW n \in Names
  PROVE  users'[n] = users[n] \/ Makes(c, n)
<1>1. ASSUME NEW r \in Requests, CreateUser(c)!(r)
      PROVE  users'[n] = users[n] \/ Makes(c, n)
  <2>1. /\ r # Absent /\ r.op = "create" /\ r.name \in Names /\ r.password \in Passwords
        /\ r.role \in Roles /\ r.status \in Statuses
    BY <1>1, RequestTypes
  <2>2. asked'[c] = r /\ pc[c] = "new" /\ Asks(c, {"create"})'
    BY <1>1, <2>1 DEF Arrives, Asks, WellFormed, AccountsTypeOK
  <2> QED
    BY <1>1, <2>1, <2>2, InsertsStep
<1>2. CASE BootstrapInsert(c)
  <2>1. /\ asked[c] \in Requests /\ asked[c].op = "bootstrap" /\ asked'[c] = asked[c]
        /\ pc[c] = "insert"
    BY <1>2 DEF WellFormed, AccountsTypeOK, Stages, StageOf, BootstrapInsert
  <2> QED
    BY <1>2, <2>1, RequestTypes, InsertsStep DEF BootstrapInsert, Roles, Statuses
<1>3. UpdateSelect(c) => UNCHANGED users
  BY DEF UpdateSelect, Writes, Goes, userVars, WellFormed, AccountsTypeOK
<1>4. \/ UNCHANGED users \/ BootstrapInsert(c) \/ \E r \in Requests : CreateUser(c)!(r)
  BY <1>3 DEF Call, Login, RefreshToken, RefreshUser, RefreshRevoke, IssueTokens, Logout, NotAdmin,
         UpdateRead, Writes, CreateUser, BootstrapLook, BootstrapCount, Raise, userVars
<1> QED
  BY <1>1, <1>2, <1>4

(* A field of a user and of a set of changes. *)
LEMMA FieldOfChange ==
  ASSUME NEW old \in Users, NEW change \in Changes, NEW f \in Fields
  PROVE  Change(old, change)[f] = IF change[f] = Absent THEN old[f] ELSE change[f]
<1>1. CASE f = "role"
  BY <1>1 DEF Users, Changes, Change
<1>2. CASE f = "status"
  BY <1>2 DEF Users, Changes, Change
<1>3. CASE f = "password"
  BY <1>3 DEF Users, Changes, Change
<1> QED
  BY <1>1, <1>2, <1>3 DEF Fields

(* A row has the name it is stored under, an id of its own, and was made by  *)
(* a call that is over.                                                      *)
Rows ==
  /\ \A n \in Names : users[n] # Absent =>
       users[n].name = n /\ (users[n].id \in Calls => pc[users[n].id] \in Ended)
  /\ \A m, n \in Names :
       users[m] # Absent /\ users[n] # Absent /\ users[m].id = users[n].id => m = n

(* What the write of an update does to the row it is about and to the        *)
(* others: a field that was asked for has its value, unless the row that the *)
(* update had read had it already; another one is as the update had seen it  *)
(* or as it is.                                                              *)
Updates(c, n) ==
  /\ users'[n] # Absent /\ users'[n].id = users[n].id /\ users'[n].name = users[n].name
  /\ \A f \in Fields :
       IF asked[c].change[f] = Absent
       THEN users'[n][f] \in {users[n][f], seen[c][f]}
       ELSE \/ users'[n][f] = asked[c].change[f]
            \/ /\ users'[n][f] = users[n][f] /\ row[c][f] = asked[c].change[f]
               /\ pc[c] = "write"

(* The write of an update changes the row of the id it names only. *)
LEMMA WritesStep ==
  ASSUME WellFormed, Rows, NEW c \in Calls, Writes(c), NEW n \in Names
  PROVE  /\ n \notin NameOf(asked[c].id) => users'[n] = users[n]
         /\ n \in NameOf(asked[c].id) => Updates(c, n)
<1>1. /\ asked[c] \in Requests /\ asked[c] # Absent /\ asked[c].change \in Changes
      /\ seen[c] \in Users /\ pc[c] \in {"select", "write"}
      /\ users \in [Names -> Users \cup {Absent}]
      /\ pc[c] = "write" => row[c] \in Users
  BY RequestTypes DEF WellFormed, AccountsTypeOK, Stages, StageOf, Writes, UpdateSelect, UpdateWrite
<1>2. \A m \in NameOf(asked[c].id) : m \in Names /\ users[m] \in Users
                                  /\ users[m].id = asked[c].id /\ users[m] # Absent
  BY FoundType DEF WellFormed
<1>3. n \in NameOf(asked[c].id) => \A m \in NameOf(asked[c].id) : m = n
  BY <1>2 DEF Rows
<1>4. CASE UpdateSelect(c) /\ pc'[c] = "ok"
  <2> DEFINE base(m) == [users[m] EXCEPT !.role = seen[c].role, !.status = seen[c].status,
                                         !.password = seen[c].password]
             next(m) == Change(base(m), asked[c].change)
  <2>1. PICK m \in NameOf(asked[c].id) : users' = [users EXCEPT ![m] = next(m)]
    BY <1>1, <1>4 DEF UpdateSelect, Goes, Stores, WellFormed, AccountsTypeOK
  <2>2. base(m) \in Users /\ base(m).id = users[m].id /\ base(m).name = users[m].name
    BY <1>1, <1>2, <2>1 DEF Users
  <2>3. \A f \in Fields : base(m)[f] = seen[c][f]
    BY <1>1, <1>2, <2>1 DEF Fields, Users
  <2> HIDE DEF base
  <2>4. next(m) \in Users /\ next(m).id = users[m].id /\ next(m).name = users[m].name
    BY <1>1, <2>2, ChangeType
  <2>5. \A f \in Fields :
          next(m)[f] = IF asked[c].change[f] = Absent THEN seen[c][f] ELSE asked[c].change[f]
    BY <1>1, <2>2, <2>3, FieldOfChange
  <2> HIDE DEF next
  <2>6. next(m) # Absent
    BY <2>4, AccountsAssumption
  <2>7. CASE n = m
    BY <1>1, <1>2, <2>1, <2>4, <2>5, <2>6, <2>7 DEF Updates
  <2>8. CASE n # m
    BY <1>1, <1>3, <2>1, <2>8
  <2> QED
    BY <2>7, <2>8
<1>5. CASE UpdateWrite(c)
  <2> DEFINE next == Change(seen[c], asked[c].change)
             written(m, f) == IF next[f] = row[c][f] THEN users[m][f] ELSE next[f]
             entry(m) == [[[users[m] EXCEPT !.role = written(m, "role")]
                                     EXCEPT !.status = written(m, "status")]
                                     EXCEPT !.password = written(m, "password")]
  <2>1. PICK m \in NameOf(asked[c].id) :
          users' = [users EXCEPT ![m].role = written(m, "role"), ![m].status = written(m, "status"),
                                 ![m].password = written(m, "password")]
    BY <1>5 DEF UpdateWrite, Stores
  <2>2. pc[c] = "write" /\ row[c] \in Users
    BY <1>1, <1>5 DEF UpdateWrite
  <2>3. \A f \in Fields :
          next[f] = IF asked[c].change[f] = Absent THEN seen[c][f] ELSE asked[c].change[f]
    BY <1>1, FieldOfChange
  <2>4. next \in Users
    BY <1>1, ChangeType
  <2> HIDE DEF next
  <2>5. /\ written(m, "role") \in Roles /\ written(m, "status") \in Statuses
        /\ written(m, "password") \in Passwords
    BY <1>2, <2>1, <2>4 DEF Users
  <2>6. \A f \in Fields :
          IF asked[c].change[f] = Absent
          THEN written(m, f) \in {users[m][f], seen[c][f]}
          ELSE \/ written(m, f) = asked[c].change[f]
               \/ written(m, f) = users[m][f] /\ row[c][f] = asked[c].change[f]
    BY <2>3
  <2> HIDE DEF written
  <2>7. entry(m) \in Users /\ entry(m).id = users[m].id /\ entry(m).name = users[m].name
    BY <1>2, <2>1, <2>5 DEF Users
  <2>8. \A f \in Fields : entry(m)[f] = written(m, f)
    BY <1>2, <2>1, <2>5 DEF Users, Fields
  <2>9. users'[m] = entry(m) /\ \A k \in Names \ {m} : users'[k] = users[k]
    BY <1>1, <1>2, <2>1
  <2> HIDE DEF entry
  <2>10. entry(m) # Absent
    BY <2>7, AccountsAssumption
  <2>11. CASE n = m
    <3>1. \A f \in Fields : users'[m][f] = written(m, f)
      BY <2>8, <2>9
    <3>2. Updates(c, m)
      BY <2>2, <2>6, <2>7, <2>9, <2>10, <3>1 DEF Updates
    <3> QED
      BY <2>1, <2>11, <3>2
  <2>12. CASE n # m
    BY <1>3, <2>1, <2>9, <2>12
  <2> QED
    BY <2>11, <2>12
<1> QED
  BY <1>4, <1>5 DEF Writes

(* In any step of c, a row is the one it was, updated by c, or made by c.    *)
LEMMA RowsStep ==
  ASSUME WellFormed, Rows, NEW c \in Calls, Call(c), NEW n \in Names
  PROVE  \/ users'[n] = users[n]
         \/ users[n] # Absent /\ Updates(c, n) /\ Writes(c) /\ n \in NameOf(asked[c].id)
         \/ Makes(c, n)
<1>1. CASE Writes(c)
  BY <1>1, WritesStep DEF NameOf
<1>2. CASE ~Writes(c)
  BY <1>2, UsersStep
<1> QED
  BY <1>1, <1>2

(* A step of a call keeps Rows. *)
LEMMA RowsKept ==
  ASSUME WellFormed, Rows, NEW c \in Calls, Call(c)
  PROVE  Rows'
<1>1. Steps(c)
  BY CallSteps
<1>2. ASSUME NEW n \in Names, users'[n] # Absent
      PROVE  \/ users[n] # Absent /\ users'[n].id = users[n].id /\ users'[n].name = users[n].name
             \/ /\ users'[n].id = c /\ users'[n].name = n /\ asked'[c].name = n
                /\ pc'[c] \in Ended
  BY <1>2, RowsStep DEF Updates, Makes, Ended
<1>3. ASSUME NEW n \in Names, users[n] # Absent
      PROVE  users[n].id # c
  BY <1>1, <1>3 DEF Rows, Steps
<1>4. ASSUME NEW n \in Names, users'[n] # Absent
      PROVE  users'[n].name = n /\ (users'[n].id \in Calls => pc'[users'[n].id] \in Ended)
  BY <1>1, <1>2, <1>3, <1>4 DEF Rows, Steps
<1>5. ASSUME NEW m \in Names, NEW n \in Names, users'[m] # Absent, users'[n] # Absent,
             users'[m].id = users'[n].id
      PROVE  m = n
  <2>1. CASE users'[m].id = c
    <3>1. asked'[c].name = m /\ asked'[c].name = n
      BY <1>2, <1>3, <1>5, <2>1
    <3> QED
      BY <3>1
  <2>2. CASE users'[m].id # c
    BY <1>2, <1>5, <2>2 DEF Rows
  <2> QED
    BY <2>1, <2>2
<1> QED
  BY <1>4, <1>5 DEF Rows

(* The initial users have names and ids of their own. *)
LEMMA RowsInit == AccountsInit => Rows
BY AccountsAssumption DEF AccountsInit, Rows

(* A row has the name it is stored under, and no two rows have one id: what  *)
(* NameOf finds is at most one row.                                          *)
THEOREM RowsAreNamed == AccountsSpec => []Rows
<1>1. Rows /\ Sound /\ [AccountsNext]_accountVars => Rows'
  <2> SUFFICES ASSUME Rows, WellFormed, [AccountsNext]_accountVars
               PROVE  Rows'
    BY DEF Sound
  <2>1. ASSUME NEW c \in Calls, Call(c)
        PROVE  Rows'
    BY <2>1, RowsKept
  <2>2. ASSUME NEW i \in Ids, Expire(i)
        PROVE  Rows'
    BY <2>2 DEF Expire, userVars, Rows
  <2>3. CASE UNCHANGED accountVars
    BY <2>3 DEF accountVars, userVars, Rows
  <2> QED
    BY <2>1, <2>2, <2>3 DEF AccountsNext
<1> QED
  BY <1>1, RowsInit, AccountsSound, PTL DEF AccountsSpec
------------------------------------------------------------------------------
(* A bootstrap that is about to insert has seen an empty table, so that no   *)
(* row is of a call that had been over when it began.                        *)
Counted ==
  \A c \in Calls : pc[c] = "insert" =>
    \A n \in Names : users[n] # Absent => users[n].id \notin after[c] \cup {Seed}

(* The count precedes the insert. *)
LEMMA CountStep ==
  ASSUME WellFormed, NEW c \in Calls, Call(c), pc'[c] = "insert"
  PROVE  users' = users /\ \A n \in Names : users[n] = Absent
<1>1. BootstrapCount(c)
  BY DEF Call, Login, RefreshToken, RefreshUser, RefreshRevoke, IssueTokens, Logout, NotAdmin,
         UpdateRead, UpdateSelect, UpdateWrite, CreateUser, BootstrapLook, BootstrapInsert, Raise,
         Inserts, Arrives, Commits, Goes, WellFormed, AccountsTypeOK
<1>2. RowsOf(users) = {}
  BY <1>1 DEF BootstrapCount, Goes, WellFormed, AccountsTypeOK
<1> QED
  BY <1>1, <1>2 DEF BootstrapCount, userVars, RowsOf

(* A step of a call keeps Counted. *)
LEMMA CountedKept ==
  ASSUME Sound, Rows, Counted, NEW c \in Calls, Call(c)
  PROVE  Counted'
<1>1. Steps(c) /\ WellFormed /\ PastIsOver
  BY CallSteps DEF Sound
<1> SUFFICES ASSUME NEW d \in Calls, pc'[d] = "insert", NEW n \in Names, users'[n] # Absent
             PROVE  users'[n].id \notin after'[d] \cup {Seed}
  BY DEF Counted
<1>2. d # c
  BY <1>1, CountStep
<1>3. pc[d] = "insert" /\ after'[d] = after[d] /\ c \notin after[d]
  BY <1>1, <1>2 DEF Steps, PastIsOver
<1>4. c # Seed
  BY AccountsAssumption
<1>5. (users[n] # Absent /\ users'[n].id = users[n].id) \/ users'[n].id = c
  BY <1>1, RowsStep DEF Updates, Makes
<1> QED
  BY <1>3, <1>4, <1>5 DEF Counted

(* A step of a call keeps BootstrapIsFirst, given that Counted holds. *)
LEMMA FirstKept ==
  ASSUME Sound, Rows, Counted, BootstrapIsFirst, NEW c \in Calls, Call(c)
  PROVE  BootstrapIsFirst'
<1>1. Steps(c) /\ WellFormed /\ PastIsOver
  BY CallSteps DEF Sound
<1> SUFFICES ASSUME NEW n \in Names, users'[n] # Absent, NEW b \in Calls,
                    users'[n].id = b, Asks(b, {"bootstrap"})',
                    NEW m \in Names, users'[m] # Absent
             PROVE  users'[m].id \notin after'[b] \cup {Seed}
  BY DEF BootstrapIsFirst
<1>2. ASSUME NEW k \in Names, users'[k] # Absent
      PROVE  (users[k] # Absent /\ users'[k].id = users[k].id) \/ Makes(c, k)
  BY <1>1, <1>2, RowsStep DEF Updates
<1>3. c \notin after'[c] /\ c # Seed
  BY <1>1, PastKept, AccountsAssumption
<1>4. CASE users[n] # Absent /\ users[n].id = b
  <2>1. pc[b] \in Ended
    BY <1>4 DEF Rows
  <2>2. b # c
    BY <1>1, <2>1 DEF Steps
  <2>3. /\ Asks(b, {"bootstrap"}) /\ after'[b] = after[b]
        /\ c \notin after[b]
    BY <1>1, <1>4, <2>1, <2>2 DEF Steps, Asks, PastIsOver
  <2>4. users[m] # Absent => users[m].id \notin after[b] \cup {Seed}
    BY <1>4, <2>1, <2>3 DEF BootstrapIsFirst
  <2>5. (users[m] # Absent /\ users'[m].id = users[m].id) \/ users'[m].id = c
    BY <1>2 DEF Makes
  <2> QED
    BY <1>3, <1>4, <2>3, <2>4, <2>5
<1>5. CASE Makes(c, n)
  <2>1. pc[c] = "insert" /\ b = c
    BY <1>1, <1>5 DEF Makes, Asks
  <2>2. after'[c] = after[c]
    BY <1>1, <2>1 DEF Steps
  <2>3. (users[m] # Absent /\ users'[m].id = users[m].id) \/ users'[m].id = c
    BY <1>2 DEF Makes
  <2> QED
    BY <1>3, <2>1, <2>2, <2>3 DEF Counted
<1> QED
  BY <1>2, <1>4, <1>5

(* The bootstrap makes nobody an administrator in an installation that had a *)
(* user: no row is of a call that had been answered before the bootstrap of  *)
(* another row began.                                                        *)
THEOREM BootstrapComesFirst == AccountsSpec => []BootstrapIsFirst
<1>1. AccountsInit => Counted /\ BootstrapIsFirst
  BY AccountsAssumption DEF AccountsInit, Counted, BootstrapIsFirst
<1>2. Counted /\ BootstrapIsFirst /\ Rows /\ Sound /\ [AccountsNext]_accountVars
        => (Counted /\ BootstrapIsFirst)'
  <2> SUFFICES ASSUME Counted, BootstrapIsFirst, Rows, Sound, [AccountsNext]_accountVars
               PROVE  Counted' /\ BootstrapIsFirst'
    OBVIOUS
  <2>1. ASSUME NEW c \in Calls, Call(c)
        PROVE  Counted' /\ BootstrapIsFirst'
    BY <2>1, CountedKept, FirstKept
  <2>2. ASSUME NEW i \in Ids, Expire(i)
        PROVE  Counted' /\ BootstrapIsFirst'
    BY <2>2 DEF Expire, userVars, Counted, BootstrapIsFirst, Asks
  <2>3. CASE UNCHANGED accountVars
    BY <2>3 DEF accountVars, userVars, Counted, BootstrapIsFirst, Asks
  <2> QED
    BY <2>1, <2>2, <2>3 DEF AccountsNext
<1> QED
  BY <1>1, <1>2, AccountsSound, RowsAreNamed, PTL DEF AccountsSpec
------------------------------------------------------------------------------
(* A creation that is acknowledged has made its row. *)
LEMMA CreateStep ==
  ASSUME WellFormed, NEW c \in Calls, Call(c), Acked(c, {"create"})'
  PROVE  asked'[c].name \in Names /\ Makes(c, asked'[c].name)
<1>1. ASSUME NEW r \in Requests, CreateUser(c)!(r)
      PROVE  asked'[c].name \in Names /\ Makes(c, asked'[c].name)
  <2>1. /\ r # Absent /\ r.op = "create" /\ r.name \in Names /\ r.password \in Passwords
        /\ r.role \in Roles /\ r.status \in Statuses
    BY <1>1, RequestTypes
  <2>2. asked'[c] = r /\ pc[c] = "new" /\ Asks(c, {"create"})'
    BY <1>1, <2>1 DEF Arrives, Asks, WellFormed, AccountsTypeOK
  <2> QED
    BY <1>1, <2>1, <2>2, InsertsStep DEF Acked
<1>2. pc[c] # "new" => asked'[c] = asked[c] /\ pc[c] \in InFlight
  BY CallSteps DEF Steps
<1>3. pc[c] # "new" => FALSE
  <2> SUFFICES ASSUME pc[c] # "new"
               PROVE  FALSE
    OBVIOUS
  <2>1. asked[c].op = "create" /\ pc[c] \in InFlight /\ pc'[c] = "ok"
    BY <1>2 DEF Acked, Asks
  <2> QED
    BY <2>1 DEF InFlight, WellFormed, Stages, StageOf
<1>4. \E r \in Requests : CreateUser(c)!(r)
  BY <1>3 DEF Call, Login, RefreshToken, RefreshUser, RefreshRevoke, IssueTokens, Logout, NotAdmin,
         UpdateRead, UpdateSelect, UpdateWrite, CreateUser, BootstrapLook, BootstrapCount,
         BootstrapInsert, Raise, Arrives, Goes, Acked, Asks, InFlight, WellFormed, AccountsTypeOK
<1> QED
  BY <1>1, <1>4

(* With a database, a user whose creation was answered keeps his name and    *)
(* id, whatever else is created, bootstrapped or updated.                    *)
THEOREM CreatedUserIsKept == AccountsSpec => []AckedUserIsKept
<1>1. AccountsInit => AckedUserIsKept
  BY DEF AccountsInit, AckedUserIsKept, Acked
<1>2. AckedUserIsKept /\ Rows /\ Sound /\ [AccountsNext]_accountVars => AckedUserIsKept'
  <2> SUFFICES ASSUME AckedUserIsKept, Rows, WellFormed, [AccountsNext]_accountVars
               PROVE  AckedUserIsKept'
    BY DEF Sound
  <2>1. ASSUME NEW c \in Calls, Call(c)
        PROVE  AckedUserIsKept'
    <3> SUFFICES ASSUME db', NEW d \in Calls, Acked(d, {"create"})'
                 PROVE  users'[asked'[d].name] # Absent /\ users'[asked'[d].name].id = d
      BY DEF AckedUserIsKept
    <3>1. Steps(c)
      BY <2>1, CallSteps
    <3>2. CASE d = c
      BY <2>1, <3>2, CreateStep DEF Makes
    <3>3. CASE d # c
      <4>1. /\ Acked(d, {"create"}) /\ asked'[d] = asked[d] /\ db
        BY <3>1, <3>3 DEF Steps, Acked, Asks
      <4>2. /\ users[asked[d].name] # Absent /\ users[asked[d].name].id = d
            /\ asked[d].name \in Names
        BY <4>1, RequestTypes DEF AckedUserIsKept, WellFormed, AccountsTypeOK, Acked, Asks
      <4> QED
        BY <2>1, <4>1, <4>2, RowsStep DEF Updates, Makes
    <3> QED
      BY <3>2, <3>3
  <2>2. ASSUME NEW i \in Ids, Expire(i)
        PROVE  AckedUserIsKept'
    BY <2>2 DEF Expire, userVars, AckedUserIsKept, Acked, Asks
  <2>3. CASE UNCHANGED accountVars
    BY <2>3 DEF accountVars, userVars, AckedUserIsKept, Acked, Asks
  <2> QED
    BY <2>1, <2>2, <2>3 DEF AccountsNext
<1> QED
  BY <1>1, <1>2, AccountsSound, RowsAreNamed, PTL DEF AccountsSpec
------------------------------------------------------------------------------
(* Another update of the same user may have undone what update u did to      *)
(* field f: it did not end before u began, and it asks for another value of  *)
(* f or read the user before u was over.                                     *)
Overlaps(u, w, f) ==
  /\ w # u /\ Asks(w, {"update"}) /\ asked[w].id = asked[u].id /\ w \notin after[u]
  /\ asked[w].change[f] # Absent \/ u \notin after[w]

Overlapped(u, f) == \E w \in Calls : Overlaps(u, w, f)

(* An update is about a user whose creation is over. *)
Targets ==
  \A u \in Calls : Asks(u, {"update"}) /\ pc[u] \in {"select", "write", "ok"} =>
    (asked[u].id \in Calls => pc[asked[u].id] \in Ended)

(* The row an update is going to write is still as the update read it. *)
ReadStays ==
  \A u \in Calls, f \in Fields : pc[u] = "write" =>
    \A n \in NameOf(asked[u].id) : users[n][f] = row[u][f] \/ Overlapped(u, f)

(* What update u changed, a later update that leaves the field alone has     *)
(* seen.                                                                     *)
SeenStays ==
  \A u, w \in Calls, f \in Fields :
    /\ Acked(u, {"update"}) /\ asked[u].change[f] # Absent
    /\ pc[w] \in {"select", "write"} /\ asked[w].id = asked[u].id /\ u \in after[w]
    => seen[w][f] = asked[u].change[f] \/ Overlapped(u, f)

(* AckedChangeStays with this vocabulary. *)
ChangeStays ==
  \A u \in Calls, f \in Fields : Acked(u, {"update"}) /\ asked[u].change[f] # Absent =>
    \A n \in NameOf(asked[u].id) : users[n][f] = asked[u].change[f] \/ Overlapped(u, f)

Changed == Targets /\ ReadStays /\ SeenStays /\ ChangeStays

(* The invariant with names for its parts is the property of the runs. *)
LEMMA ChangeStaysIsIt == ChangeStays => AckedChangeStays
BY DEF ChangeStays, AckedChangeStays, Overlapped, Overlaps

(* An update that another one has overlapped stays overlapped. *)
LEMMA OverlapKept ==
  ASSUME WellFormed, NEW c \in Calls, Steps(c), NEW u \in Calls, asked[u] # Absent, NEW f,
         Overlapped(u, f)
  PROVE  Overlapped(u, f)'
<1>1. PICK w \in Calls : Overlaps(u, w, f)
  BY DEF Overlapped
<1>2. asked'[u] = asked[u] /\ after'[u] = after[u]
  BY DEF Steps, WellFormed, Stages, StageOf
<1>3. asked'[w] = asked[w] /\ after'[w] = after[w]
  BY <1>1 DEF Steps, WellFormed, Stages, StageOf, Overlaps, Asks
<1>4. Overlaps(u, w, f)'
  BY <1>1, <1>2, <1>3 DEF Overlaps, Asks
<1> QED
  BY <1>4 DEF Overlapped

(* An update that writes while u is not over, or that asks for the field,    *)
(* overlaps u.                                                               *)
LEMMA WriterOverlaps ==
  ASSUME Sound, NEW c \in Calls, Call(c), Writes(c), NEW u \in Calls, u # c,
         asked[u] # Absent, asked[u].id = asked[c].id, NEW f,
         asked[c].change[f] # Absent \/ u \notin after[c]
  PROVE  Overlapped(u, f)'
<1>1. Steps(c) /\ WellFormed /\ PastIsOver
  BY CallSteps DEF Sound
<1>2. pc[c] \in {"select", "write"} /\ asked[c] # Absent /\ asked[c].op = "update"
  BY <1>1 DEF Writes, UpdateSelect, UpdateWrite, WellFormed, Stages, StageOf
<1>3. /\ asked'[c] = asked[c] /\ after'[c] = after[c]
      /\ asked'[u] = asked[u] /\ after'[u] = after[u] /\ c \notin after[u]
  BY <1>1, <1>2 DEF Steps, PastIsOver
<1>4. Overlaps(u, c, f)'
  BY <1>2, <1>3 DEF Overlaps, Asks
<1> QED
  BY <1>4 DEF Overlapped

(* A row with the id an update is about was there before the step, and is as *)
(* it was or written in this step.                                           *)
LEMMA TargetStep ==
  ASSUME Sound, Rows, NEW c \in Calls, Call(c), NEW id, id \in Calls => pc[id] \in Ended,
         NEW n \in NameOf(id)'
  PROVE  /\ n \in NameOf(id)
         /\ \/ users'[n] = users[n]
            \/ Updates(c, n) /\ Writes(c) /\ asked[c].id = id
<1>1. Steps(c) /\ WellFormed
  BY CallSteps DEF Sound
<1>2. n \in Names /\ users'[n] # Absent /\ users'[n].id = id
  BY DEF NameOf
<1>3. id # c
  BY <1>1 DEF Steps
<1>4. \/ users'[n] = users[n]
      \/ users[n] # Absent /\ Updates(c, n) /\ Writes(c) /\ n \in NameOf(asked[c].id)
  BY <1>1, <1>2, <1>3, RowsStep DEF Makes
<1> QED
  BY <1>2, <1>4 DEF NameOf, Updates

(* The steps of an update: it reads the user, reads him again, and writes.   *)
ReadsUser(c) ==
  /\ pc[c] = "new" /\ pc'[c] = "select" /\ users' = users
  /\ \E n \in NameOf(asked'[c].id) : seen'[c] = users[n]

ReadsAgain(c) ==
  /\ pc[c] = "select" /\ pc'[c] = "write" /\ users' = users
  /\ \E n \in NameOf(asked[c].id) : row'[c] = users[n]

(* An update raises or is refused, reads its user, or goes on from there. *)
LEMMA UpdateStep ==
  ASSUME WellFormed, NEW c \in Calls, Call(c), Asks(c, {"update"})'
  PROVE  \/ pc'[c] \in {"denied", "error"}
         \/ ReadsUser(c)
         \/ /\ asked'[c] = asked[c] /\ seen'[c] = seen[c] /\ pc[c] \in {"select", "write"}
            /\ ReadsAgain(c) \/ (Writes(c) /\ pc'[c] = "ok")
<1>1. /\ asked \in [Calls -> Requests \cup {Absent}] /\ seen \in [Calls -> Users \cup {Absent}]
      /\ pc \in [Calls -> {"new"} \cup InFlight \cup Ended]
      /\ row \in [Calls -> Users \cup {Absent}]
  BY DEF WellFormed, AccountsTypeOK
<1>2. ASSUME NEW r \in Requests, UpdateRead(c)!(r)
      PROVE  pc'[c] = "denied" \/ ReadsUser(c)
  BY <1>1, <1>2 DEF Arrives, Goes, ReadsUser, userVars
<1>3. CASE UpdateSelect(c)
  <2>1. asked'[c] = asked[c] /\ seen'[c] = seen[c] /\ pc[c] = "select"
    BY <1>3 DEF UpdateSelect
  <2>2. pc'[c] = "denied" \/ ReadsAgain(c) \/ (Writes(c) /\ pc'[c] = "ok")
    BY <1>1, <1>3 DEF UpdateSelect, Goes, ReadsAgain, Writes, userVars
  <2> QED
    BY <2>1, <2>2
<1>4. CASE UpdateWrite(c)
  BY <1>1, <1>4 DEF UpdateWrite, Commits, Goes, Writes
<1>5. CASE NotAdmin(c) \/ Raise(c)
  BY <1>1, <1>5 DEF NotAdmin, Raise, Goes
<1>6. CASE Login(c) \/ RefreshToken(c) \/ Logout(c) \/ CreateUser(c) \/ BootstrapLook(c)
  BY <1>1, <1>6 DEF Login, RefreshToken, Logout, CreateUser, BootstrapLook, Arrives, Asks
<1>7. CASE \/ RefreshUser(c) \/ RefreshRevoke(c) \/ IssueTokens(c) \/ BootstrapCount(c)
           \/ BootstrapInsert(c)
  <2>1. asked'[c] = asked[c] /\ pc[c] \in {"user", "revoke", "issue", "count", "insert"}
    BY <1>7 DEF RefreshUser, RefreshRevoke, IssueTokens, BootstrapCount, BootstrapInsert
  <2> QED
    BY <2>1 DEF Asks, WellFormed, Stages, StageOf
<1> QED
  BY <1>2, <1>3, <1>4, <1>5, <1>6, <1>7 DEF Call, UpdateRead

(* A step of a call keeps Targets. *)
LEMMA TargetsKept ==
  ASSUME Sound, Rows, Targets, NEW c \in Calls, Call(c)
  PROVE  Targets'
<1>1. Steps(c) /\ WellFormed
  BY CallSteps DEF Sound
<1> SUFFICES ASSUME NEW u \in Calls, Asks(u, {"update"})', pc'[u] \in {"select", "write", "ok"},
                    asked'[u].id \in Calls
             PROVE  pc'[asked'[u].id] \in Ended
  BY DEF Targets
<1>2. \A d \in Calls : pc[d] \in Ended => pc'[d] \in Ended
  BY <1>1 DEF Steps
<1>3. CASE u # c
  BY <1>1, <1>2, <1>3 DEF Steps, Targets, Asks
<1>4. CASE u = c /\ ReadsUser(c)
  BY <1>2, <1>4 DEF ReadsUser, Rows, NameOf
<1>5. CASE u = c /\ asked'[c] = asked[c] /\ pc[c] \in {"select", "write"}
  BY <1>2, <1>5 DEF Targets, Asks
<1> QED
  BY <1>1, <1>3, <1>4, <1>5, UpdateStep

(* A step of a call keeps ReadStays. *)
LEMMA ReadStaysKept ==
  ASSUME Sound, WellFormed', Rows, Targets, ReadStays, NEW c \in Calls, Call(c)
  PROVE  ReadStays'
<1>1. Steps(c) /\ WellFormed /\ PastIsOver
  BY CallSteps DEF Sound
<1> SUFFICES ASSUME NEW u \in Calls, NEW f \in Fields, pc'[u] = "write",
                    NEW id, asked'[u].id = id, NEW n \in NameOf(id)'
             PROVE  users'[n][f] = row'[u][f] \/ Overlapped(u, f)'
  BY DEF ReadStays
<1>2. CASE u # c
  <2>1. /\ pc[u] = "write" /\ asked'[u] = asked[u] /\ row'[u] = row[u] /\ u \notin after[c]
        /\ asked[u] # Absent /\ asked[u].op = "update" /\ asked[u].id = id
    BY <1>1, <1>2 DEF Steps, PastIsOver, Ended, WellFormed, Stages, StageOf
  <2>2. id \in Calls => pc[id] \in Ended
    BY <2>1 DEF Targets, Asks
  <2>3. n \in NameOf(id)
    BY <2>1, <2>2, TargetStep
  <2>4. CASE users'[n] = users[n]
    BY <1>1, <2>1, <2>3, <2>4, OverlapKept DEF ReadStays
  <2>5. CASE Writes(c) /\ asked[c].id = id
    BY <1>2, <2>1, <2>5, WriterOverlaps
  <2> QED
    BY <2>1, <2>2, <2>4, <2>5, TargetStep
<1>3. CASE u = c
  <2>1. asked'[c] # Absent /\ asked'[c].op = "update"
    BY <1>3 DEF WellFormed, Stages, StageOf
  <2>2. ReadsAgain(c) /\ asked'[c] = asked[c]
    BY <1>1, <1>3, <2>1, UpdateStep DEF Asks, ReadsUser
  <2>3. n \in NameOf(id) /\ asked[c].id = id
    BY <1>3, <2>2 DEF NameOf, ReadsAgain
  <2> QED
    BY <1>3, <2>2, <2>3 DEF ReadsAgain, Rows, NameOf
<1> QED
  BY <1>2, <1>3

(* A step of a call keeps SeenStays. *)
LEMMA SeenStaysKept ==
  ASSUME Sound, WellFormed', Rows, SeenStays, ChangeStays, NEW c \in Calls, Call(c)
  PROVE  SeenStays'
<1>1. Steps(c) /\ WellFormed /\ PastIsOver
  BY CallSteps DEF Sound
<1> SUFFICES ASSUME NEW u \in Calls, NEW w \in Calls, NEW f \in Fields,
                    Acked(u, {"update"})', asked'[u].change[f] # Absent,
                    pc'[w] \in {"select", "write"}, asked'[w].id = asked'[u].id, u \in after'[w]
             PROVE  seen'[w][f] = asked'[u].change[f] \/ Overlapped(u, f)'
  BY DEF SeenStays
<1>2. u # c
  BY <1>1, PastKept DEF Steps, PastIsOver
<1>3. Acked(u, {"update"}) /\ asked'[u] = asked[u] /\ asked[u] # Absent
  BY <1>1, <1>2 DEF Steps, Acked, Asks
<1>4. CASE w # c
  <2>1. /\ pc[w] = pc'[w] /\ asked'[w] = asked[w] /\ seen'[w] = seen[w] /\ after'[w] = after[w]
    BY <1>1, <1>4 DEF Steps
  <2>2. seen[w][f] = asked[u].change[f] \/ Overlapped(u, f)
    BY <1>3, <2>1 DEF SeenStays
  <2> QED
    BY <1>1, <1>3, <2>1, <2>2, OverlapKept
<1>5. CASE w = c
  <2>1. Asks(c, {"update"})'
    BY <1>5 DEF Asks, WellFormed, Stages, StageOf
  <2>2. CASE ReadsUser(c)
    <3>1. PICK n \in NameOf(asked[u].id) : seen'[c] = users[n]
      BY <1>3, <1>5, <2>2 DEF ReadsUser
    <3>2. users[n][f] = asked[u].change[f] \/ Overlapped(u, f)
      BY <1>3, <3>1 DEF ChangeStays
    <3> QED
      BY <1>1, <1>3, <1>5, <3>1, <3>2, OverlapKept
  <2>3. CASE asked'[c] = asked[c] /\ seen'[c] = seen[c] /\ pc[c] \in {"select", "write"}
    <3>1. after'[c] = after[c]
      BY <1>1, <2>3 DEF Steps
    <3>2. seen[c][f] = asked[u].change[f] \/ Overlapped(u, f)
      BY <1>3, <1>5, <2>3, <3>1 DEF SeenStays
    <3> QED
      BY <1>1, <1>3, <1>5, <2>3, <3>2, OverlapKept
  <2> QED
    BY <1>1, <1>5, <2>1, <2>2, <2>3, UpdateStep
<1> QED
  BY <1>4, <1>5

(* A step of a call keeps ChangeStays, given the two before. *)
LEMMA ChangeStaysKept ==
  ASSUME Sound, WellFormed', Rows, Changed, NEW c \in Calls, Call(c)
  PROVE  ChangeStays'
<1>1. Steps(c) /\ WellFormed /\ PastIsOver
  BY CallSteps DEF Sound
<1> SUFFICES ASSUME NEW u \in Calls, NEW f \in Fields, Acked(u, {"update"})',
                    asked'[u].change[f] # Absent, NEW id, asked'[u].id = id, NEW n \in NameOf(id)'
             PROVE  users'[n][f] = asked'[u].change[f] \/ Overlapped(u, f)'
  BY DEF ChangeStays
<1>2. CASE u # c
  <2>1. /\ Acked(u, {"update"}) /\ asked'[u] = asked[u] /\ asked[u] # Absent /\ asked[u].id = id
    BY <1>1, <1>2 DEF Steps, Acked, Asks
  <2>2. id \in Calls => pc[id] \in Ended
    BY <2>1 DEF Changed, Targets, Acked
  <2>3. n \in NameOf(id)
    BY <2>2, TargetStep
  <2>4. users[n][f] = asked[u].change[f] \/ Overlapped(u, f)
    BY <2>1, <2>3 DEF Changed, ChangeStays
  <2>5. CASE users'[n] = users[n]
    BY <1>1, <2>1, <2>4, <2>5, OverlapKept
  <2>6. CASE Updates(c, n) /\ Writes(c) /\ asked[c].id = id
    <3>1. CASE asked[c].change[f] # Absent \/ u \notin after[c]
      BY <1>2, <2>1, <2>6, <3>1, WriterOverlaps
    <3>2. CASE asked[c].change[f] = Absent /\ u \in after[c]
      <4>1. pc[c] \in {"select", "write"}
        BY <2>6 DEF Writes, UpdateSelect, UpdateWrite
      <4>2. seen[c][f] = asked[u].change[f] \/ Overlapped(u, f)
        BY <2>1, <2>6, <3>2, <4>1 DEF Changed, SeenStays
      <4>3. users'[n][f] \in {users[n][f], seen[c][f]}
        BY <2>6, <3>2 DEF Updates
      <4> QED
        BY <1>1, <2>1, <2>4, <4>2, <4>3, OverlapKept
    <3> QED
      BY <3>1, <3>2
  <2> QED
    BY <2>2, <2>5, <2>6, TargetStep
<1>3. CASE u = c
  <2>1. Asks(c, {"update"})' /\ pc'[c] = "ok"
    BY <1>3 DEF Acked, Asks
  <2>2. asked'[c] = asked[c] /\ Writes(c) /\ pc[c] \in {"select", "write"}
    BY <1>1, <2>1, UpdateStep DEF ReadsUser, ReadsAgain
  <2>3. asked[c] # Absent /\ Asks(c, {"update"}) /\ asked[c].id = id
    BY <1>3, <2>1, <2>2 DEF Asks
  <2>4. id \in Calls => pc[id] \in Ended
    BY <2>2, <2>3 DEF Changed, Targets
  <2>5. n \in NameOf(id)
    BY <2>4, TargetStep
  <2>6. Updates(c, n)
    BY <1>1, <2>2, <2>3, <2>5, WritesStep DEF NameOf
  <2>7. CASE users'[n][f] = asked[c].change[f]
    BY <1>3, <2>2, <2>7
  <2>8. CASE /\ users'[n][f] = users[n][f] /\ row[c][f] = asked[c].change[f]
             /\ pc[c] = "write"
    <3>1. users[n][f] = row[c][f] \/ Overlapped(c, f)
      BY <2>3, <2>5, <2>8 DEF Changed, ReadStays
    <3> QED
      BY <1>1, <1>3, <2>2, <2>3, <2>8, <3>1, OverlapKept
  <2> QED
    BY <1>3, <2>2, <2>6, <2>7, <2>8 DEF Updates
<1> QED
  BY <1>2, <1>3

(* A field that an acknowledged update has set stays so, unless an update of *)
(* the same user that had not ended before it began sets that field too or   *)
(* overlapped it: two administrators lose each other's changes only when     *)
(* their requests overlap.                                                   *)
THEOREM UpdatesAreKept == AccountsSpec => []AckedChangeStays
<1>1. AccountsInit => Changed
  BY DEF AccountsInit, Changed, Targets, ReadStays, SeenStays, ChangeStays, Acked, Asks
<1>2. Changed /\ Rows /\ Sound /\ WellFormed' /\ [AccountsNext]_accountVars => Changed'
  <2> SUFFICES ASSUME Changed, Rows, Sound, WellFormed', [AccountsNext]_accountVars
               PROVE  Changed'
    OBVIOUS
  <2>1. ASSUME NEW c \in Calls, Call(c)
        PROVE  Changed'
    BY <2>1, TargetsKept, ReadStaysKept, SeenStaysKept, ChangeStaysKept DEF Changed
  <2>2. ASSUME /\ UNCHANGED <<users, asked, pc, seen, row, after>>
        PROVE  Changed'
    BY <2>2 DEF Changed, Targets, ReadStays, SeenStays, ChangeStays, Acked, Asks, NameOf,
                Overlapped, Overlaps
  <2>3. CASE UNCHANGED accountVars
    BY <2>2, <2>3 DEF accountVars, userVars
  <2>4. ASSUME NEW i \in Ids, Expire(i)
        PROVE  Changed'
    BY <2>2, <2>4 DEF Expire, userVars
  <2> QED
    BY <2>1, <2>3, <2>4 DEF AccountsNext
<1>3. Changed => AckedChangeStays
  BY ChangeStaysIsIt DEF Changed
<1> QED
  BY <1>1, <1>2, <1>3, AccountsSound, AccountsWellFormed, RowsAreNamed, PTL DEF AccountsSpec
------------------------------------------------------------------------------

(* Call c spends token i: it logs the session out, or it exchanges the token *)
(* and has got past the check of the user.                                   *)
Spends(c, i) ==
  /\ Asks(c, {"logout", "refresh"}) /\ asked[c].token = i
  /\ asked[c].op = "refresh" => pc[c] \in {"issue", "ok", "error"}

(* In a step of c, a token that is there stays that of its user and session, *)
(* it is revoked only if c spends it and never restored; a token that was    *)
(* not there is the one c issues.                                            *)
Stays(c, i) ==
  /\ tokens'[i].user = tokens[i].user /\ tokens'[i].session = tokens[i].session
  /\ tokens[i].revoked => tokens'[i].revoked
  /\ tokens'[i].revoked => tokens[i].revoked \/ Spends(c, i)'

Issues(c, i) == i = c /\ pc[c] = "issue" /\ ~tokens'[i].revoked

(* A token was there and stays, or is the one that c issues. *)
LEMMA TokensStep ==
  ASSUME WellFormed, NEW c \in Calls, Call(c), NEW i \in Ids, tokens'[i] # Absent
  PROVE  (tokens[i] # Absent /\ Stays(c, i)) \/ Issues(c, i)
<1>1. CASE UNCHANGED tokens
  BY <1>1 DEF Stays
<1>2. CASE RefreshRevoke(c)
  <2>1. /\ asked[c] \in Requests /\ asked[c].op = "refresh" /\ asked[c] # Absent
        /\ asked'[c] = asked[c] /\ pc'[c] \in {"issue", "error"}
        /\ tokens[asked[c].token] # Absent
    BY <1>2 DEF WellFormed, AccountsTypeOK, Stages, StageOf, Asks, RefreshRevoke, Commits, Goes
  <2>2. Spends(c, asked[c].token)'
    BY <2>1 DEF Spends, Asks
  <2>3. /\ tokens \in [Ids -> Tokens \cup {Absent}] /\ asked[c].token \in Ids
        /\ tokens' = [tokens EXCEPT ![asked[c].token].revoked = TRUE]
    BY <1>2, <2>1, RequestTypes DEF WellFormed, AccountsTypeOK, RefreshRevoke
  <2>4. CASE i = asked[c].token
    BY <2>1, <2>2, <2>3, <2>4 DEF Stays, Tokens
  <2>5. CASE i # asked[c].token
    BY <2>3, <2>5 DEF Stays
  <2> QED
    BY <2>4, <2>5
<1>3. CASE IssueTokens(c)
  <2>1. CASE i = c
    BY <1>3, <2>1 DEF WellFormed, AccountsTypeOK, IssueTokens, NewToken, Issues
  <2>2. CASE i # c
    BY <1>3, <2>2 DEF WellFormed, AccountsTypeOK, IssueTokens, Stays
  <2> QED
    BY <2>1, <2>2
<1>4. ASSUME NEW r \in Requests, Logout(c)!(r), tokens' # tokens
      PROVE  tokens[i] # Absent /\ Stays(c, i)
  <2>1. /\ r # Absent /\ r.token \in Ids /\ tokens[r.token] # Absent
        /\ tokens \in [Ids -> Tokens \cup {Absent}]
        /\ tokens' = [tokens EXCEPT ![r.token].revoked = TRUE]
    BY <1>4, RequestTypes DEF WellFormed, AccountsTypeOK, Backed, Holds
  <2>2. Spends(c, r.token)'
    BY <1>4, <2>1 DEF Spends, Asks, Arrives, WellFormed, AccountsTypeOK
  <2>3. CASE i = r.token
    BY <2>1, <2>2, <2>3 DEF Stays, Tokens
  <2>4. CASE i # r.token
    BY <2>1, <2>4 DEF Stays
  <2> QED
    BY <2>3, <2>4
<1>5. \/ UNCHANGED tokens \/ RefreshRevoke(c) \/ IssueTokens(c)
      \/ \E r \in Requests : Logout(c)!(r)
  BY DEF Call, Login, RefreshToken, RefreshUser, Logout, NotAdmin, UpdateRead, UpdateSelect,
         UpdateWrite, CreateUser, BootstrapLook, BootstrapCount, BootstrapInsert, Raise, tokenVars
<1> QED
  BY <1>1, <1>2, <1>3, <1>4, <1>5

(* The passing of time changes of a token only whether it has expired. *)
LEMMA ExpireKeeps ==
  ASSUME WellFormed, NEW j \in Ids, Expire(j), NEW i \in Ids,
         tokens[i] # Absent \/ tokens'[i] # Absent
  PROVE  /\ tokens[i] # Absent /\ tokens'[i].user = tokens[i].user
         /\ tokens'[i].session = tokens[i].session
         /\ tokens[i].revoked <=> tokens'[i].revoked
<1>1. /\ tokens \in [Ids -> Tokens \cup {Absent}] /\ tokens[j] # Absent
      /\ tokens' = [tokens EXCEPT ![j].expired = TRUE]
  BY DEF WellFormed, AccountsTypeOK, Expire
<1>2. CASE i = j
  BY <1>1, <1>2 DEF Tokens
<1>3. CASE i # j
  BY <1>1, <1>3
<1> QED
  BY <1>2, <1>3

(* The last transaction of a refresh ends it, whatever happens. *)
LEMMA IssueEnds ==
  ASSUME WellFormed, NEW c \in Calls, Call(c), pc[c] = "issue"
  PROVE  pc'[c] \in {"ok", "error"} /\ asked'[c] = asked[c]
BY DEF Call, Login, RefreshToken, RefreshUser, RefreshRevoke, IssueTokens, Logout, NotAdmin,
       UpdateRead, UpdateSelect, UpdateWrite, CreateUser, BootstrapLook, BootstrapCount,
       BootstrapInsert, Raise, Arrives, Commits, Goes, WellFormed, AccountsTypeOK

(* What a call has spent, it has spent for good. *)
LEMMA SpendsKept ==
  ASSUME WellFormed, NEW c \in Calls, Call(c), NEW d \in Calls, NEW i, Spends(d, i)
  PROVE  Spends(d, i)'
<1>1. Steps(c)
  BY CallSteps
<1>2. CASE d # c
  BY <1>1, <1>2 DEF Steps, Spends, Asks
<1>3. CASE d = c /\ pc[c] = "issue"
  BY <1>3, IssueEnds DEF Spends, Asks
<1>4. CASE d = c /\ pc[c] # "issue"
  <2>1. asked[c] # Absent /\ pc[c] # "new"
    BY <1>4 DEF WellFormed, Stages, StageOf, Spends, Asks
  <2>2. asked'[c] = asked[c] /\ pc[c] \in InFlight
    BY <1>1, <2>1 DEF Steps
  <2>3. asked[c].op = "logout"
    BY <1>1, <1>4 DEF Spends, Asks, Steps, Ended
  <2> QED
    BY <1>4, <2>2, <2>3 DEF Spends, Asks
<1> QED
  BY <1>2, <1>3, <1>4

(* A session is ended only by a call that was entitled to end it: a revoked  *)
(* token was logged out, or exchanged by a refresh that had found its user.  *)
THEOREM RevocationHasACause == AccountsSpec => []RevokedForACause
<1>1. AccountsInit => RevokedForACause
  BY DEF AccountsInit, RevokedForACause, NewToken
<1>2. RevokedForACause /\ Sound /\ [AccountsNext]_accountVars => RevokedForACause'
  <2> SUFFICES ASSUME RevokedForACause, WellFormed, [AccountsNext]_accountVars,
                      NEW i \in Ids, tokens'[i] # Absent, tokens'[i].revoked
               PROVE  \E d \in Calls : Spends(d, i)'
    BY DEF RevokedForACause, Spends, Sound
  <2>1. ASSUME NEW c \in Calls, Call(c)
        PROVE  \E d \in Calls : Spends(d, i)'
    <3>1. Spends(c, i)' \/ (tokens[i] # Absent /\ tokens[i].revoked)
      BY <2>1, TokensStep DEF Stays, Issues
    <3>2. ASSUME tokens[i] # Absent, tokens[i].revoked
          PROVE  \E d \in Calls : Spends(d, i)
      BY <3>2 DEF RevokedForACause, Spends
    <3> QED
      BY <2>1, <3>1, <3>2, SpendsKept
  <2>2. ASSUME NEW j \in Ids, Expire(j)
        PROVE  \E d \in Calls : Spends(d, i)'
    <3>1. tokens[i] # Absent /\ tokens[i].revoked
      BY <2>2, ExpireKeeps
    <3> QED
      BY <2>2, <3>1 DEF RevokedForACause, Spends, Expire, Asks
  <2>3. CASE UNCHANGED accountVars
    BY <2>3 DEF accountVars, tokenVars, RevokedForACause, Spends, Asks
  <2> QED
    BY <2>1, <2>2, <2>3 DEF AccountsNext
<1> QED
  BY <1>1, <1>2, AccountsSound, PTL DEF AccountsSpec
------------------------------------------------------------------------------
(* Call d is past the transaction that revokes the token it was given. *)
Revoking(d) ==
  \/ asked[d].op = "refresh" /\ pc[d] \in {"issue", "ok"}
  \/ asked[d].op = "logout" /\ pc[d] = "ok"

(* The token of a request is one that a client has, and it is revoked before *)
(* the answer and before a new one is issued.                                *)
Exchange ==
  \A d \in Calls :
    /\ Asks(d, {"refresh", "logout"}) /\ asked[d].token # Seed
         => asked[d].token \in Calls /\ pc[asked[d].token] = "ok"
    /\ Asks(d, {"refresh", "logout"}) /\ Revoking(d) => tokens[asked[d].token].revoked

(* The first step of a refresh or logout, and the steps that revoke. *)
LEMMA ExchangeStep ==
  ASSUME WellFormed, NEW c \in Calls, Call(c), Asks(c, {"refresh", "logout"})'
  PROVE  /\ asked'[c].token \in Ids
         /\ pc[c] = "new" => Holds(asked'[c].token)
         /\ pc[c] = "new" /\ asked'[c].op = "refresh" /\ tokens[asked'[c].token].revoked
              => pc'[c] = "denied"
         /\ Revoking(c)' => pc[c] = "issue" \/ tokens'[asked'[c].token].revoked
<1> DEFINE token == asked'[c].token
           Goal == /\ token \in Ids
                   /\ pc[c] = "new" => Holds(token)
                   /\ pc[c] = "new" /\ asked'[c].op = "refresh" /\ tokens[token].revoked
                        => pc'[c] = "denied"
                   /\ Revoking(c)' => pc[c] = "issue" \/ tokens'[token].revoked
<1> USE DEF Asks, Revoking
<1>1. asked \in [Calls -> Requests \cup {Absent}] /\ pc \in [Calls -> {"new"} \cup InFlight \cup Ended]
  BY DEF WellFormed, AccountsTypeOK
<1>2. CASE RefreshToken(c)
  BY <1>1, <1>2, RequestTypes DEF RefreshToken, Arrives, Goes
<1>3. ASSUME NEW r \in Requests, Logout(c)!(r)
      PROVE  Goal
  <2>1. /\ r # Absent /\ r.token \in Ids /\ tokens[r.token] # Absent /\ asked'[c] = r
        /\ tokens \in [Ids -> Tokens \cup {Absent}] /\ pc[c] = "new"
    BY <1>1, <1>3, RequestTypes DEF WellFormed, AccountsTypeOK, Backed, Holds, Arrives
  <2>2. CASE tokens[r.token].expired
    BY <1>1, <1>3, <2>1, <2>2 DEF Goes
  <2>3. CASE ~tokens[r.token].expired
    <3>1. tokens' = [tokens EXCEPT ![r.token].revoked = TRUE]
      BY <1>3, <2>3
    <3>2. tokens'[r.token].revoked
      BY <2>1, <3>1 DEF Tokens
    <3> QED
      BY <1>3, <2>1, <3>2
  <2> QED
    BY <2>2, <2>3
<1>4. CASE RefreshRevoke(c)
  <2>1. /\ asked'[c] = asked[c] /\ asked[c].token \in Ids /\ tokens[asked[c].token] # Absent
        /\ tokens \in [Ids -> Tokens \cup {Absent}] /\ pc[c] = "revoke"
    BY <1>4, RequestTypes DEF WellFormed, AccountsTypeOK, Stages, StageOf, RefreshRevoke
  <2>2. tokens'[asked[c].token].revoked
    BY <1>4, <2>1 DEF RefreshRevoke, Tokens
  <2> QED
    BY <2>1, <2>2
<1>5. CASE pc[c] = "issue" \/ RefreshUser(c) \/ Raise(c)
  <2>1. asked'[c] = asked[c] /\ pc[c] # "new"
    BY <1>5, IssueEnds DEF RefreshUser, Raise, InFlight
  <2>2. token \in Ids
    BY <1>1, <2>1, RequestTypes
  <2> QED
    BY <1>1, <1>5, <2>1, <2>2 DEF RefreshUser, Raise, Goes
<1>6. CASE Login(c) \/ NotAdmin(c) \/ UpdateRead(c) \/ CreateUser(c) \/ BootstrapLook(c)
  BY <1>1, <1>6 DEF Login, NotAdmin, UpdateRead, CreateUser, BootstrapLook, Arrives
<1>7. CASE UpdateSelect(c) \/ UpdateWrite(c) \/ BootstrapCount(c) \/ BootstrapInsert(c)
  <2>1. asked'[c] = asked[c] /\ pc[c] \in {"select", "write", "count", "insert"}
    BY <1>7 DEF UpdateSelect, UpdateWrite, BootstrapCount, BootstrapInsert
  <2> QED
    BY <2>1 DEF WellFormed, Stages, StageOf
<1> QED
  BY <1>2, <1>3, <1>4, <1>5, <1>6, <1>7 DEF Call, Logout, IssueTokens

(* A token that was asked for is not the one a call is about to issue. *)
LEMMA AskedStays ==
  ASSUME WellFormed, WellFormed', Exchange, NEW c \in Calls, Call(c), NEW d \in Calls,
         Asks(d, {"refresh", "logout"})
  PROVE  Stays(c, asked[d].token)
<1>1. asked[d].token \in Ids /\ tokens[asked[d].token] # Absent
  BY RequestTypes DEF WellFormed, AccountsTypeOK, Stages, StageOf, Asks
<1>2. Asks(d, {"refresh", "logout"})' /\ asked'[d] = asked[d]
  BY CallSteps DEF Steps, Asks, WellFormed, Stages, StageOf, InFlight
<1>3. tokens'[asked[d].token] # Absent
  BY <1>2 DEF WellFormed, Stages, StageOf
<1>4. ~Issues(c, asked[d].token)
  BY AccountsAssumption DEF Exchange, Issues
<1> QED
  BY <1>1, <1>3, <1>4, TokensStep

(* A step of a call keeps Exchange. *)
LEMMA ExchangeKept ==
  ASSUME Sound, WellFormed', Exchange, NEW c \in Calls, Call(c)
  PROVE  Exchange'
<1>1. Steps(c) /\ WellFormed
  BY CallSteps DEF Sound
<1>2. ASSUME NEW d \in Calls, d # c \/ pc[c] # "new"
      PROVE  asked'[d] = asked[d]
  BY <1>1, <1>2 DEF Steps, WellFormed, Stages, StageOf
<1>3. \A d \in Calls : pc[d] = "ok" => pc'[d] = "ok"
  BY <1>1 DEF Steps, Ended
<1> SUFFICES ASSUME NEW d \in Calls, Asks(d, {"refresh", "logout"})'
             PROVE  /\ asked'[d].token # Seed
                         => asked'[d].token \in Calls /\ pc'[asked'[d].token] = "ok"
                    /\ Revoking(d)' => tokens'[asked'[d].token].revoked
  BY DEF Exchange, Asks, Revoking
<1>4. CASE d # c
  <2>1. Asks(d, {"refresh", "logout"}) /\ asked'[d] = asked[d] /\ pc'[d] = pc[d]
    BY <1>1, <1>4 DEF Steps, Asks
  <2>2. Stays(c, asked[d].token)
    BY <1>1, <2>1, AskedStays
  <2> QED
    BY <1>3, <2>1, <2>2 DEF Exchange, Asks, Stays, Revoking
<1>5. CASE d = c /\ pc[c] = "new"
  <2>1. Holds(asked'[d].token) /\ asked'[d].token \in Ids
    BY <1>1, <1>5, ExchangeStep
  <2>2. asked'[d].token # Seed => asked'[d].token \in Calls /\ pc'[asked'[d].token] = "ok"
    BY <1>3, <2>1 DEF Holds, Ids
  <2> QED
    BY <1>1, <1>5, <2>2, ExchangeStep
<1>6. CASE d = c /\ pc[c] # "new"
  <2>1. Asks(d, {"refresh", "logout"}) /\ asked'[d] = asked[d]
    BY <1>2, <1>6 DEF Asks
  <2>2. Stays(c, asked[d].token)
    BY <1>1, <2>1, AskedStays
  <2>3. pc[c] = "issue" => asked[c].op = "refresh" /\ tokens[asked[c].token].revoked
    <3> SUFFICES ASSUME pc[c] = "issue"
                 PROVE  asked[c].op = "refresh" /\ tokens[asked[c].token].revoked
      OBVIOUS
    <3>1. asked[c].op = "refresh"
      BY <1>1, <1>6, <2>1 DEF WellFormed, Stages, StageOf, Asks
    <3> QED
      BY <1>6, <2>1, <3>1 DEF Exchange, Asks, Revoking
  <2> QED
    BY <1>1, <1>3, <1>6, <2>1, <2>2, <2>3, ExchangeStep DEF Exchange, Asks, Stays, Revoking
<1> QED
  BY <1>4, <1>5, <1>6

(* A step of a call keeps SpentOnce, given that Exchange holds. *)
LEMMA SpentOnceKept ==
  ASSUME Sound, WellFormed', Exchange, SpentOnce, NEW c \in Calls, Call(c)
  PROVE  SpentOnce'
<1>1. Steps(c) /\ WellFormed /\ PastIsOver
  BY CallSteps DEF Sound
<1> SUFFICES ASSUME NEW d \in Calls, Asks(d, {"refresh"})', NEW e \in Calls,
                    Acked(e, {"refresh", "logout"})', e \in after'[d],
                    asked'[e].token = asked'[d].token
             PROVE  pc'[d] = "denied"
  BY DEF SpentOnce
<1>2. e # c
  BY <1>1, PastKept DEF PastIsOver, Steps
<1>3. Acked(e, {"refresh", "logout"}) /\ asked'[e] = asked[e]
  BY <1>1, <1>2 DEF Steps, Acked, Asks
<1>4. CASE d # c \/ pc[c] # "new"
  <2>1. asked'[d] = asked[d] /\ after'[d] = after[d]
    BY <1>1, <1>4 DEF Steps, WellFormed, Stages, StageOf
  <2>2. pc[d] = "denied"
    BY <1>3, <2>1 DEF SpentOnce, Asks
  <2> QED
    BY <1>1, <2>2 DEF Steps, Ended
<1>5. CASE d = c /\ pc[c] = "new"
  <2>1. tokens[asked[e].token].revoked
    BY <1>3 DEF Exchange, Acked, Asks, Revoking
  <2> QED
    BY <1>1, <1>3, <1>5, <2>1, ExchangeStep DEF Asks
<1> QED
  BY <1>4, <1>5

(* A token that was asked for keeps its user and session when time passes. *)
LEMMA ExpireAsked ==
  ASSUME WellFormed, NEW j \in Ids, Expire(j), NEW d \in Calls, Asks(d, {"refresh", "logout"})
  PROVE  /\ tokens'[asked[d].token].user = tokens[asked[d].token].user
         /\ tokens'[asked[d].token].session = tokens[asked[d].token].session
         /\ tokens[asked[d].token].revoked <=> tokens'[asked[d].token].revoked
<1>1. asked[d].token \in Ids /\ tokens[asked[d].token] # Absent
  BY RequestTypes DEF WellFormed, AccountsTypeOK, Stages, StageOf, Asks
<1> QED
  BY <1>1, ExpireKeeps

(* The passing of time keeps Exchange. *)
LEMMA ExpireExchange ==
  ASSUME WellFormed, Exchange, NEW j \in Ids, Expire(j)
  PROVE  Exchange'
<1>1. \A d \in Calls : Asks(d, {"refresh", "logout"}) =>
        (tokens[asked[d].token].revoked => tokens'[asked[d].token].revoked)
  BY ExpireAsked
<1> QED
  BY <1>1 DEF Exchange, Expire, Asks, Revoking

(* A refresh token is good for one exchange: after the answer to a refresh   *)
(* or a logout of it, every refresh of it that begins is refused.            *)
THEOREM TokensAreSpentOnce == AccountsSpec => []SpentOnce
<1>1. AccountsInit => Exchange /\ SpentOnce
  BY DEF AccountsInit, Exchange, SpentOnce, Acked, Asks
<1>2. Exchange /\ SpentOnce /\ Sound /\ WellFormed' /\ [AccountsNext]_accountVars
        => (Exchange /\ SpentOnce)'
  <2> SUFFICES ASSUME Exchange, SpentOnce, Sound, WellFormed', [AccountsNext]_accountVars
               PROVE  Exchange' /\ SpentOnce'
    OBVIOUS
  <2>1. ASSUME NEW c \in Calls, Call(c)
        PROVE  Exchange' /\ SpentOnce'
    BY <2>1, ExchangeKept, SpentOnceKept
  <2>2. ASSUME NEW j \in Ids, Expire(j)
        PROVE  Exchange' /\ SpentOnce'
    <3>1. Exchange'
      BY <2>2, ExpireExchange DEF Sound
    <3>2. SpentOnce'
      BY <2>2 DEF SpentOnce, Expire, Acked, Asks
    <3> QED
      BY <3>1, <3>2
  <2>3. CASE UNCHANGED accountVars
    BY <2>3 DEF accountVars, tokenVars, Exchange, SpentOnce, Acked, Asks, Revoking
  <2> QED
    BY <2>1, <2>2, <2>3 DEF AccountsNext
<1> QED
  BY <1>1, <1>2, AccountsSound, AccountsWellFormed, PTL DEF AccountsSpec
------------------------------------------------------------------------------
(* A login or refresh under way has seen held every row there is. *)
Observed ==
  \A d \in Calls : Asks(d, {"login", "refresh"}) /\ pc[d] \in InFlight =>
    \A n \in Names : users[n] # Absent => users[n] \in held[d]

(* The user such a call remembers was active, and is the one asked for. *)
Remembered ==
  \A d \in Calls : pc[d] \in {"revoke", "issue"} =>
    /\ seen[d] \in held[d] /\ seen[d].status = "active"
    /\ asked[d].op = "login" =>
         seen[d].name = asked[d].name /\ seen[d].password = asked[d].password
    /\ asked[d].op = "refresh" => seen[d].id = tokens[asked[d].token].user

Looks(c) ==
  /\ pc[c] = "new" /\ users' = users
  /\ held' = [held EXCEPT ![c] = RowsOf(users)]

(* A step leaves the users alone, stores some, or looks at them for c. *)
LEMMA HeldStep ==
  ASSUME WellFormed, NEW c \in Calls, Call(c)
  PROVE  \/ UNCHANGED userVars
         \/ Stores(users')
         \/ Looks(c)
<1>1. CASE UpdateSelect(c) \/ UpdateWrite(c) \/ CreateUser(c) \/ BootstrapInsert(c)
  BY <1>1 DEF UpdateSelect, UpdateWrite, CreateUser, BootstrapInsert, Inserts, Stores
<1>2. CASE Login(c) \/ RefreshToken(c)
  BY <1>2 DEF Login, RefreshToken, Arrives, Looks
<1>3. CASE ~(UpdateSelect(c) \/ UpdateWrite(c) \/ CreateUser(c) \/ BootstrapInsert(c)
             \/ Login(c) \/ RefreshToken(c))
  BY <1>3 DEF Call, RefreshUser, RefreshRevoke, IssueTokens, Logout, NotAdmin, UpdateRead,
         BootstrapLook, BootstrapCount, Raise
<1> QED
  BY <1>1, <1>2, <1>3

(* What a call could have seen grows, and has every user there is. *)
LEMMA HeldGrows ==
  ASSUME WellFormed, NEW c \in Calls, Call(c), NEW d \in Calls, d # c \/ pc[c] # "new"
  PROVE  /\ held[d] \subseteq held'[d]
         /\ /\ Asks(d, {"login", "refresh"}) /\ pc[d] \in InFlight
            /\ \A n \in Names : users[n] # Absent => users[n] \in held[d]
            => \A n \in Names : users'[n] # Absent => users'[n] \in held'[d]
<1>1. held \in [Calls -> SUBSET Users]
  BY DEF WellFormed, AccountsTypeOK
<1>2. CASE UNCHANGED userVars
  BY <1>2 DEF userVars
<1>3. CASE Stores(users')
  BY <1>1, <1>3 DEF Stores, RowsOf
<1>4. CASE Looks(c)
  BY <1>1, <1>4 DEF Looks
<1> QED
  BY <1>2, <1>3, <1>4, HeldStep

(* The first step of a login or refresh looks at the users. *)
LEMMA FirstLook ==
  ASSUME WellFormed, NEW c \in Calls, Call(c), pc[c] = "new", Asks(c, {"login", "refresh"})'
  PROVE  Looks(c)
<1>1. CASE Login(c) \/ RefreshToken(c)
  BY <1>1 DEF Login, RefreshToken, Looks
<1>2. CASE Logout(c) \/ NotAdmin(c) \/ UpdateRead(c) \/ CreateUser(c) \/ BootstrapLook(c)
  BY <1>2 DEF Logout, NotAdmin, UpdateRead, CreateUser, BootstrapLook, Arrives, Asks,
              WellFormed, AccountsTypeOK
<1> QED
  BY <1>1, <1>2 DEF Call, RefreshUser, RefreshRevoke, IssueTokens, UpdateSelect, UpdateWrite,
         BootstrapCount, BootstrapInsert, Raise, InFlight

(* A step of a call keeps Observed. *)
LEMMA ObservedKept ==
  ASSUME WellFormed, Observed, NEW c \in Calls, Call(c)
  PROVE  Observed'
<1>1. Steps(c)
  BY CallSteps
<1> SUFFICES ASSUME NEW d \in Calls, Asks(d, {"login", "refresh"})', pc'[d] \in InFlight
             PROVE  \A n \in Names : users'[n] # Absent => users'[n] \in held'[d]
  BY DEF Observed
<1>2. CASE d = c /\ pc[c] = "new"
  BY <1>2, FirstLook DEF Looks, RowsOf, WellFormed, AccountsTypeOK
<1>3. CASE d # c \/ pc[c] # "new"
  <2>1. Asks(d, {"login", "refresh"}) /\ pc[d] \in InFlight
    BY <1>1, <1>3 DEF Steps, Asks
  <2> QED
    BY <1>3, <2>1, HeldGrows DEF Observed
<1> QED
  BY <1>2, <1>3

(* How a call comes to remember a user, and goes on remembering him. *)
LEMMA SeenStep ==
  ASSUME WellFormed, NEW c \in Calls, Call(c), pc'[c] \in {"revoke", "issue"}
  PROVE  \/ Login(c)
         \/ RefreshUser(c)
         \/ /\ pc[c] = "revoke" /\ seen'[c] = seen[c] /\ asked'[c] = asked[c]
            /\ asked[c].op = "refresh" /\ asked[c] # Absent
BY DEF Call, RefreshToken, RefreshRevoke, IssueTokens, Logout, NotAdmin, UpdateRead, UpdateSelect,
       UpdateWrite, CreateUser, BootstrapLook, BootstrapCount, BootstrapInsert, Raise, Inserts,
       Arrives, Commits, Goes, WellFormed, AccountsTypeOK, Stages, StageOf

(* A step of a call keeps Remembered. *)
LEMMA RememberedKept ==
  ASSUME WellFormed, WellFormed', Rows, Exchange, Observed, Remembered, NEW c \in Calls, Call(c)
  PROVE  Remembered'
<1>1. Steps(c)
  BY CallSteps
<1> SUFFICES ASSUME NEW d \in Calls, pc'[d] \in {"revoke", "issue"}
             PROVE  /\ seen'[d] \in held'[d] /\ seen'[d].status = "active"
                    /\ asked'[d].op = "login" => /\ seen'[d].name = asked'[d].name
                                                /\ seen'[d].password = asked'[d].password
                    /\ asked'[d].op = "refresh" => seen'[d].id = tokens'[asked'[d].token].user
  BY DEF Remembered
<1>2. CASE /\ pc[d] \in {"revoke", "issue"} /\ seen'[d] = seen[d] /\ asked'[d] = asked[d]
           /\ asked[d] # Absent
  <2>1. held[d] \subseteq held'[d]
    BY <1>2, HeldGrows
  <2>2. asked[d].op = "refresh" => tokens'[asked[d].token].user = tokens[asked[d].token].user
    BY <1>2, AskedStays DEF Asks, Stays
  <2> QED
    BY <1>2, <2>1, <2>2 DEF Remembered
<1>3. ASSUME d = c, NEW r \in Requests, Login(c)!(r)
      PROVE  /\ seen'[c] \in held'[c] /\ seen'[c].status = "active"
             /\ asked'[c].op = "login" /\ seen'[c].name = asked'[c].name
             /\ seen'[c].password = asked'[c].password
  <2>1. /\ asked'[c] = r /\ r.op = "login" /\ r.name \in Names /\ held'[c] = RowsOf(users)
    BY <1>3, RequestTypes DEF Arrives, WellFormed, AccountsTypeOK
  <2>2. /\ users[r.name] # Absent /\ users[r.name].status = "active"
        /\ users[r.name].password = r.password /\ seen'[c] = users[r.name]
    BY <1>3 DEF Goes, WellFormed, AccountsTypeOK
  <2>3. users[r.name].name = r.name /\ users[r.name] \in RowsOf(users)
    BY <2>1, <2>2 DEF Rows, RowsOf
  <2> QED
    BY <2>1, <2>2, <2>3
<1>4. CASE d = c /\ RefreshUser(c)
  <2>1. /\ pc[c] = "user" /\ asked[c].op = "refresh" /\ asked'[c] = asked[c] /\ asked[c] # Absent
        /\ tokens' = tokens /\ held' = held
    BY <1>4 DEF RefreshUser, WellFormed, Stages, StageOf, tokenVars, userVars
  <2>2. PICK n \in NameOf(tokens[asked[c].token].user) :
          users[n].status = "active" /\ seen'[c] = users[n]
    BY <1>4 DEF RefreshUser, Goes, WellFormed, AccountsTypeOK
  <2>3. users[n] \in held[c] /\ users[n].id = tokens[asked[c].token].user
    BY <2>1, <2>2 DEF NameOf, Observed, Asks, InFlight
  <2> QED
    BY <1>4, <2>1, <2>2, <2>3
<1>5. d # c => /\ pc[d] = pc'[d] /\ seen'[d] = seen[d] /\ asked'[d] = asked[d]
               /\ asked[d] # Absent
  BY <1>1 DEF Steps, WellFormed, Stages, StageOf
<1> QED
  BY <1>2, <1>3, <1>4, <1>5, SeenStep DEF Login

(* The tokens of a call that answered are those of its last transaction. *)
LEMMA AnswerStays ==
  ASSUME WellFormed, WellFormed', NEW c \in Calls, Call(c), NEW d \in Calls, d # c,
         access[d] # Absent
  PROVE  /\ access'[d] = access[d]
         /\ tokens'[d].user = tokens[d].user /\ tokens'[d].session = tokens[d].session
<1>1. access'[d] = access[d]
  <2>1. CASE IssueTokens(c)
    BY <2>1 DEF IssueTokens, WellFormed, AccountsTypeOK, Ids
  <2>2. CASE ~IssueTokens(c)
    <3>1. UNCHANGED access
      BY <2>2 DEF Call, Login, RefreshToken, RefreshUser, RefreshRevoke, Logout, NotAdmin,
             UpdateRead, UpdateSelect, UpdateWrite, CreateUser, BootstrapLook, BootstrapCount,
             BootstrapInsert, Raise, tokenVars
    <3> QED
      BY <3>1
  <2> QED
    BY <2>1, <2>2
<1>2. d \in Ids /\ tokens'[d] # Absent
  BY <1>1 DEF WellFormed, Backed, Ids
<1> QED
  BY <1>1, <1>2, TokensStep DEF Issues, Stays

(* A login or refresh is answered by the issue of its tokens only. *)
LEMMA AnswerStep ==
  ASSUME WellFormed, NEW c \in Calls, Call(c), Acked(c, {"login", "refresh"})'
  PROVE  IssueTokens(c)
<1>1. CASE Login(c) \/ RefreshToken(c) \/ Logout(c) \/ NotAdmin(c) \/ UpdateRead(c)
           \/ CreateUser(c) \/ BootstrapLook(c)
  BY <1>1 DEF Login, RefreshToken, Logout, NotAdmin, UpdateRead, CreateUser, BootstrapLook,
              Arrives, Goes, Acked, Asks, WellFormed, AccountsTypeOK
<1>2. CASE RefreshUser(c) \/ RefreshRevoke(c) \/ Raise(c)
  BY <1>2 DEF RefreshUser, RefreshRevoke, Raise, Commits, Goes, Acked, WellFormed, AccountsTypeOK
<1>3. CASE UpdateSelect(c) \/ UpdateWrite(c) \/ BootstrapCount(c) \/ BootstrapInsert(c)
  <2>1. pc[c] \in {"select", "write", "count", "insert"} /\ asked'[c] = asked[c]
    BY <1>3 DEF UpdateSelect, UpdateWrite, BootstrapCount, BootstrapInsert
  <2> QED
    BY <2>1 DEF Acked, Asks, WellFormed, Stages, StageOf
<1> QED
  BY <1>1, <1>2, <1>3 DEF Call

(* What the answer of call d says is true of a user it saw. *)
Granted(d, user) ==
  /\ user.status = "active" /\ user.role = access[d] /\ user.id = tokens[d].user
  /\ IF asked[d].op = "login"
     THEN user.name = asked[d].name /\ user.password = asked[d].password
     ELSE /\ user.id = tokens[asked[d].token].user
          /\ tokens[d].session = tokens[asked[d].token].session

(* A step of a call keeps GrantedAsHeld, given that Remembered holds. *)
LEMMA GrantedKept ==
  ASSUME Sound, WellFormed', Exchange, Remembered, GrantedAsHeld, NEW c \in Calls, Call(c)
  PROVE  GrantedAsHeld'
<1>1. Steps(c) /\ WellFormed
  BY CallSteps DEF Sound
<1> SUFFICES ASSUME NEW d \in Calls, Acked(d, {"login", "refresh"})'
             PROVE  \E user \in held'[d] : Granted(d, user)'
  BY DEF GrantedAsHeld, Granted
<1>2. CASE d # c
  <2>1. Acked(d, {"login", "refresh"}) /\ asked'[d] = asked[d]
    BY <1>1, <1>2 DEF Steps, Acked, Asks
  <2>2. PICK user \in held[d] : Granted(d, user)
    BY <2>1 DEF GrantedAsHeld, Granted
  <2>3. user \in held'[d]
    BY <1>1, <1>2, HeldGrows
  <2>4. access[d] # Absent
    BY <1>1, <2>2, AccountsAssumption DEF WellFormed, AccountsTypeOK, Users, Granted
  <2>5. /\ access'[d] = access[d]
        /\ tokens'[d].user = tokens[d].user /\ tokens'[d].session = tokens[d].session
    BY <1>1, <1>2, <2>4, AnswerStays
  <2>6. asked[d].op # "login" =>
          /\ tokens'[asked[d].token].user = tokens[asked[d].token].user
          /\ tokens'[asked[d].token].session = tokens[asked[d].token].session
    BY <1>1, <2>1, AskedStays DEF Acked, Asks, Stays
  <2>7. Granted(d, user)'
    BY <2>1, <2>2, <2>5, <2>6 DEF Granted
  <2> QED
    BY <2>3, <2>7
<1>3. CASE d = c
  <2>1. IssueTokens(c)
    BY <1>1, <1>3, AnswerStep
  <2>2. /\ pc[c] = "issue" /\ asked'[c] = asked[c] /\ asked[c] # Absent /\ held' = held
        /\ asked[c].op \in {"login", "refresh"} /\ seen[c] \in Users
    BY <1>1, <2>1 DEF IssueTokens, userVars, WellFormed, AccountsTypeOK, Stages, StageOf
  <2>3. c \in Ids /\ tokens \in [Ids -> Tokens \cup {Absent}] /\ access \in [Ids -> Roles \cup {Absent}]
    BY <1>1 DEF WellFormed, AccountsTypeOK, Ids
  <2>4. /\ access'[c] = seen[c].role /\ tokens'[c].user = seen[c].id
        /\ asked[c].op = "refresh" => tokens'[c].session = tokens[asked[c].token].session
    BY <2>1, <2>2, <2>3 DEF IssueTokens, NewToken
  <2>5. asked[c].op = "refresh" =>
          /\ tokens'[asked[c].token].user = tokens[asked[c].token].user
          /\ tokens'[asked[c].token].session = tokens[asked[c].token].session
    BY <1>1, <2>2, AskedStays DEF Asks, Stays
  <2>6. Granted(c, seen[c])'
    <3>1. /\ seen[c].status = "active"
          /\ asked[c].op = "login" =>
               seen[c].name = asked[c].name /\ seen[c].password = asked[c].password
          /\ asked[c].op = "refresh" => seen[c].id = tokens[asked[c].token].user
      BY <2>2 DEF Remembered
    <3>2. seen'[c] = seen[c]
      BY <2>1 DEF IssueTokens
    <3> QED
      BY <2>2, <2>4, <2>5, <3>1, <3>2 DEF Granted
  <2>7. seen'[c] \in held'[c]
    BY <2>1, <2>2 DEF Remembered, IssueTokens
  <2> QED
    BY <1>3, <2>6, <2>7
<1> QED
  BY <1>2, <1>3

(* The tokens of an answer tell the truth about a user as he was at a moment *)
(* of the call, and a refresh continues the session it was given.            *)
THEOREM AnswersAreTrue == AccountsSpec => []GrantedAsHeld
<1> DEFINE Inv == Exchange /\ Observed /\ Remembered /\ GrantedAsHeld
<1>1. AccountsInit => Inv
  BY DEF AccountsInit, Exchange, Observed, Remembered, GrantedAsHeld, Acked, Asks
<1>2. Inv /\ Sound /\ Rows /\ WellFormed' /\ [AccountsNext]_accountVars => Inv'
  <2> SUFFICES ASSUME Inv, Sound, Rows, WellFormed', [AccountsNext]_accountVars
               PROVE  Inv'
    OBVIOUS
  <2>1. ASSUME NEW c \in Calls, Call(c)
        PROVE  Inv'
    BY <2>1, ExchangeKept, ObservedKept, RememberedKept, GrantedKept DEF Sound
  <2>2. ASSUME NEW j \in Ids, Expire(j)
        PROVE  Inv'
    <3>1. WellFormed /\ UNCHANGED <<users, held, access, asked, pc, seen>>
      BY <2>2 DEF Sound, Expire, userVars
    <3>2. Exchange'
      BY <2>2, <3>1, ExpireExchange
    <3>3. Observed'
      BY <3>1 DEF Observed, Asks
    <3>4. Remembered'
      <4>1. ASSUME NEW d \in Calls, pc[d] \in {"revoke", "issue"}, asked[d].op = "refresh"
            PROVE  tokens'[asked[d].token].user = tokens[asked[d].token].user
        BY <2>2, <3>1, <4>1, ExpireAsked DEF WellFormed, Stages, StageOf, Asks
      <4> QED
        BY <3>1, <4>1 DEF Remembered
    <3>5. GrantedAsHeld'
      <4> SUFFICES ASSUME NEW d \in Calls, Acked(d, {"login", "refresh"})
                   PROVE  \E user \in held[d] : Granted(d, user)'
        BY <3>1 DEF GrantedAsHeld, Granted, Acked, Asks
      <4>1. PICK user \in held[d] : Granted(d, user)
        BY DEF GrantedAsHeld, Granted
      <4>2. d \in Ids /\ tokens[d] # Absent
        BY <3>1, <4>1, AccountsAssumption
           DEF WellFormed, AccountsTypeOK, Backed, Users, Granted, Ids
      <4>3. tokens'[d].user = tokens[d].user /\ tokens'[d].session = tokens[d].session
        BY <2>2, <3>1, <4>2, ExpireKeeps
      <4>4. asked[d].op # "login" =>
              /\ tokens'[asked[d].token].user = tokens[asked[d].token].user
              /\ tokens'[asked[d].token].session = tokens[asked[d].token].session
        BY <2>2, <3>1, ExpireAsked DEF Acked, Asks
      <4>5. Granted(d, user)'
        BY <3>1, <4>1, <4>3, <4>4 DEF Granted
      <4> QED
        BY <4>5
    <3> QED
      BY <3>2, <3>3, <3>4, <3>5
  <2>3. CASE UNCHANGED accountVars
    BY <2>3 DEF accountVars, userVars, tokenVars, Exchange, Revoking, Observed, Remembered,
                GrantedAsHeld, Acked, Asks
  <2> QED
    BY <2>1, <2>2, <2>3 DEF AccountsNext
<1> QED
  BY <1>1, <1>2, AccountsSound, AccountsWellFormed, RowsAreNamed, PTL DEF AccountsSpec
==============================================================================
