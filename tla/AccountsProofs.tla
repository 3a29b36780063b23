---------------------------- MODULE AccountsProofs ----------------------------
(***************************************************************************)
(* Theorems about Accounts for every value of its constants.               *)
(***************************************************************************)
EXTENDS Accounts, TLAPS

(* Where a call is says what it asked for and what it has read. *)
StageOf(c) ==
  /\ pc[c] = "new" <=> asked[c] = Absent
  /\ pc[c] \in {"user", "revoke"} => asked[c].op = "refresh"
  /\ pc[c] = "issue" => asked[c].op \in {"login", "refresh"}
  /\ pc[c] \in {"select", "write"} => asked[c].op = "update"
  /\ pc[c] \in {"count", "insert"} => asked[c].op = "bootstrap"
  /\ pc[c] \in {"revoke", "issue", "select", "write"} => seen[c] # Absent
  /\ pc[c] = "write" => row[c] # Absent
  /\ Asks(c, {"refresh", "logout"}) => tokens[asked[c].token] # Absent

Stages == \A c \in Calls : StageOf(c)

(* A token that a client has is a row of the table. *)
Backed == \A i \in Ids : access[i] # Absent => tokens[i] # Absent

WellFormed == AccountsTypeOK /\ Stages /\ Backed

(* What a request of each kind brings along. *)
LEMMA RequestTypes ==
  ASSUME NEW r \in Requests
  PROVE  /\ r # Absent
         /\ r.op \in {"login", "refresh", "logout", "create", "bootstrap", "update"}
         /\ r.op \in {"login", "create", "bootstrap"} => r.name \in Names /\ r.password \in Passwords
         /\ r.op = "create" => r.role \in Roles /\ r.status \in Statuses
         /\ r.op \in {"refresh", "logout"} => r.token \in Ids
         /\ r.op = "update" => r.id \in Ids /\ r.change \in Changes
<1>1. r \in AllRequests /\ r # Absent
  BY AccountsAssumption
<1> QED
  BY <1>1 DEF AllRequests

(* The user that a set of changes makes of another one. *)
LEMMA ChangeType ==
  ASSUME NEW old \in Users, NEW change \in Changes
  PROVE  /\ Change(old, change) \in Users
         /\ Change(old, change).id = old.id /\ Change(old, change).name = old.name
BY DEF Users, Changes, Change

(* The rows of a well-typed table are users. *)
LEMMA RowsOfType ==
  ASSUME NEW table \in [Names -> Users \cup {Absent}]
  PROVE  RowsOf(table) \subseteq Users
BY DEF RowsOf

(* A row that is found by its id is a user. *)
LEMMA FoundType ==
  ASSUME AccountsTypeOK, NEW id, NEW n \in NameOf(id)
  PROVE  n \in Names /\ users[n] \in Users /\ users[n].id = id /\ users[n] # Absent
BY DEF AccountsTypeOK, NameOf

(* Storing users keeps the tables of users well-formed. *)
LEMMA StoresType ==
  ASSUME AccountsTypeOK, NEW table \in [Names -> Users \cup {Absent}], Stores(table)
  PROVE  /\ users' \in [Names -> Users \cup {Absent}]
         /\ held' \in [Calls -> SUBSET Users]
BY RowsOfType DEF AccountsTypeOK, Stores

(* A user that is inserted keeps the tables of users well-formed. *)
LEMMA InsertsType ==
  ASSUME AccountsTypeOK, NEW c \in Calls, NEW name \in Names, NEW password \in Passwords,
         NEW role \in Roles, NEW status \in Statuses, Inserts(c, name, password, role, status)
  PROVE  /\ users' \in [Names -> Users \cup {Absent}]
         /\ held' \in [Calls -> SUBSET Users]
         /\ faults' \in Nat
<1> DEFINE user == [name |-> name, id |-> c, role |-> role, status |-> status,
                    password |-> password]
<1>1. user \in Users
  BY DEF Users, Ids
<1>2. [users EXCEPT ![name] = user] \in [Names -> Users \cup {Absent}]
  BY <1>1 DEF AccountsTypeOK
<1>3. faults' \in Nat
  BY DEF AccountsTypeOK, Inserts, Commits, Fault
<1>4. CASE UNCHANGED userVars
  BY <1>3, <1>4 DEF userVars, AccountsTypeOK
<1>5. CASE Stores([users EXCEPT ![name] = user])
  BY <1>2, <1>3, <1>5, StoresType
<1> QED
  BY <1>4, <1>5 DEF Inserts

(* What a step of call c leaves alone. *)
OthersKept(c) ==
  /\ \A d \in Calls \ {c} : /\ pc'[d] = pc[d] /\ asked'[d] = asked[d]
                            /\ seen'[d] = seen[d] /\ row'[d] = row[d]
  /\ \A i \in Ids : tokens[i] # Absent => tokens'[i] # Absent

(* A step of c that leaves the stage of c right leaves all stages right. *)
LEMMA StagesKept ==
  ASSUME WellFormed, NEW c \in Calls, OthersKept(c), StageOf(c)'
  PROVE  Stages'
<1> SUFFICES ASSUME NEW d \in Calls, d # c
             PROVE  StageOf(d)'
  BY DEF Stages
<1>1. StageOf(d)
  BY DEF WellFormed, Stages
<1>2. pc'[d] = pc[d] /\ asked'[d] = asked[d] /\ seen'[d] = seen[d] /\ row'[d] = row[d]
  BY DEF OthersKept
<1>3. Asks(d, {"refresh", "logout"}) => asked[d].token \in Ids
  BY RequestTypes DEF WellFormed, AccountsTypeOK, Asks
<1> QED
  BY <1>1, <1>2, <1>3 DEF StageOf, OthersKept, Asks

(* A call that commits goes on or raises. *)
LEMMA CommitsType ==
  ASSUME AccountsTypeOK, NEW c \in Calls, NEW next \in Ended \cup InFlight, Commits(c, next)
  PROVE  /\ pc' = [pc EXCEPT ![c] = next] \/ pc' = [pc EXCEPT ![c] = "error"]
         /\ pc' \in [Calls -> {"new"} \cup InFlight \cup Ended]
         /\ faults' \in Nat
BY DEF Commits, Goes, Fault, AccountsTypeOK, Ended

(* A token stays one when it is revoked and when it expires. *)
LEMMA TokenType ==
  ASSUME NEW token \in Tokens, NEW value \in BOOLEAN
  PROVE  /\ [token EXCEPT !.revoked = value] \in Tokens
         /\ [token EXCEPT !.expired = value] \in Tokens
<1>1. [token EXCEPT !.revoked = value] \in Tokens
  BY DEF Tokens
<1>2. [token EXCEPT !.expired = value] \in Tokens
  BY DEF Tokens
<1> QED
  BY <1>1, <1>2

(* The next sixteen lemmas: a step of each action keeps WellFormed. *)
LEMMA LoginStep ==
  ASSUME WellFormed, NEW c \in Calls, Login(c)
  PROVE  WellFormed'
<1>1. PICK r \in Requests : Login(c)!(r)
  BY DEF Login
<1>2. r # Absent /\ r.op = "login" /\ r.name \in Names
  BY <1>1, RequestTypes
<1>6. AccountsTypeOK'
  BY <1>1, <1>2, RowsOfType DEF WellFormed, AccountsTypeOK, Arrives, Goes, tokenVars, InFlight, Ended
<1>7. OthersKept(c)
  BY <1>1 DEF OthersKept, WellFormed, AccountsTypeOK, Arrives, Goes, tokenVars
<1>8. StageOf(c)'
  BY <1>1, <1>2 DEF StageOf, WellFormed, AccountsTypeOK, Arrives, Goes, Asks
<1>9. Backed'
  BY <1>1 DEF WellFormed, Backed, tokenVars
<1> QED
  BY <1>6, <1>7, <1>8, <1>9, StagesKept DEF WellFormed

(* A refresh that has read the row of its token. *)
LEMMA RefreshTokenStep ==
  ASSUME WellFormed, NEW c \in Calls, RefreshToken(c)
  PROVE  WellFormed'
<1>1. PICK r \in Requests : RefreshToken(c)!(r)
  BY DEF RefreshToken
<1>2. r # Absent /\ r.op = "refresh" /\ r.token \in Ids
  BY <1>1, RequestTypes
<1>6. AccountsTypeOK'
  BY <1>1, <1>2, RowsOfType DEF WellFormed, AccountsTypeOK, Arrives, Goes, tokenVars, InFlight, Ended
<1>7. OthersKept(c)
  BY <1>1 DEF OthersKept, WellFormed, AccountsTypeOK, Arrives, Goes, tokenVars
<1>8. StageOf(c)'
  BY <1>1, <1>2 DEF StageOf, WellFormed, AccountsTypeOK, Arrives, Goes, Asks, Backed, Holds, tokenVars
<1>9. Backed'
  BY <1>1 DEF WellFormed, Backed, tokenVars
<1> QED
  BY <1>6, <1>7, <1>8, <1>9, StagesKept DEF WellFormed

(* A refresh that has read its user remembers him. *)
LEMMA RefreshUserStep ==
  ASSUME WellFormed, NEW c \in Calls, RefreshUser(c)
  PROVE  WellFormed'
<1>1. /\ asked[c] \in Requests /\ asked[c] # Absent /\ asked[c].op = "refresh"
      /\ StageOf(c)
  BY DEF WellFormed, AccountsTypeOK, Stages, StageOf, RefreshUser
<1>2. \A id : \A n \in NameOf(id) : users[n] \in Users /\ users[n] # Absent
  BY FoundType DEF WellFormed
<1>6. AccountsTypeOK'
  BY <1>1, <1>2 DEF WellFormed, AccountsTypeOK, RefreshUser, Goes, userVars, tokenVars, InFlight, Ended
<1>7. OthersKept(c)
  BY DEF OthersKept, WellFormed, AccountsTypeOK, RefreshUser, Goes, userVars, tokenVars
<1>8. StageOf(c)'
  BY <1>1, <1>2 DEF StageOf, WellFormed, AccountsTypeOK, RefreshUser, Goes, Asks, userVars, tokenVars
<1>9. Backed'
  BY DEF WellFormed, Backed, RefreshUser, tokenVars
<1> QED
  BY <1>6, <1>7, <1>8, <1>9, StagesKept DEF WellFormed

(* A refresh that revokes has a token, which stays one. *)
LEMMA RefreshRevokeStep ==
  ASSUME WellFormed, NEW c \in Calls, RefreshRevoke(c)
  PROVE  WellFormed'
<1>1. /\ asked[c] \in Requests /\ asked[c] # Absent /\ asked[c].op = "refresh"
      /\ StageOf(c)
  BY DEF WellFormed, AccountsTypeOK, Stages, StageOf, RefreshRevoke
<1>2. asked[c].token \in Ids /\ tokens[asked[c].token] # Absent
  BY <1>1, RequestTypes DEF StageOf, Asks
<1>3. /\ pc' = [pc EXCEPT ![c] = "issue"] \/ pc' = [pc EXCEPT ![c] = "error"]
      /\ pc' \in [Calls -> {"new"} \cup InFlight \cup Ended] /\ faults' \in Nat
  BY CommitsType DEF WellFormed, RefreshRevoke, InFlight
<1>4. /\ tokens' \in [Ids -> Tokens \cup {Absent}]
      /\ \A i \in Ids : tokens[i] # Absent => tokens'[i] # Absent
  <2>1. [tokens[asked[c].token] EXCEPT !.revoked = TRUE] \in Tokens
    BY <1>2, TokenType DEF WellFormed, AccountsTypeOK
  <2> QED
    BY <1>2, <2>1, AccountsAssumption DEF WellFormed, AccountsTypeOK, RefreshRevoke
<1>6. AccountsTypeOK'
  BY <1>1, <1>2, <1>3, <1>4 DEF WellFormed, AccountsTypeOK, RefreshRevoke, userVars
<1>7. OthersKept(c)
  BY <1>3, <1>4 DEF OthersKept, WellFormed, AccountsTypeOK, RefreshRevoke
<1>8. StageOf(c)'
  BY <1>1, <1>2, <1>3, <1>4 DEF StageOf, WellFormed, AccountsTypeOK, RefreshRevoke, Asks
<1>9. Backed'
  BY <1>2, <1>4 DEF WellFormed, AccountsTypeOK, Backed, RefreshRevoke
<1> QED
  BY <1>6, <1>7, <1>8, <1>9, StagesKept DEF WellFormed

(* The tokens issued last belong to a remembered user. *)
LEMMA IssueTokensStep ==
  ASSUME WellFormed, NEW c \in Calls, IssueTokens(c)
  PROVE  WellFormed'
<1>1. /\ asked[c] \in Requests /\ asked[c] # Absent /\ asked[c].op \in {"login", "refresh"}
      /\ StageOf(c) /\ seen[c] \in Users /\ seen[c].id \in Ids /\ seen[c].role \in Roles
  BY DEF WellFormed, AccountsTypeOK, Stages, StageOf, IssueTokens, Users
<1>2. asked[c].op = "refresh" => asked[c].token \in Ids /\ tokens[asked[c].token] # Absent
  BY <1>1, RequestTypes DEF StageOf, Asks
<1>3. /\ pc' = [pc EXCEPT ![c] = "ok"] \/ pc' = [pc EXCEPT ![c] = "error"]
      /\ pc' \in [Calls -> {"new"} \cup InFlight \cup Ended] /\ faults' \in Nat
  BY CommitsType DEF WellFormed, IssueTokens, Ended
<1>4. /\ tokens' \in [Ids -> Tokens \cup {Absent}] /\ tokens'[c] # Absent
      /\ \A i \in Ids : tokens[i] # Absent => tokens'[i] # Absent
  <2> DEFINE session == IF asked[c].op = "login" THEN c ELSE tokens[asked[c].token].session
  <2>1. session \in Ids
    BY <1>1, <1>2 DEF WellFormed, AccountsTypeOK, Tokens, Ids
  <2>2. NewToken(seen[c].id, session) \in Tokens
    BY <1>1, <2>1 DEF NewToken, Tokens
  <2>3. c \in Ids /\ tokens' = [tokens EXCEPT ![c] = NewToken(seen[c].id, session)]
    BY DEF IssueTokens, Ids
  <2> QED
    BY <2>2, <2>3, AccountsAssumption DEF WellFormed, AccountsTypeOK
<1>6. AccountsTypeOK'
  BY <1>1, <1>2, <1>3, <1>4 DEF WellFormed, AccountsTypeOK, IssueTokens, userVars
<1>7. OthersKept(c)
  BY <1>3, <1>4 DEF OthersKept, WellFormed, AccountsTypeOK, IssueTokens
<1>8. StageOf(c)'
  BY <1>1, <1>2, <1>3, <1>4 DEF StageOf, WellFormed, AccountsTypeOK, IssueTokens, Asks
<1>9. Backed'
  BY <1>4 DEF WellFormed, AccountsTypeOK, Backed, IssueTokens, Ids
<1> QED
  BY <1>6, <1>7, <1>8, <1>9, StagesKept DEF WellFormed

(* A logout names a token that was issued. *)
LEMMA LogoutStep ==
  ASSUME WellFormed, NEW c \in Calls, Logout(c)
  PROVE  WellFormed'
<1>1. PICK r \in Requests : Logout(c)!(r)
  BY DEF Logout
<1>2. r # Absent /\ r.op = "logout" /\ r.token \in Ids /\ tokens[r.token] # Absent
  BY <1>1, RequestTypes DEF WellFormed, Backed, Holds
<1>3. /\ pc' = [pc EXCEPT ![c] = "ok"] \/ pc' = [pc EXCEPT ![c] = "error"]
      /\ pc' \in [Calls -> {"new"} \cup InFlight \cup Ended] /\ faults' \in Nat
  BY <1>1, CommitsType DEF WellFormed, AccountsTypeOK, Goes, Ended
<1>4. /\ tokens' \in [Ids -> Tokens \cup {Absent}]
      /\ \A i \in Ids : tokens[i] # Absent => tokens'[i] # Absent
  <2>1. [tokens[r.token] EXCEPT !.revoked = TRUE] \in Tokens
    BY <1>2, TokenType DEF WellFormed, AccountsTypeOK
  <2> QED
    BY <1>1, <1>2, <2>1, AccountsAssumption DEF WellFormed, AccountsTypeOK
<1>6. AccountsTypeOK'
  BY <1>1, <1>2, <1>3, <1>4 DEF WellFormed, AccountsTypeOK, Arrives, userVars, InFlight, Ended
<1>7. OthersKept(c)
  BY <1>1, <1>3, <1>4 DEF OthersKept, WellFormed, AccountsTypeOK, Arrives
<1>8. StageOf(c)'
  BY <1>1, <1>2, <1>3, <1>4 DEF StageOf, WellFormed, AccountsTypeOK, Arrives, Asks
<1>9. Backed'
  BY <1>1, <1>4 DEF WellFormed, Backed
<1> QED
  BY <1>6, <1>7, <1>8, <1>9, StagesKept DEF WellFormed

(* A refused request changes nothing but its own stage. *)
LEMMA NotAdminStep ==
  ASSUME WellFormed, NEW c \in Calls, NotAdmin(c)
  PROVE  WellFormed'
<1>1. PICK r \in Requests : NotAdmin(c)!(r)
  BY DEF NotAdmin
<1>2. r # Absent /\ r.op \in {"create", "update"}
  BY <1>1, RequestTypes
<1>6. AccountsTypeOK'
  BY <1>1, <1>2 DEF WellFormed, AccountsTypeOK, Arrives, Goes, userVars, tokenVars, InFlight, Ended
<1>7. OthersKept(c)
  BY <1>1 DEF OthersKept, WellFormed, AccountsTypeOK, Arrives, Goes, tokenVars
<1>8. StageOf(c)'
  BY <1>1, <1>2 DEF StageOf, WellFormed, AccountsTypeOK, Arrives, Goes, Asks, tokenVars
<1>9. Backed'
  BY <1>1 DEF WellFormed, Backed, tokenVars
<1> QED
  BY <1>6, <1>7, <1>8, <1>9, StagesKept DEF WellFormed

(* An update that goes on remembers a user. *)
LEMMA UpdateReadStep ==
  ASSUME WellFormed, NEW c \in Calls, UpdateRead(c)
  PROVE  WellFormed'
<1>1. PICK r \in Requests : UpdateRead(c)!(r)
  BY DEF UpdateRead
<1>2. r # Absent /\ r.op = "update"
  BY <1>1, RequestTypes
<1>3. \A id : \A n \in NameOf(id) : users[n] \in Users /\ users[n] # Absent
  BY FoundType DEF WellFormed
<1>6. AccountsTypeOK'
  BY <1>1, <1>2, <1>3 DEF WellFormed, AccountsTypeOK, Arrives, Goes, userVars, tokenVars, InFlight, Ended
<1>7. OthersKept(c)
  BY <1>1 DEF OthersKept, WellFormed, AccountsTypeOK, Arrives, Goes, tokenVars
<1>8. StageOf(c)'
  BY <1>1, <1>2, <1>3 DEF StageOf, WellFormed, AccountsTypeOK, Arrives, Goes, Asks, tokenVars
<1>9. Backed'
  BY <1>1 DEF WellFormed, Backed, tokenVars
<1> QED
  BY <1>6, <1>7, <1>8, <1>9, StagesKept DEF WellFormed

(* An update remembers the row it selected, or writes a user at once. *)
LEMMA UpdateSelectStep ==
  ASSUME WellFormed, NEW c \in Calls, UpdateSelect(c)
  PROVE  WellFormed'
<1>1. /\ asked[c] \in Requests /\ asked[c] # Absent /\ asked[c].op = "update"
      /\ StageOf(c) /\ seen[c] \in Users /\ seen[c] # Absent
  BY DEF WellFormed, AccountsTypeOK, Stages, StageOf, UpdateSelect
<1>2. /\ \/ pc' = [pc EXCEPT ![c] = "denied"] \/ pc' = [pc EXCEPT ![c] = "ok"]
         \/ pc' = [pc EXCEPT ![c] = "write"] /\ row'[c] # Absent
      /\ pc' \in [Calls -> {"new"} \cup InFlight \cup Ended]
      /\ row' \in [Calls -> Users \cup {Absent}]
      /\ \A d \in Calls \ {c} : row'[d] = row[d]
  <2>1. CASE (Goes(c, "denied") \/ Goes(c, "ok")) /\ row' = row
    BY <2>1 DEF WellFormed, AccountsTypeOK, Goes, Ended
  <2>2. CASE /\ \E n \in NameOf(asked[c].id) : row' = [row EXCEPT ![c] = users[n]]
             /\ Goes(c, "write")
    BY <2>2, FoundType DEF WellFormed, AccountsTypeOK, Goes, InFlight
  <2> QED
    BY <2>1, <2>2 DEF UpdateSelect
<1>3. users' \in [Names -> Users \cup {Absent}] /\ held' \in [Calls -> SUBSET Users]
  <2> DEFINE base(n) == [users[n] EXCEPT !.role = seen[c].role, !.status = seen[c].status,
                                         !.password = seen[c].password]
             table(n) == [users EXCEPT ![n] = Change(base(n), asked[c].change)]
  <2>1. CASE UNCHANGED userVars
    BY <2>1 DEF WellFormed, AccountsTypeOK, userVars
  <2>2. ASSUME NEW n \in NameOf(asked[c].id), Stores(table(n))
        PROVE  <1>3!1 /\ <1>3!2
    <3>1. n \in Names /\ users[n] \in Users
      BY <2>2, FoundType DEF WellFormed
    <3>2. base(n) \in Users
      BY <1>1, <3>1 DEF Users
    <3>3. Change(base(n), asked[c].change) \in Users
      BY <1>1, <3>2, ChangeType, RequestTypes
    <3>4. table(n) \in [Names -> Users \cup {Absent}]
      BY <3>3 DEF WellFormed, AccountsTypeOK
    <3> QED
      BY <2>2, <3>4, StoresType DEF WellFormed
  <2> QED
    BY <2>1, <2>2 DEF UpdateSelect
<1>4. UNCHANGED <<db, tokenVars, asked, seen, after, faults>>
  BY DEF UpdateSelect
<1>6. AccountsTypeOK'
  BY <1>1, <1>2, <1>3, <1>4 DEF WellFormed, AccountsTypeOK, tokenVars
<1>7. OthersKept(c)
  BY <1>2, <1>4 DEF OthersKept, WellFormed, AccountsTypeOK, tokenVars
<1>8. StageOf(c)'
  BY <1>1, <1>2, <1>4 DEF StageOf, WellFormed, AccountsTypeOK, Asks, tokenVars
<1>9. Backed'
  BY <1>4 DEF WellFormed, Backed, tokenVars
<1> QED
  BY <1>6, <1>7, <1>8, <1>9, StagesKept DEF WellFormed

(* An update writes a user. *)
LEMMA UpdateWriteStep ==
  ASSUME WellFormed, NEW c \in Calls, UpdateWrite(c)
  PROVE  WellFormed'
<1>1. /\ asked[c] \in Requests /\ asked[c] # Absent /\ asked[c].op = "update"
      /\ StageOf(c) /\ seen[c] \in Users /\ row[c] \in Users
  BY DEF WellFormed, AccountsTypeOK, Stages, StageOf, UpdateWrite
<1>2. /\ pc' = [pc EXCEPT ![c] = "ok"] \/ pc' = [pc EXCEPT ![c] = "error"]
      /\ pc' \in [Calls -> {"new"} \cup InFlight \cup Ended] /\ faults' \in Nat
  BY CommitsType DEF WellFormed, UpdateWrite, Ended
<1>3. users' \in [Names -> Users \cup {Absent}] /\ held' \in [Calls -> SUBSET Users]
  <2> DEFINE next == Change(seen[c], asked[c].change)
             written(n, f) == IF next[f] = row[c][f] THEN users[n][f] ELSE next[f]
             table(n) == [users EXCEPT ![n].role = written(n, "role"),
                                       ![n].status = written(n, "status"),
                                       ![n].password = written(n, "password")]
  <2>1. PICK n \in NameOf(asked[c].id) : Stores(table(n))
    BY DEF UpdateWrite
  <2>2. n \in Names /\ users[n] \in Users
    BY <2>1, FoundType DEF WellFormed
  <2>3. next \in Users
    BY <1>1, ChangeType, RequestTypes
  <2>4. /\ written(n, "role") \in Roles /\ written(n, "status") \in Statuses
        /\ written(n, "password") \in Passwords
    BY <2>2, <2>3 DEF Users
  <2> HIDE DEF written
  <2>5. table(n) \in [Names -> Users \cup {Absent}]
    <3>1. [[[users[n] EXCEPT !.role = written(n, "role")]
                      EXCEPT !.status = written(n, "status")]
                      EXCEPT !.password = written(n, "password")] \in Users
      BY <2>2, <2>4 DEF Users
    <3> QED
      BY <2>2, <3>1 DEF WellFormed, AccountsTypeOK
  <2> QED
    BY <2>1, <2>5, StoresType DEF WellFormed
<1>4. UNCHANGED <<db, tokenVars, asked, seen, row, after>>
  BY DEF UpdateWrite
<1>6. AccountsTypeOK'
  BY <1>1, <1>2, <1>3, <1>4 DEF WellFormed, AccountsTypeOK, tokenVars
<1>7. OthersKept(c)
  BY <1>2, <1>4 DEF OthersKept, WellFormed, AccountsTypeOK, tokenVars
<1>8. StageOf(c)'
  BY <1>1, <1>2, <1>4 DEF StageOf, WellFormed, AccountsTypeOK, Asks, tokenVars
<1>9. Backed'
  BY <1>4 DEF WellFormed, Backed, tokenVars
<1> QED
  BY <1>6, <1>7, <1>8, <1>9, StagesKept DEF WellFormed

(* A creation inserts a user. *)
LEMMA CreateUserStep ==
  ASSUME WellFormed, NEW c \in Calls, CreateUser(c)
  PROVE  WellFormed'
<1>1. PICK r \in Requests : CreateUser(c)!(r)
  BY DEF CreateUser
<1>2. /\ r # Absent /\ r.op = "create" /\ r.name \in Names
      /\ r.password \in Passwords /\ r.role \in Roles /\ r.status \in Statuses
  BY <1>1, RequestTypes
<1>3. /\ pc' = [pc EXCEPT ![c] = "ok"] \/ pc' = [pc EXCEPT ![c] = "error"]
      /\ pc' \in [Calls -> {"new"} \cup InFlight \cup Ended]
  BY <1>1, CommitsType DEF WellFormed, AccountsTypeOK, Inserts, Goes, Ended
<1>4. /\ users' \in [Names -> Users \cup {Absent}] /\ held' \in [Calls -> SUBSET Users]
      /\ faults' \in Nat
  BY <1>1, <1>2, InsertsType DEF WellFormed
<1>6. AccountsTypeOK'
  BY <1>1, <1>2, <1>3, <1>4 DEF WellFormed, AccountsTypeOK, Arrives, tokenVars
<1>7. OthersKept(c)
  BY <1>1, <1>3 DEF OthersKept, WellFormed, AccountsTypeOK, Arrives, tokenVars
<1>8. StageOf(c)'
  BY <1>1, <1>2, <1>3 DEF StageOf, WellFormed, AccountsTypeOK, Arrives, Asks
<1>9. Backed'
  BY <1>1 DEF WellFormed, Backed, tokenVars
<1> QED
  BY <1>6, <1>7, <1>8, <1>9, StagesKept DEF WellFormed

(* A bootstrap that looks for its name changes no table. *)
LEMMA BootstrapLookStep ==
  ASSUME WellFormed, NEW c \in Calls, BootstrapLook(c)
  PROVE  WellFormed'
<1>1. PICK r \in Requests : BootstrapLook(c)!(r)
  BY DEF BootstrapLook
<1>2. r # Absent /\ r.op = "bootstrap"
  BY <1>1, RequestTypes
<1>6. AccountsTypeOK'
  BY <1>1, <1>2 DEF WellFormed, AccountsTypeOK, Arrives, Goes, userVars, tokenVars, InFlight, Ended
<1>7. OthersKept(c)
  BY <1>1 DEF OthersKept, WellFormed, AccountsTypeOK, Arrives, Goes, tokenVars
<1>8. StageOf(c)'
  BY <1>1, <1>2 DEF StageOf, WellFormed, AccountsTypeOK, Arrives, Goes, Asks, tokenVars
<1>9. Backed'
  BY <1>1 DEF WellFormed, Backed, tokenVars
<1> QED
  BY <1>6, <1>7, <1>8, <1>9, StagesKept DEF WellFormed

(* A bootstrap that counts the users changes no table. *)
LEMMA BootstrapCountStep ==
  ASSUME WellFormed, NEW c \in Calls, BootstrapCount(c)
  PROVE  WellFormed'
<1>1. /\ asked[c] \in Requests /\ asked[c] # Absent /\ asked[c].op = "bootstrap"
      /\ StageOf(c)
  BY DEF WellFormed, AccountsTypeOK, Stages, StageOf, BootstrapCount
<1>6. AccountsTypeOK'
  BY <1>1 DEF WellFormed, AccountsTypeOK, BootstrapCount, Goes, userVars, tokenVars, InFlight, Ended
<1>7. OthersKept(c)
  BY DEF OthersKept, WellFormed, AccountsTypeOK, BootstrapCount, Goes, tokenVars
<1>8. StageOf(c)'
  BY <1>1 DEF StageOf, WellFormed, AccountsTypeOK, BootstrapCount, Goes, Asks, tokenVars
<1>9. Backed'
  BY DEF WellFormed, Backed, BootstrapCount, tokenVars
<1> QED
  BY <1>6, <1>7, <1>8, <1>9, StagesKept DEF WellFormed

(* A bootstrap inserts a user. *)
LEMMA BootstrapInsertStep ==
  ASSUME WellFormed, NEW c \in Calls, BootstrapInsert(c)
  PROVE  WellFormed'
<1>1. /\ asked[c] \in Requests /\ asked[c] # Absent /\ asked[c].op = "bootstrap"
      /\ StageOf(c)
  BY DEF WellFormed, AccountsTypeOK, Stages, StageOf, BootstrapInsert
<1>2. /\ pc' = [pc EXCEPT ![c] = "ok"] \/ pc' = [pc EXCEPT ![c] = "error"]
      /\ pc' \in [Calls -> {"new"} \cup InFlight \cup Ended]
  BY CommitsType DEF WellFormed, AccountsTypeOK, BootstrapInsert, Inserts, Goes, Ended
<1>3. /\ users' \in [Names -> Users \cup {Absent}] /\ held' \in [Calls -> SUBSET Users]
      /\ faults' \in Nat
  BY <1>1, RequestTypes, InsertsType DEF WellFormed, BootstrapInsert, Roles, Statuses
<1>6. AccountsTypeOK'
  BY <1>1, <1>2, <1>3 DEF WellFormed, AccountsTypeOK, BootstrapInsert, tokenVars
<1>7. OthersKept(c)
  BY <1>2 DEF OthersKept, WellFormed, AccountsTypeOK, BootstrapInsert, tokenVars
<1>8. StageOf(c)'
  BY <1>1, <1>2 DEF StageOf, WellFormed, AccountsTypeOK, BootstrapInsert, Asks, tokenVars
<1>9. Backed'
  BY DEF WellFormed, Backed, BootstrapInsert, tokenVars
<1> QED
  BY <1>6, <1>7, <1>8, <1>9, StagesKept DEF WellFormed

(* A call that raises keeps what the tables have. *)
LEMMA RaiseStep ==
  ASSUME WellFormed, NEW c \in Calls, Raise(c)
  PROVE  WellFormed'
<1>6. AccountsTypeOK'
  BY DEF WellFormed, AccountsTypeOK, Raise, Fault, Goes, userVars, tokenVars, InFlight, Ended
<1>7. OthersKept(c)
  BY DEF OthersKept, WellFormed, AccountsTypeOK, Raise, Goes, tokenVars
<1>8. StageOf(c)'
  BY DEF StageOf, Stages, WellFormed, AccountsTypeOK, Raise, Goes, InFlight, Asks, tokenVars
<1>9. Backed'
  BY DEF WellFormed, Backed, Raise, tokenVars
<1> QED
  BY <1>6, <1>7, <1>8, <1>9, StagesKept DEF WellFormed

(* A token that expires is still a token. *)
LEMMA ExpireStep ==
  ASSUME WellFormed, NEW i \in Ids, Expire(i)
  PROVE  WellFormed'
<1>1. /\ tokens' \in [Ids -> Tokens \cup {Absent}]
      /\ \A j \in Ids : tokens[j] # Absent => tokens'[j] # Absent
  <2>1. [tokens[i] EXCEPT !.expired = TRUE] \in Tokens
    BY TokenType DEF WellFormed, AccountsTypeOK, Expire
  <2> QED
    BY <2>1, AccountsAssumption DEF WellFormed, AccountsTypeOK, Expire
<1>2. AccountsTypeOK'
  BY <1>1 DEF WellFormed, AccountsTypeOK, Expire, userVars
<1>3. Stages'
  <2> SUFFICES ASSUME NEW d \in Calls
               PROVE  StageOf(d)'
    BY DEF Stages
  <2>1. StageOf(d)
    BY DEF WellFormed, Stages
  <2>2. Asks(d, {"refresh", "logout"}) => asked[d].token \in Ids
    BY RequestTypes DEF WellFormed, AccountsTypeOK, Asks
  <2> QED
    BY <1>1, <2>1, <2>2 DEF StageOf, Expire, Asks
<1>4. Backed'
  BY <1>1 DEF WellFormed, Backed, Expire
<1> QED
  BY <1>2, <1>3, <1>4 DEF WellFormed

(* The empty tables, and those with an administrator, are well-formed. *)
LEMMA WellFormedInit == AccountsInit => WellFormed
<1> SUFFICES ASSUME AccountsInit
             PROVE  WellFormed
  OBVIOUS
<1>1. users \in [Names -> Users \cup {Absent}]
  <2>1. \A password \in Passwords :
           [name |-> SeedName, id |-> Seed, role |-> "admin", status |-> "active",
            password |-> password] \in Users
    BY AccountsAssumption DEF Users, Ids, Roles, Statuses
  <2> QED
    BY <2>1 DEF AccountsInit
<1>2. /\ tokens \in [Ids -> Tokens \cup {Absent}]
      /\ access \in [Ids -> Roles \cup {Absent}]
      /\ Backed
  <2>1. NewToken(Seed, Seed) \in Tokens
    BY DEF NewToken, Tokens, Ids
  <2> QED
    BY <2>1, AccountsAssumption DEF AccountsInit, Backed, Roles
<1>3. AccountsTypeOK
  BY <1>1, <1>2, AccountsAssumption DEF AccountsInit, AccountsTypeOK
<1>4. Stages
  BY DEF AccountsInit, Stages, StageOf, Asks
<1> QED
  BY <1>2, <1>3, <1>4 DEF WellFormed

(* The tables, the calls and what a call remembers fit together in every    *)
(* reachable state: no transaction reads a row that cannot be there.        *)
THEOREM AccountsWellFormed == AccountsSpec => []WellFormed
<1>1. WellFormed /\ [AccountsNext]_accountVars => WellFormed'
  <2> SUFFICES ASSUME WellFormed, [AccountsNext]_accountVars
               PROVE  WellFormed'
    OBVIOUS
  <2>1. ASSUME NEW c \in Calls, Call(c)
        PROVE  WellFormed'
    BY <2>1, LoginStep, RefreshTokenStep, RefreshUserStep, RefreshRevokeStep, IssueTokensStep,
       LogoutStep, NotAdminStep, UpdateReadStep, UpdateSelectStep, UpdateWriteStep,
       CreateUserStep, BootstrapLookStep, BootstrapCountStep, BootstrapInsertStep, RaiseStep
       DEF Call
  <2>2. ASSUME NEW i \in Ids, Expire(i)
        PROVE  WellFormed'
    BY <2>2, ExpireStep
  <2>3. CASE UNCHANGED accountVars
    BY <2>3 DEF WellFormed, AccountsTypeOK, Stages, StageOf, Backed, Asks, accountVars, userVars,
                tokenVars
  <2> QED
    BY <2>1, <2>2, <2>3 DEF AccountsNext
<1> QED
  BY <1>1, WellFormedInit, PTL DEF AccountsSpec

(* Every variable has its type in every reachable state. *)
THEOREM AccountsTypeCorrect == AccountsSpec => []AccountsTypeOK
BY AccountsWellFormed, PTL DEF WellFormed
------------------------------------------------------------------------------
(* A step of call c, seen from outside: the call was not over and has now    *)
(* begun, it keeps what it asked for and which calls preceded it, and the    *)
(* other calls stay where they are with what they have read.                 *)
Steps(c) ==
  /\ db' = db
  /\ \A d \in Calls \ {c} : /\ pc'[d] = pc[d] /\ asked'[d] = asked[d] /\ after'[d] = after[d]
                            /\ seen'[d] = seen[d] /\ row'[d] = row[d]
  /\ pc[c] \notin Ended /\ pc'[c] \in Ended \cup InFlight
  /\ \/ pc[c] = "new" /\ after'[c] = {d \in Calls : pc[d] \in Ended}
     \/ pc[c] \in InFlight /\ asked'[c] = asked[c] /\ after'[c] = after[c]

(* Each action of a call is a step of one call in the sense of Steps. *)
LEMMA CallSteps ==
  ASSUME WellFormed, NEW c \in Calls, Call(c)
  PROVE  Steps(c)
<1> USE DEF WellFormed, AccountsTypeOK, Steps
<1>1. CASE Login(c)
  BY <1>1 DEF Login, Arrives, Goes, InFlight, Ended
<1>2. CASE RefreshToken(c)
  BY <1>2 DEF RefreshToken, Arrives, Goes, InFlight, Ended
<1>3. CASE RefreshUser(c)
  BY <1>3 DEF RefreshUser, Goes, InFlight, Ended
<1>4. CASE RefreshRevoke(c)
  BY <1>4 DEF RefreshRevoke, Commits, Goes, InFlight, Ended
<1>5. CASE IssueTokens(c)
  BY <1>5 DEF IssueTokens, Commits, Goes, InFlight, Ended
<1>6. CASE Logout(c)
  BY <1>6 DEF Logout, Arrives, Commits, Goes, InFlight, Ended
<1>7. CASE NotAdmin(c)
  BY <1>7 DEF NotAdmin, Arrives, Goes, InFlight, Ended
<1>8. CASE UpdateRead(c)
  BY <1>8 DEF UpdateRead, Arrives, Goes, InFlight, Ended
<1>9. CASE UpdateSelect(c)
  BY <1>9 DEF UpdateSelect, Goes, InFlight, Ended
<1>10. CASE UpdateWrite(c)
  BY <1>10 DEF UpdateWrite, Commits, Goes, InFlight, Ended
<1>11. CASE CreateUser(c)
  BY <1>11 DEF CreateUser, Inserts, Arrives, Commits, Goes, InFlight, Ended
<1>12. CASE BootstrapLook(c)
  BY <1>12 DEF BootstrapLook, Arrives, Goes, InFlight, Ended
<1>13. CASE BootstrapCount(c)
  BY <1>13 DEF BootstrapCount, Goes, InFlight, Ended
<1>14. CASE BootstrapInsert(c)
  BY <1>14 DEF BootstrapInsert, Inserts, Commits, Goes, InFlight, Ended
<1>15. CASE Raise(c)
  BY <1>15 DEF Raise, Goes, InFlight, Ended
<1> QED
  BY <1>1, <1>2, <1>3, <1>4, <1>5, <1>6, <1>7, <1>8, <1>9, <1>10, <1>11, <1>12, <1>13, <1>14, <1>15 DEF Call

(* The calls that preceded a call are over. *)
PastIsOver == \A c \in Calls : \A d \in after[c] : d \in Calls /\ pc[d] \in Ended

(* A call that begins sees only ended calls before it, and not itself. *)
LEMMA PastKept ==
  ASSUME WellFormed, PastIsOver, NEW c \in Calls, Steps(c)
  PROVE  PastIsOver' /\ c \notin after'[c]
<1> SUFFICES /\ \A e \in Calls : \A d \in after'[e] : d \in Calls /\ pc[d] \in Ended
             /\ c \notin after'[c]
  BY DEF PastIsOver, Steps
<1>1. \A d \in after'[c] : d \in Calls /\ pc[d] \in Ended
  BY DEF Steps, PastIsOver
<1>2. \A e \in Calls \ {c} : after'[e] = after[e]
  BY DEF Steps
<1> QED
  BY <1>1, <1>2 DEF PastIsOver, Steps

Sound == WellFormed /\ PastIsOver

(* Every reachable state is well-formed, and the calls that a call saw end   *)
(* have ended.                                                               *)
THEOREM AccountsSound == AccountsSpec => []Sound
<1>1. AccountsInit => Sound
  BY WellFormedInit DEF Sound, PastIsOver, AccountsInit
<1>2. Sound /\ WellFormed' /\ [AccountsNext]_accountVars => Sound'
  <2> SUFFICES ASSUME Sound, WellFormed', [AccountsNext]_accountVars
               PROVE  PastIsOver'
    BY DEF Sound
  <2>1. ASSUME NEW c \in Calls, Call(c)
        PROVE  PastIsOver'
    BY <2>1, CallSteps, PastKept DEF Sound
  <2>2. ASSUME NEW i \in Ids, Expire(i)
        PROVE  PastIsOver'
    BY <2>2 DEF Sound, PastIsOver, Expire
  <2>3. CASE UNCHANGED accountVars
    BY <2>3 DEF Sound, PastIsOver, accountVars
  <2> QED
    BY <2>1, <2>2, <2>3 DEF AccountsNext
<1> QED
  BY <1>1, <1>2, AccountsWellFormed, PTL DEF AccountsSpec
==============================================================================
