------------------------------ MODULE Accounts ------------------------------
(***************************************************************************)
(* Users and their sessions: app/auth/service.py on top of                 *)
(* app/storage/repositories/auth_repo.py, called by the routes auth.py and *)
(* users.py.  The routes are plain functions, so that every call has a     *)
(* thread of its own; a call is a sequence of transactions, and the        *)
(* transactions of different calls interleave.  A name stands for a pair   *)
(* of tenant and user name.                                                *)
(*                                                                         *)
(* A call draws at most one user id, one token id (jti) and one session    *)
(* id, each a fresh uuid: here they are all the call itself.  Seed is the  *)
(* call of an earlier day that left a user, a token and a session behind.  *)
(***************************************************************************)
EXTENDS Naturals

CONSTANTS
  Calls,        \* calls of the service
  Seed,         \* an earlier call, finished long ago
  Names,        \* (tenant, user name)
  SeedName,     \* the name of the user that Seed created
  Passwords,
  Requests,     \* what a call may ask for
  MaxFaults,    \* transactions that raise (bound)
  Absent        \* no row, no token, no change of a field

Ids      == Calls \cup {Seed}
Roles    == {"admin", "employee"}
Statuses == {"active", "disabled"}
Fields   == {"role", "status", "password"}
Users    == [name : Names, id : Ids, role : Roles, status : Statuses, password : Passwords]
Tokens   == [user : Ids, session : Ids, revoked : BOOLEAN, expired : BOOLEAN]
Changes  == [role : Roles \cup {Absent}, status : Statuses \cup {Absent},
             password : Passwords \cup {Absent}]

AllRequests ==
  [op : {"login"}, name : Names, password : Passwords]
  \cup [op : {"refresh", "logout"}, token : Ids]
  \cup [op : {"create"}, name : Names, password : Passwords, role : Roles, status : Statuses]
  \cup [op : {"bootstrap"}, name : Names, password : Passwords]
  \cup [op : {"update"}, id : Ids, change : Changes]

ASSUME AccountsAssumption ==
  /\ Seed \notin Calls /\ SeedName \in Names /\ Requests \subseteq AllRequests
  /\ MaxFaults \in Nat
  /\ Absent \notin Users \cup Tokens \cup Roles \cup Statuses \cup Passwords \cup AllRequests

VARIABLES
  db,        \* a database was configured; without one the rows are dictionaries
  users,     \* users[n]: the row of n
  tokens,    \* tokens[i]: the row of the refresh token issued by call i
  access,    \* access[i]: the role in the access token issued with it
  asked,     \* asked[c]: the request of call c
  pc,        \* pc[c]: the transaction c makes next, or how it ended
  seen,      \* seen[c]: the user as c read him
  row,       \* row[c]: the user as the second transaction of an update read him
  after,     \* after[c]: the calls that had ended when c began (history)
  held,      \* held[c]: the rows that existed while c, a login or refresh, ran (history)
  faults     \* transactions that have raised

userVars    == <<users, held>>
tokenVars   == <<tokens, access>>
accountVars == <<db, userVars, tokenVars, asked, pc, seen, row, after, faults>>

Ended    == {"ok", "denied", "error"}
InFlight == {"user", "revoke", "issue", "select", "write", "count", "insert"}
------------------------------------------------------------------------------
NewTokenUnset(user, session) ==                \* mutant: the column has no default
  [user |-> user, session |-> session, revoked |-> Absent, expired |-> FALSE]
NewToken(user, session) == [user |-> user, session |-> session, revoked |-> FALSE, expired |-> FALSE]

RowsOf(table) == {table[n] : n \in Names} \ {Absent}

(* get_user_by_id: an id belongs to one row at most. *)
NameOf(id) == {n \in Names : users[n] # Absent /\ users[n].id = id}

(* A client has the tokens of a call that answered. *)
Holds(i) == access[i] # Absent /\ (i # Seed => pc[i] = "ok")

(* A fresh installation, or one with a user who once logged in. *)
AccountsInit ==
  /\ db \in BOOLEAN
  /\ \/ /\ users  = [n \in Names |-> Absent]
        /\ tokens = [i \in Ids |-> Absent]
        /\ access = [i \in Ids |-> Absent]
     \/ \E password \in Passwords :
          /\ users  = [n \in Names |-> IF n = SeedName
                         THEN [name |-> n, id |-> Seed, role |-> "admin", status |-> "active",
                               password |-> password]
                         ELSE Absent]
          /\ tokens = [i \in Ids |-> IF i = Seed THEN NewToken(Seed, Seed) ELSE Absent]
          /\ access = [i \in Ids |-> IF i = Seed THEN "admin" ELSE Absent]
  /\ asked = [c \in Calls |-> Absent] /\ pc = [c \in Calls |-> "new"]
  /\ seen  = [c \in Calls |-> Absent] /\ row = [c \in Calls |-> Absent]
  /\ after = [c \in Calls |-> {}] /\ held = [c \in Calls |-> {}]
  /\ faults = 0

(* Call c arrives with a request; its first transaction is part of the      *)
(* same step.                                                               *)
Arrives(c, request) ==
  /\ pc[c] = "new"
  /\ asked' = [asked EXCEPT ![c] = request]
  /\ after' = [after EXCEPT ![c] = {d \in Calls : pc[d] \in Ended}]

Asks(c, ops) == asked[c] # Absent /\ asked[c].op \in ops

Goes(c, next) == pc' = [pc EXCEPT ![c] = next]

Fault == db /\ faults < MaxFaults /\ faults' = faults + 1

(* A write of c is committed: the call goes on, or raises all the same,     *)
(* because the connection is lost or the refresh of the row after the       *)
(* commit fails.                                                            *)
Commits(c, next) == (Goes(c, next) /\ UNCHANGED faults) \/ (Goes(c, "error") /\ Fault)

(* The users of the table become those of newUsers. *)
Stores(newUsers) ==
  /\ users' = newUsers
  /\ held'  = [c \in Calls |-> IF Asks(c, {"login", "refresh"}) /\ pc[c] \in InFlight
                                 THEN held[c] \cup RowsOf(newUsers) ELSE held[c]]

(* A transaction of c raises and is rolled back. *)
Raise(c) ==
  /\ pc[c] \in InFlight
  /\ Fault /\ Goes(c, "error")
  /\ UNCHANGED <<db, userVars, tokenVars, asked, seen, row, after>>

(* Time passes the end of a refresh token. *)
Expire(i) ==
  /\ tokens[i] # Absent /\ ~tokens[i].expired
  /\ tokens' = [tokens EXCEPT ![i].expired = TRUE]
  /\ UNCHANGED <<db, userVars, access, asked, pc, seen, row, after, faults>>
------------------------------------------------------------------------------
(* login: the user is read, checked and remembered. *)
Login(c) ==
  \E r \in Requests :
    /\ r.op = "login" /\ Arrives(c, r)
    /\ LET user == users[r.name] IN
       IF user # Absent /\ user.status = "active" /\ user.password = r.password
       THEN Goes(c, "issue") /\ seen' = [seen EXCEPT ![c] = user]
       ELSE Goes(c, "denied") /\ UNCHANGED seen
    /\ held' = [held EXCEPT ![c] = RowsOf(users)]
    /\ UNCHANGED <<db, users, tokenVars, row, faults>>

RefreshTokenAtOnce(c) ==                       \* mutant: the token is revoked when it is read
  \E r \in Requests :
    /\ r.op = "refresh" /\ Holds(r.token) /\ Arrives(c, r)
    /\ LET token == tokens[r.token] IN
       Goes(c, IF token.expired \/ token.revoked THEN "denied" ELSE "user")
    /\ tokens' = [tokens EXCEPT ![r.token].revoked = @ \/ pc'[c] = "user"]
    /\ held' = [held EXCEPT ![c] = RowsOf(users)]
    /\ UNCHANGED <<db, users, access, seen, row, faults>>
(* refresh, first transaction: the row of the token. *)
RefreshToken(c) ==
  \E r \in Requests :
    /\ r.op = "refresh" /\ Holds(r.token) /\ Arrives(c, r)
    /\ LET token == tokens[r.token] IN
       Goes(c, IF token.expired \/ token.revoked THEN "denied" ELSE "user")
    /\ held' = [held EXCEPT ![c] = RowsOf(users)]
    /\ UNCHANGED <<db, users, tokenVars, seen, row, faults>>

RefreshUserAnyStatus(c) ==                     \* mutant: a disabled user may go on
  /\ pc[c] = "user"
  /\ \E n \in NameOf(tokens[asked[c].token].user) :
       seen' = [seen EXCEPT ![c] = users[n]] /\ Goes(c, "revoke")
  /\ UNCHANGED <<db, userVars, tokenVars, asked, row, after, faults>>
(* refresh, second transaction: the user of the token. *)
RefreshUser(c) ==
  /\ pc[c] = "user"
  /\ LET found == NameOf(tokens[asked[c].token].user) IN
     \/ \E n \in found :
          /\ users[n].status = "active"
          /\ seen' = [seen EXCEPT ![c] = users[n]]
          /\ Goes(c, "revoke")
     \/ /\ \A n \in found : users[n].status # "active"
        /\ Goes(c, "denied") /\ UNCHANGED seen
  /\ UNCHANGED <<db, userVars, tokenVars, asked, row, after, faults>>

RefreshRevokeUncommitted(c) ==                 \* mutant: the revocation is not committed
  /\ pc[c] = "revoke"
  /\ Commits(c, "issue")
  /\ UNCHANGED <<db, userVars, tokenVars, asked, seen, row, after>>
(* refresh, third transaction: the old token is revoked. *)
RefreshRevoke(c) ==
  /\ pc[c] = "revoke"
  /\ tokens' = [tokens EXCEPT ![asked[c].token].revoked = TRUE]
  /\ Commits(c, "issue")
  /\ UNCHANGED <<db, userVars, access, asked, seen, row, after>>

(* _issue_tokens, the end of login and refresh. *)
IssueTokens(c) ==
  /\ pc[c] = "issue"
  /\ tokens' = [tokens EXCEPT ![c] = NewToken(seen[c].id,
                   IF asked[c].op = "login" THEN c ELSE tokens[asked[c].token].session)]
  /\ access' = [access EXCEPT ![c] = seen[c].role]
  /\ Commits(c, "ok")
  /\ UNCHANGED <<db, userVars, asked, seen, row, after>>

(* logout: one transaction; an expired token does not decode, and the route *)
(* does not expect that.                                                    *)
Logout(c) ==
  \E r \in Requests :
    /\ r.op = "logout" /\ Holds(r.token) /\ Arrives(c, r)
    /\ IF tokens[r.token].expired
       THEN Goes(c, "error") /\ UNCHANGED <<tokens, faults>>
       ELSE tokens' = [tokens EXCEPT ![r.token].revoked = TRUE] /\ Commits(c, "ok")
    /\ UNCHANGED <<db, userVars, access, seen, row>>
------------------------------------------------------------------------------
(* The caller of a user route presents an access token; its role decides,   *)
(* not the row of the user.                                                 *)
AsAdmin == \E i \in Ids : Holds(i) /\ access[i] = "admin"

NotAdmin(c) ==
  \E r \in Requests :
    /\ r.op \in {"create", "update"} /\ Arrives(c, r)
    /\ \E i \in Ids : Holds(i) /\ access[i] # "admin"
    /\ Goes(c, "denied")
    /\ UNCHANGED <<db, userVars, tokenVars, seen, row, faults>>

ChangeFromDefaults(old, change) ==             \* mutant: a field not given takes its default
  [old EXCEPT !.role     = IF change.role = Absent THEN @ ELSE change.role,
              !.status   = IF change.status = Absent THEN "active" ELSE change.status,
              !.password = IF change.password = Absent THEN @ ELSE change.password]
Change(old, change) ==
  [old EXCEPT !.role     = IF change.role = Absent THEN @ ELSE change.role,
              !.status   = IF change.status = Absent THEN @ ELSE change.status,
              !.password = IF change.password = Absent THEN @ ELSE change.password]

(* update_user, first transaction: the user as he is. *)
UpdateRead(c) ==
  \E r \in Requests :
    /\ r.op = "update" /\ AsAdmin /\ Arrives(c, r)
    /\ \/ \E n \in NameOf(r.id) :
            seen' = [seen EXCEPT ![c] = users[n]] /\ Goes(c, "select")
       \/ NameOf(r.id) = {} /\ Goes(c, "denied") /\ UNCHANGED seen
    /\ UNCHANGED <<db, userVars, tokenVars, row, faults>>

(* update_user, start of the second transaction: the row to write, which    *)
(* without a database is written at once.                                   *)
UpdateSelect(c) ==
  /\ pc[c] = "select"
  /\ LET found == NameOf(asked[c].id) IN
     \/ /\ found = {}
        /\ Goes(c, "denied") /\ UNCHANGED <<userVars, row>>
     \/ /\ db
        /\ \E n \in found : row' = [row EXCEPT ![c] = users[n]]
        /\ Goes(c, "write") /\ UNCHANGED userVars
     \/ /\ ~db
        /\ \E n \in found :
             Stores([users EXCEPT ![n] = Change([@ EXCEPT !.role = seen[c].role,
                      !.status = seen[c].status, !.password = seen[c].password], asked[c].change)])
        /\ Goes(c, "ok") /\ UNCHANGED row
  /\ UNCHANGED <<db, tokenVars, asked, seen, after, faults>>

(* update_user, end of the second transaction: SQLAlchemy writes the fields *)
(* whose new value is not the one it has just selected.                     *)
UpdateWrite(c) ==
  /\ pc[c] = "write"
  /\ LET next == Change(seen[c], asked[c].change)
         written(n, f) == IF next[f] = row[c][f] THEN users[n][f] ELSE next[f]
     IN \E n \in NameOf(asked[c].id) :
          Stores([users EXCEPT ![n].role = written(n, "role"), ![n].status = written(n, "status"),
                               ![n].password = written(n, "password")])
  /\ Commits(c, "ok")
  /\ UNCHANGED <<db, tokenVars, asked, seen, row, after>>

InsertsAlways(c, name, password, role, status) ==   \* mutant: names are not unique
  /\ Stores([users EXCEPT ![name] = [name |-> name, id |-> c, role |-> role,
                                     status |-> status, password |-> password]])
  /\ Commits(c, "ok")
(* The row of a new user: the table refuses a name that is taken, the       *)
(* dictionary replaces its entry.                                           *)
Inserts(c, name, password, role, status) ==
  IF db /\ users[name] # Absent
  THEN Goes(c, "error") /\ UNCHANGED <<userVars, faults>>
  ELSE /\ Stores([users EXCEPT ![name] = [name |-> name, id |-> c, role |-> role,
                                          status |-> status, password |-> password]])
       /\ Commits(c, "ok")

(* create_user: one transaction. *)
CreateUser(c) ==
  \E r \in Requests :
    /\ r.op = "create" /\ AsAdmin /\ Arrives(c, r)
    /\ Inserts(c, r.name, r.password, r.role, r.status)
    /\ UNCHANGED <<db, tokenVars, seen, row>>

(* bootstrap-admin: an existing user of that name is the answer; otherwise  *)
(* the table is counted and, when empty, gets the user, in transactions of  *)
(* their own.                                                               *)
BootstrapLook(c) ==
  \E r \in Requests :
    /\ r.op = "bootstrap" /\ Arrives(c, r)
    /\ Goes(c, IF users[r.name] # Absent THEN "ok" ELSE "count")
    /\ UNCHANGED <<db, userVars, tokenVars, seen, row, faults>>

BootstrapCountName(c) ==                       \* mutant: only the rows of that name count
  /\ pc[c] = "count"
  /\ Goes(c, IF users[asked[c].name] = Absent THEN "insert" ELSE "denied")
  /\ UNCHANGED <<db, userVars, tokenVars, asked, seen, row, after, faults>>

BootstrapCount(c) ==
  /\ pc[c] = "count"
  /\ Goes(c, IF RowsOf(users) = {} THEN "insert" ELSE "denied")
  /\ UNCHANGED <<db, userVars, tokenVars, asked, seen, row, after, faults>>

BootstrapInsert(c) ==
  /\ pc[c] = "insert"
  /\ Inserts(c, asked[c].name, asked[c].password, "admin", "active")
  /\ UNCHANGED <<db, tokenVars, asked, seen, row, after>>

Call(c) ==
  \/ Login(c) \/ RefreshToken(c) \/ RefreshUser(c) \/ RefreshRevoke(c) \/ IssueTokens(c)
  \/ Logout(c) \/ NotAdmin(c) \/ UpdateRead(c) \/ UpdateSelect(c) \/ UpdateWrite(c) \/ CreateUser(c)
  \/ BootstrapLook(c) \/ BootstrapCount(c) \/ BootstrapInsert(c) \/ Raise(c)

AccountsNext == (\E c \in Calls : Call(c)) \/ (\E i \in Ids : Expire(i))

AccountsSpec == AccountsInit /\ [][AccountsNext]_accountVars
------------------------------------------------------------------------------
AccountsTypeOK ==
  /\ db \in BOOLEAN
  /\ users \in [Names -> Users \cup {Absent}]
  /\ tokens \in [Ids -> Tokens \cup {Absent}]
  /\ access \in [Ids -> Roles \cup {Absent}]
  /\ asked \in [Calls -> Requests \cup {Absent}]
  /\ pc \in [Calls -> {"new"} \cup InFlight \cup Ended]
  /\ seen \in [Calls -> Users \cup {Absent}] /\ row \in [Calls -> Users \cup {Absent}]
  /\ after \in [Calls -> SUBSET Calls] /\ held \in [Calls -> SUBSET Users]
  /\ faults \in Nat

Acked(c, ops) == Asks(c, ops) /\ pc[c] = "ok"

(* An acknowledged change of a field stays until an update that did not     *)
(* begin after it: each update writes all the fields it read, but of two    *)
(* that change different fields one can undo the other only when they       *)
(* overlapped (auth_repo.py:132).                                           *)
AckedChangeStays ==
  \A u \in {c \in Calls : Acked(c, {"update"})}, f \in Fields :
    asked[u].change[f] # Absent =>
      \A n \in NameOf(asked[u].id) :
        \/ users[n][f] = asked[u].change[f]
        \/ \E w \in {c \in Calls : Asks(c, {"update"})} \ {u} :
             /\ asked[w].id = asked[u].id /\ w \notin after[u]
             /\ asked[w].change[f] # Absent \/ u \notin after[w]

(* A refresh token is good for one thing: once a refresh or a logout of it  *)
(* was acknowledged, a refresh of it that begins later is refused.  A       *)
(* refresh that is under way may still succeed, so the revocation has to be *)
(* committed before the answer and read before the new token is issued.     *)
SpentOnce ==
  \A c \in {d \in Calls : Asks(d, {"refresh"})}, e \in Calls :
    /\ Acked(e, {"refresh", "logout"}) /\ e \in after[c]
    /\ asked[e].token = asked[c].token
    => pc[c] = "denied"

(* The tokens of an answer are the truth about a user: at some moment of    *)
(* the call he was active, had the role of the access token, and, for a     *)
(* login, the name and the password of the request; a refresh continues the *)
(* user and the session of the token it exchanges.                          *)
GrantedAsHeld ==
  \A c \in {d \in Calls : Acked(d, {"login", "refresh"})} :
    \E user \in held[c] :
      /\ user.status = "active" /\ user.role = access[c] /\ user.id = tokens[c].user
      /\ IF asked[c].op = "login"
         THEN user.name = asked[c].name /\ user.password = asked[c].password
         ELSE LET old == tokens[asked[c].token] IN
              user.id = old.user /\ tokens[c].session = old.session

(* A session is not ended by a call that is refused: a revoked token was    *)
(* logged out, or a refresh of it has got past the check of its user.  (If  *)
(* the last transaction of that refresh raises, the session is over,        *)
(* service.py:148.)                                                         *)
RevokedForACause ==
  \A i \in Ids : tokens[i] # Absent /\ tokens[i].revoked =>
    \E c \in Calls :
      /\ Asks(c, {"logout", "refresh"}) /\ asked[c].token = i
      /\ asked[c].op = "refresh" => pc[c] \in {"issue", "ok", "error"}

(* The bootstrap creates the first user: there is no user whose creation    *)
(* had been answered before the bootstrap that created another one began    *)
(* (auth_repo.py:261; two that overlap may create an administrator each).   *)
BootstrapIsFirst ==
  \A n \in Names : users[n] # Absent /\ users[n].id \in Calls /\ Asks(users[n].id, {"bootstrap"}) =>
    \A m \in Names : users[m] # Absent => users[m].id \notin after[users[n].id] \cup {Seed}

(* With a database, a user whose creation was acknowledged keeps his name   *)
(* and id, whoever creates or bootstraps the same name at the same time.    *)
AckedUserIsKept ==
  db => \A c \in {d \in Calls : Acked(d, {"create"})} :
          users[asked[c].name] # Absent /\ users[asked[c].name].id = c
==============================================================================
