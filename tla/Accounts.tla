------------------------------ MODULE Accounts ------------------------------
(***************************************************************************)
(* Panel accounts: internal/panelusers/service.go and reseller.go run by   *)
(* concurrent requests, over the users table, the Linux accounts of the    *)
(* host and the MariaDB logins that go with an account.                    *)
(*                                                                         *)
(* A request is authenticated as an actor and reads its target before the  *)
(* service is called; the service reads what it checks, then writes, one   *)
(* statement or agent call at a time, and no lock is held in between.  A   *)
(* cancelled request fails at its next statement or dial, the one that     *)
(* would undo an earlier step included.                                    *)
(*                                                                         *)
(* What an account consumes (packages, quotas) is in Packages, what lets   *)
(* somebody sign in to it in Sessions.  A definition marked (slip) is a    *)
(* plausible mistake in the one it precedes and is used nowhere.           *)
(***************************************************************************)
EXTENDS Naturals, FiniteSets

CONSTANTS Names,         \* usernames, on the panel and on the host
          MaxId,         \* bound: ids the users table ever hands out
          NoUser,        \* an id that has no row
          Handlers,      \* request handlers that may run at the same time
          Ops,           \* the operations offered to them
          FirstUsers,    \* the accounts the panel starts with
          FirstLogins,   \* those of them that have a MariaDB login
          MaxRequests,   \* bound: requests begun in one behaviour
          AgentMayFail,  \* whether an agent action may answer an error
          MayCancel      \* whether a client may go away mid-request

Ids   == 1 .. MaxId
Roles == {"admin", "reseller", "end_user"}

User == [name: Names, role: Roles, parent: Ids \cup {0},
         suspended: BOOLEAN, uid: BOOLEAN]

AllOps == {"create", "adopt", "delete", "suspend", "resume", "role",
           "parent", "access", "site"}

ASSUME NoUserAssumption == NoUser \notin User
ASSUME BoundAssumption == MaxId \in Nat /\ MaxRequests \in Nat
ASSUME OpsAssumption == Ops \subseteq AllOps
ASSUME SwitchAssumption == AgentMayFail \in BOOLEAN /\ MayCancel \in BOOLEAN
(* The installer leaves an administrator, usernames are UNIQUE, a recorded *)
(* uid is a real one.                                                      *)
ASSUME FirstUsersAssumption ==
  /\ FirstUsers \in [Ids -> User \cup {NoUser}]
  /\ \E n \in 1 .. MaxId + 1 : \A i \in Ids : FirstUsers[i] # NoUser <=> i < n
  /\ \E i \in Ids : FirstUsers[i] # NoUser /\ FirstUsers[i].role = "admin"
                                           /\ ~ FirstUsers[i].suspended
  /\ FirstLogins \subseteq {i \in Ids : FirstUsers[i] # NoUser}
  /\ \A i, j \in Ids : FirstUsers[i] # NoUser /\ FirstUsers[j] # NoUser
                       /\ FirstUsers[i].name = FirstUsers[j].name => i = j

VARIABLES users,    \* the users table
          nextId,   \* AUTOINCREMENT
          hosted,   \* names that have a Linux account
          owners,   \* accounts that own a site or a database
          logins,   \* accounts whose login exists in MariaDB
          records,  \* accounts whose login the panel has a row for
          req,      \* each handler's request
          begun     \* requests begun so far

vars == <<users, nextId, hosted, owners, logins, records, req, begun>>

Resting == {"idle", "done", "failed"}
Steps == Resting \cup
  {"name", "insert", "account", "record", "password", "undo", "read", "counts",
   "admins", "login", "forget", "deleterow", "remove", "write", "reseller",
   "customer", "own"}

NoRequest == [op |-> "none", pc |-> "idle", actor |-> 0, id |-> 0,
              row |-> NoUser, seen |-> NoUser, live |-> TRUE]

Request == [op: AllOps \cup {"none"}, pc: Steps, actor: Ids \cup {0},
            id: Ids \cup {0}, row: User \cup {NoUser}, seen: User \cup {NoUser},
            live: BOOLEAN]

Live == {i \in Ids : users[i] # NoUser}

(* Its keys hold too: ids are not reused, owners and records name rows. *)
TypeOK ==
  /\ users \in [Ids -> User \cup {NoUser}]
  /\ nextId \in 1 .. MaxId + 1
  /\ hosted \subseteq Names
  /\ \A i \in Ids : i >= nextId => users[i] = NoUser
  /\ owners \subseteq Live /\ records \subseteq Live /\ logins \subseteq Ids
  /\ req \in [Handlers -> Request]
  /\ begun \in 0 .. MaxRequests

Init ==
  /\ users = FirstUsers
  /\ nextId \in 1 .. MaxId + 1
  /\ \A i \in Ids : FirstUsers[i] # NoUser <=> i < nextId
  /\ hosted = {FirstUsers[i].name : i \in {j \in Ids : FirstUsers[j] # NoUser /\ FirstUsers[j].uid}}
  /\ owners = {}
  /\ logins = FirstLogins
  /\ records = FirstLogins
  /\ req = [h \in Handlers |-> NoRequest]
  /\ begun = 0

-----------------------------------------------------------------------------
At(h, pc) == req[h].pc = pc
Running(h, pc) == At(h, pc) /\ req[h].live

Goto(h, pc) == req' = [req EXCEPT ![h].pc = pc]

Answer(h, pc) == req' = [req EXCEPT ![h].pc = pc, ![h].row = NoUser, ![h].seen = NoUser]

Leave(h, pc) == IF pc \in Resting THEN Answer(h, pc) ELSE Goto(h, pc)

NameFree(n) == \A i \in Live : users[i].name # n

(* auth.CanManage *)
CanManage(a, t) ==
  /\ a # t
  /\ \/ users[a].role = "admin"
     \/ /\ users[a].role = "reseller"
        /\ users[t].role = "end_user"
        /\ users[t].parent = a

(* Active administrators other than this account. *)
CountAdmins(t) ==
  Cardinality({i \in Live \ {t} : users[i].role = "admin" /\ ~ users[i].suspended})

(* DELETE under the foreign keys: customers lose their parent. *)
WithoutUser(t) ==
  [i \in Ids |-> IF i = t \/ users[i] = NoUser THEN NoUser
                 ELSE IF users[i].parent = t THEN [users[i] EXCEPT !.parent = 0]
                 ELSE users[i]]

(* A request arrives: who asks, about whom, and the row it wants. *)
Begin(h, op, pc, a, t, row) ==
  /\ req[h].pc \in Resting
  /\ op \in Ops
  /\ begun < MaxRequests
  /\ begun' = begun + 1
  /\ req' = [req EXCEPT ![h] = [NoRequest EXCEPT !.op = op, !.pc = pc, !.actor = a,
                                                 !.id = t, !.row = row]]
  /\ UNCHANGED <<users, nextId, hosted, owners, logins, records>>

NewUser(n, role, parent) ==
  [name |-> n, role |-> role, parent |-> parent, suspended |-> FALSE, uid |-> FALSE]

(* An account a reseller creates is an end user of its own; only an        *)
(* administrator creates staff, or names another parent ("adopt"), and the *)
(* handler passes on the parent it is given.                               *)
BeginCreate(h) ==
  \E a \in Live, n \in Names :
    /\ ~ users[a].suspended
    /\ \/ users[a].role = "reseller" /\ Begin(h, "create", "name", a, 0, NewUser(n, "end_user", a))
       \/ /\ users[a].role = "admin"
          /\ \E role \in Roles :
               \/ Begin(h, "create", "name", a, 0, NewUser(n, role, 0))
               \/ \E p \in Live : Begin(h, "adopt", "name", a, 0, NewUser(n, role, p))

(* The operations on somebody else's account; row is what it is to become: *)
(* a change of e-mail alone writes back the role that was read.            *)
BeginManage(h) ==
  \E a, t \in Live :
    /\ ~ users[a].suspended
    /\ \/ /\ CanManage(a, t)
          /\ \/ Begin(h, "delete", "read", a, t, users[t])
             \/ Begin(h, "suspend", "read", a, t, [users[t] EXCEPT !.suspended = TRUE])
             \/ Begin(h, "resume", "read", a, t, [users[t] EXCEPT !.suspended = FALSE])
             \/ \E role \in {users[t].role} \cup (IF users[a].role = "admin" THEN Roles ELSE {}) :
                  Begin(h, "role", "read", a, t, [users[t] EXCEPT !.role = role])
       \/ /\ users[a].role = "admin"
          /\ \/ Begin(h, "parent", "write", a, t, [users[t] EXCEPT !.parent = 0])
             \/ \E p \in Live : Begin(h, "parent", "reseller", a, t, [users[t] EXCEPT !.parent = p])

(* Its own: file access, or a first site. *)
BeginOwn(h) ==
  \E a \in Live :
    /\ ~ users[a].suspended
    /\ \/ Begin(h, "access", "read", a, a, users[a])
       \/ Begin(h, "site", "read", a, a, users[a])

-----------------------------------------------------------------------------
(* Create. *)

CheckName(h) ==
  /\ Running(h, "name")
  /\ IF NameFree(req[h].row.name) THEN Goto(h, "insert") ELSE Answer(h, "failed")
  /\ UNCHANGED <<users, nextId, hosted, owners, logins, records, begun>>

(* INSERT INTO users: username is UNIQUE and parent_id a foreign key. *)
InsertUser(h) ==
  /\ Running(h, "insert")
  /\ nextId \in Ids
  /\ LET r == req[h].row IN
     IF NameFree(r.name) /\ r.parent \in Live \cup {0}
     THEN /\ users' = [users EXCEPT ![nextId] = r]
          /\ nextId' = nextId + 1
          /\ IF r.role = "end_user"
             THEN req' = [req EXCEPT ![h].id = nextId, ![h].seen = r, ![h].pc = "account"]
             ELSE Answer(h, "done")
     ELSE Answer(h, "failed") /\ UNCHANGED <<users, nextId>>
  /\ UNCHANGED <<hosted, owners, logins, records, begun>>

(* (slip) The account is recorded whatever the agent answered. *)
MakeAccountSlip(h) ==
  /\ Running(h, "account")
  /\ \/ hosted' = hosted \cup {req[h].seen.name}
     \/ AgentMayFail /\ UNCHANGED hosted
  /\ Goto(h, "record")
  /\ UNCHANGED <<users, nextId, owners, logins, records, begun>>

(* linuxuser.create and create_staff return an existing account unchanged; *)
(* an error may come before useradd or after it, from the home directory.  *)
MakeAccount(h) ==
  /\ Running(h, "account")
  /\ \/ hosted' = hosted \cup {req[h].seen.name} /\ Goto(h, "record")
     \/ /\ AgentMayFail
        /\ hosted' \in {hosted, hosted \cup {req[h].seen.name}}
        /\ Leave(h, IF req[h].op \in {"create", "adopt"} THEN "undo" ELSE "failed")
  /\ UNCHANGED <<users, nextId, owners, logins, records, begun>>

(* SetUserLinuxAccount; an UPDATE of a row that is gone does nothing. *)
RecordAccount(h) ==
  /\ Running(h, "record")
  /\ users' = IF req[h].id \in Live THEN [users EXCEPT ![req[h].id].uid = TRUE] ELSE users
  /\ Goto(h, IF req[h].op = "site" THEN "own" ELSE "password")
  /\ UNCHANGED <<nextId, hosted, owners, logins, records, begun>>

(* The password of an account the panel does not manage is not set. *)
SetAccountPassword(h) ==
  /\ Running(h, "password")
  /\ \/ req[h].seen.name \in hosted /\ Answer(h, "done")
     \/ /\ req[h].seen.name \notin hosted \/ AgentMayFail
        /\ Answer(h, "failed")
  /\ UNCHANGED <<users, nextId, hosted, owners, logins, records, begun>>

(* Create takes its row back when there is no Linux account for it. *)
UndoCreate(h) ==
  /\ Running(h, "undo")
  /\ users' = IF req[h].id \in owners \cup records THEN users ELSE WithoutUser(req[h].id)
  /\ Answer(h, "failed")
  /\ UNCHANGED <<nextId, hosted, owners, logins, records, begun>>

-----------------------------------------------------------------------------
(* What the service does with the row it read; an administrator is not     *)
(* deleted, suspended or demoted before the others have been counted.      *)
AfterRead(op, was, new) ==
  CASE op = "delete"             -> "counts"
    [] op = "site"               -> IF was.uid THEN "own" ELSE "account"
    [] op = "access"             -> IF was.uid THEN "failed" ELSE "account"
    [] op = "suspend"            -> IF was.role = "admin" THEN "admins" ELSE "write"
    [] op = "resume"             -> "write"
    [] op = "role"               -> IF was.role = "admin" /\ new.role # "admin"
                                    THEN "admins" ELSE "write"

ReadTarget(h) ==
  /\ Running(h, "read")
  /\ LET was == users[req[h].id]
         next == AfterRead(req[h].op, was, req[h].row)
     IN  IF was = NoUser \/ next = "failed"
         THEN Answer(h, "failed")
         ELSE req' = [req EXCEPT ![h].seen = was, ![h].pc = next]
  /\ UNCHANGED <<users, nextId, hosted, owners, logins, records, begun>>

CheckLastAdmin(h) ==
  /\ Running(h, "admins")
  /\ IF CountAdmins(req[h].id) = 0 THEN Answer(h, "failed")
     ELSE Goto(h, IF req[h].op = "delete" THEN "login" ELSE "write")
  /\ UNCHANGED <<users, nextId, hosted, owners, logins, records, begun>>

(* The columns each operation writes, in the row as it is by then. *)
Written(op, was, new) ==
  IF op = "role" THEN [was EXCEPT !.role = new.role]
  ELSE IF op = "parent" THEN [was EXCEPT !.parent = new.parent]
  ELSE [was EXCEPT !.suspended = new.suspended]

(* SetUserSuspended, UpdateUserProfile, SetUserParent. *)
WriteUser(h) ==
  /\ Running(h, "write")
  /\ LET t == req[h].id IN
     \/ /\ req[h].op = "parent" /\ req[h].row.parent \notin Live \cup {0} /\ t \in Live
        /\ UNCHANGED users
        /\ Answer(h, "failed")
     \/ /\ req[h].op = "parent" => req[h].row.parent \in Live \cup {0} \/ t \notin Live
        /\ users' = IF t \in Live
                    THEN [users EXCEPT ![t] = Written(req[h].op, users[t], req[h].row)]
                    ELSE users
        /\ Answer(h, "done")
  /\ UNCHANGED <<nextId, hosted, owners, logins, records, begun>>

(* (slip) AssignParent does not look at what the parent is. *)
CheckResellerSlip(h) ==
  /\ Running(h, "reseller")
  /\ IF req[h].row.parent \in Live /\ req[h].row.parent # req[h].id
     THEN Goto(h, "customer") ELSE Answer(h, "failed")
  /\ UNCHANGED <<users, nextId, hosted, owners, logins, records, begun>>

(* AssignParent: the parent is a reseller, and not the account itself. *)
CheckReseller(h) ==
  /\ Running(h, "reseller")
  /\ LET p == req[h].row.parent IN
     IF p \in Live /\ users[p].role = "reseller" /\ p # req[h].id
     THEN Goto(h, "customer") ELSE Answer(h, "failed")
  /\ UNCHANGED <<users, nextId, hosted, owners, logins, records, begun>>

CheckCustomer(h) ==
  /\ Running(h, "customer")
  /\ LET t == req[h].id IN
     IF t \in Live /\ users[t].role = "end_user" THEN Goto(h, "write") ELSE Answer(h, "failed")
  /\ UNCHANGED <<users, nextId, hosted, owners, logins, records, begun>>

-----------------------------------------------------------------------------
(* Delete. *)

(* (slip) Only the row's own constraint stands in the way. *)
CheckOwnsNothingSlip(h) ==
  /\ Running(h, "counts")
  /\ Goto(h, IF req[h].seen.role = "admin" THEN "admins" ELSE "login")
  /\ UNCHANGED <<users, nextId, hosted, owners, logins, records, begun>>

CheckOwnsNothing(h) ==
  /\ Running(h, "counts")
  /\ IF req[h].id \in owners THEN Answer(h, "failed")
     ELSE Goto(h, IF req[h].seen.role = "admin" THEN "admins" ELSE "login")
  /\ UNCHANGED <<users, nextId, hosted, owners, logins, records, begun>>

(* dropDatabaseAccounts: on the server, then in the panel. *)
DropLogin(h) ==
  /\ Running(h, "login")
  /\ LET t == req[h].id IN
     \/ t \notin records /\ Goto(h, "deleterow") /\ UNCHANGED logins
     \/ t \in records /\ logins' = logins \ {t} /\ Goto(h, "forget")
     \/ t \in records /\ AgentMayFail /\ UNCHANGED logins /\ Answer(h, "failed")
  /\ UNCHANGED <<users, nextId, hosted, owners, records, begun>>

ForgetLogin(h) ==
  /\ Running(h, "forget")
  /\ records' = records \ {req[h].id}
  /\ Goto(h, "deleterow")
  /\ UNCHANGED <<users, nextId, hosted, owners, logins, begun>>

(* DELETE FROM users, RESTRICTed by sites, databases and logins. *)
DeleteRow(h) ==
  /\ Running(h, "deleterow")
  /\ LET t == req[h].id IN
     IF t \in Live /\ t \in owners \cup records
     THEN Answer(h, "failed") /\ UNCHANGED users
     ELSE /\ users' = WithoutUser(t)
          /\ Leave(h, IF req[h].seen.uid THEN "remove" ELSE "done")
  /\ UNCHANGED <<nextId, hosted, owners, logins, records, begun>>

(* linuxuser.delete, by name: nothing to do without an account; an error   *)
(* may come before userdel or after it, from the home directory.           *)
RemoveAccount(h) ==
  /\ Running(h, "remove")
  /\ \/ hosted' = hosted \ {req[h].seen.name} /\ Answer(h, "done")
     \/ /\ AgentMayFail
        /\ hosted' \in {hosted, hosted \ {req[h].seen.name}}
        /\ Answer(h, "failed")
  /\ UNCHANGED <<users, nextId, owners, logins, records, begun>>

-----------------------------------------------------------------------------
(* The site row, after EnsureAccount; owner_id is a foreign key. *)
OwnSite(h) ==
  /\ Running(h, "own")
  /\ IF req[h].id \in Live
     THEN owners' = owners \cup {req[h].id} /\ Answer(h, "done")
     ELSE UNCHANGED owners /\ Answer(h, "failed")
  /\ UNCHANGED <<users, nextId, hosted, logins, records, begun>>

(* The customer deletes what the account owns. *)
Relinquish ==
  /\ \E t \in owners : owners' = owners \ {t}
  /\ UNCHANGED <<users, nextId, hosted, logins, records, req, begun>>

Cancel(h) ==
  /\ MayCancel
  /\ req[h].pc \notin Resting
  /\ req[h].live
  /\ req' = [req EXCEPT ![h].live = FALSE]
  /\ UNCHANGED <<users, nextId, hosted, owners, logins, records, begun>>

Interrupted(h) ==
  /\ ~ req[h].live
  /\ req[h].pc \notin Resting
  /\ Answer(h, "failed")
  /\ UNCHANGED <<users, nextId, hosted, owners, logins, records, begun>>

Handle(h) ==
  \/ CheckName(h) \/ InsertUser(h) \/ MakeAccount(h) \/ RecordAccount(h)
  \/ SetAccountPassword(h) \/ UndoCreate(h) \/ ReadTarget(h) \/ CheckLastAdmin(h)
  \/ WriteUser(h) \/ CheckReseller(h) \/ CheckCustomer(h) \/ CheckOwnsNothing(h)
  \/ DropLogin(h) \/ ForgetLogin(h) \/ DeleteRow(h) \/ RemoveAccount(h)
  \/ OwnSite(h) \/ Interrupted(h)

Next ==
  \/ \E h \in Handlers : BeginCreate(h) \/ BeginManage(h) \/ BeginOwn(h) \/ Handle(h) \/ Cancel(h)
  \/ Relinquish

Spec == Init /\ [][Next]_vars
-----------------------------------------------------------------------------
Quiet == \A h \in Handlers : req[h].pc \in Resting

(* Nobody can be locked out of the panel: whatever is deleted, suspended   *)
(* or demoted, an active administrator is left.                            *)
AdminRemains == \E i \in Live : users[i].role = "admin" /\ ~ users[i].suspended

(* At rest, a row that records a Linux account has one.  EnsureAccount     *)
(* takes the record at its word and never looks again.                     *)
RecordedAccountExists ==
  Quiet => \A i \in Live : users[i].uid => users[i].name \in hosted

(* What AssignParent or a reseller's create puts under an account is a     *)
(* customer, and the account a reseller, by the tables as they are when it *)
(* is written.  An administrator's create may name any account as parent:  *)
(* the handler passes it on unchecked (user_handlers.go:85).               *)
AssignedUnderResellers ==
  [][\A i \in Live' : LET p == users'[i].parent IN
       p # 0 /\ (users[i] = NoUser \/ users[i].parent # p)
       => \/ users'[i].role = "end_user" /\ p \in Live /\ users'[p].role = "reseller"
          \/ users[i] = NoUser /\ \E h \in Handlers : At(h, "insert") /\ req[h].op = "adopt"]_vars

(* "One level only ... a forest of depth two" (00007_reseller.sql:6), what *)
(* lets every ownership check be one comparison.  Refuted: a create may    *)
(* name a customer as parent, and a customer with a parent may be made a   *)
(* reseller.                                                               *)
OneLevelOnly ==
  \A i \in Live : LET p == users[i].parent IN p # 0 => p \in Live /\ users[p].parent = 0

(* A create that answers an error, its client still there, leaves no row   *)
(* without a Linux account behind it.                                      *)
CreateLeavesNoHalf ==
  \A h \in Handlers :
    At(h, "failed") /\ req[h].op \in {"create", "adopt"} /\ req[h].live /\ req[h].id \in Live
      => users[req[h].id].name \in hosted

(* A delete drops the account's database login only when nothing is left   *)
(* that would refuse the row: not a site, not its being the last admin.    *)
RefusedDeleteKeepsLogin ==
  [][\A t \in logins \ logins' :
       t \notin owners /\ (t \in Live /\ users[t].role = "admin" => CountAdmins(t) > 0)]_vars

(* What every state keeps: its types, an administrator, the Linux account  *)
(* behind a row that records one, and no half of a create that was refused.*)
AccountsInv == TypeOK /\ AdminRemains /\ RecordedAccountExists /\ CreateLeavesNoHalf
=============================================================================
