--------------------------- MODULE AccountsProofs ---------------------------
(***************************************************************************)
(* What Accounts guarantees for every set of usernames and first accounts, *)
(* any call failing and any client leaving at any step: the types, however *)
(* many requests run at the same time; and, when they come one after the   *)
(* other, that every recorded Linux account exists, that no refused create *)
(* leaves a half, that an administrator remains, that a refused delete has *)
(* dropped no login, and that what is assigned is a customer to a reseller.*)
(*                                                                         *)
(* Shape says which operation may be at which step with what at hand;      *)
(* Knows what a request that is alone may still take for granted of what   *)
(* it read.                                                                *)
(***************************************************************************)
EXTENDS Accounts, FiniteSetTheorems, TLAPS

OneHandler == \A g, h \in Handlers : g = h

(* The steps of a request and what they have at hand.                      *)
Shape(q) ==
  /\ q.pc \notin Resting => q.row \in User
  /\ q.pc \in {"name", "insert"} => q.op \in {"create", "adopt"} /\ ~ q.row.uid /\ q.id = 0
  /\ q.pc \notin Resting \cup {"name", "insert"} => q.id \in Ids
  /\ q.pc \in {"account", "record", "password", "undo", "own", "counts", "admins", "login", "forget",
               "deleterow", "remove"} => q.seen \in User
  /\ q.pc = "undo" => q.op \in {"create", "adopt"}
  /\ q.pc = "account" => q.op \in {"create", "adopt", "access", "site"}
  /\ q.pc \in {"counts", "login", "forget", "deleterow", "remove"} => q.op = "delete"
  /\ q.pc = "record" => q.op \in {"create", "adopt", "access", "site"}
  /\ q.pc = "own" => q.op = "site"
  /\ q.pc = "read" => q.op \in {"delete", "suspend", "resume", "role", "access", "site"}
  /\ q.pc = "admins" => q.op \in {"delete", "suspend", "role"}
  /\ q.pc \in {"reseller", "customer"} => q.op = "parent"
  /\ q.pc = "write" => q.op \in {"suspend", "resume", "role", "parent"}
  /\ q.pc \in {"read", "write"} /\ q.op = "resume" => ~ q.row.suspended

(* The account a request is about has not changed since it was read.       *)
Same(q) ==
  q.id \in Live /\ users[q.id].name = q.seen.name /\ users[q.id].role = q.seen.role

OthersRemain(t) == \E i \in Live \ {t} : users[i].role = "admin" /\ ~ users[i].suspended

(* A customer under a reseller.                                            *)
UnderReseller(role, parent) ==
  parent # 0 => role = "end_user" /\ parent \in Live /\ users[parent].role = "reseller"

Knows(q) ==
  /\ q.pc \in {"name", "insert"} /\ q.op = "create" => UnderReseller(q.row.role, q.row.parent)
  /\ q.pc \in {"account", "record", "password"} => q.id \in Live /\ users[q.id].name = q.seen.name
  /\ q.pc \in {"account", "undo"} /\ q.op \in {"create", "adopt"} =>
       q.id \notin owners \cup records /\ (q.id \in Live => users[q.id].role = "end_user")
  /\ q.pc \in {"record", "password"} => q.seen.name \in hosted
  /\ q.pc \in {"counts", "login", "forget", "deleterow"} \/ (q.pc = "admins" /\ q.op = "delete") => Same(q)
  /\ q.pc \in {"login", "forget", "deleterow"} \/ (q.pc = "admins" /\ q.op = "delete") => q.id \notin owners
  /\ q.pc \in {"login", "forget", "deleterow"} /\ q.seen.role = "admin" => OthersRemain(q.id)
  /\ q.pc = "write" /\ q.id \in Live /\ users[q.id].role = "admin" =>
       (q.op = "suspend" \/ (q.op = "role" /\ q.row.role # "admin") => OthersRemain(q.id))
  /\ q.pc = "remove" => \A i \in Live : users[i].name # q.seen.name
  /\ q.pc = "customer" => q.row.parent \in Live /\ users[q.row.parent].role = "reseller"
  /\ q.pc = "write" /\ q.op = "parent" /\ q.id \in Live =>
       UnderReseller(users[q.id].role, q.row.parent)
  /\ q.pc = "failed" /\ q.op \in {"create", "adopt"} /\ q.live /\ q.id \in Live => users[q.id].name \in hosted

Unique == \A i, j \in Live : users[i].name = users[j].name => i = j
Recorded == \A i \in Live : users[i].uid => users[i].name \in hosted

AloneInv ==
  /\ Unique
  /\ Recorded
  /\ AdminRemains
  /\ \A h \in Handlers : Knows(req[h])

IInv ==
  /\ TypeOK
  /\ \A h \in Handlers : Shape(req[h])
  /\ OneHandler => AloneInv

-----------------------------------------------------------------------------
(* The parts of the invariant. *)

(* What TypeOK says of everything but the requests.                        *)
Tables ==
  /\ users \in [Ids -> User \cup {NoUser}]
  /\ nextId \in 1 .. MaxId + 1
  /\ hosted \subseteq Names
  /\ \A i \in Ids : i >= nextId => users[i] = NoUser
  /\ owners \subseteq Live /\ records \subseteq Live /\ logins \subseteq Ids
  /\ begun \in 0 .. MaxRequests

LEMMA TypesSplit == TypeOK <=> Tables /\ req \in [Handlers -> Request]
BY DEF TypeOK, Tables

LEMMA TypesSplitNext == TypeOK' <=> Tables' /\ req' \in [Handlers -> Request]
BY DEF TypeOK, Tables, Live

LEMMA IdsFacts == /\ 0 \notin Ids /\ Ids \subseteq Nat
                  /\ (Tables => nextId \in Nat)
<1>1. MaxId \in Nat
  BY BoundAssumption
<1> QED BY <1>1 DEF Ids, Tables

LEMMA StateFacts ==
  ASSUME IInv
  PROVE  /\ Tables /\ req \in [Handlers -> Request]
         /\ \A h \in Handlers : req[h] \in Request /\ Shape(req[h]) /\ (OneHandler => Knows(req[h]))
         /\ \A i \in Live : i \in Ids /\ users[i] \in User
         /\ users \in [Ids -> User \cup {NoUser}] /\ owners \subseteq Live /\ records \subseteq Live
         /\ logins \subseteq Ids /\ hosted \subseteq Names
BY TypesSplit DEF IInv, AloneInv, Tables, Live

(* What a request's record becomes. *)
LEMMA GotoStep ==
  ASSUME req \in [Handlers -> Request], NEW h \in Handlers, NEW pc \in Steps, Goto(h, pc)
  PROVE  \E q \in Request : /\ req' = [req EXCEPT ![h] = q]
                            /\ q.pc = pc /\ q.op = req[h].op /\ q.actor = req[h].actor /\ q.id = req[h].id
                            /\ q.row = req[h].row /\ q.seen = req[h].seen /\ q.live = req[h].live
<1>1. PICK q : q = [req[h] EXCEPT !.pc = pc]
  OBVIOUS
<1>2. req[h] \in Request
  OBVIOUS
<1>3. /\ q \in Request /\ q.pc = pc /\ q.op = req[h].op /\ q.actor = req[h].actor /\ q.id = req[h].id
      /\ q.row = req[h].row /\ q.seen = req[h].seen /\ q.live = req[h].live
  BY <1>1, <1>2 DEF Request
<1>4. req' = [req EXCEPT ![h] = q]
  BY <1>1 DEF Goto
<1> QED BY <1>3, <1>4

LEMMA AnswerStep ==
  ASSUME req \in [Handlers -> Request], NEW h \in Handlers, NEW pc \in {"done", "failed"}, Answer(h, pc)
  PROVE  \E q \in Request : /\ req' = [req EXCEPT ![h] = q]
                            /\ q.pc = pc /\ q.op = req[h].op /\ q.id = req[h].id /\ q.live = req[h].live
<1>1. PICK q : q = [[[req[h] EXCEPT !.pc = pc] EXCEPT !.row = NoUser] EXCEPT !.seen = NoUser]
  OBVIOUS
<1>2. req[h] \in Request /\ pc \in Steps
  BY DEF Steps, Resting
<1>3. q \in Request /\ q.pc = pc /\ q.op = req[h].op /\ q.id = req[h].id /\ q.live = req[h].live
  BY <1>1, <1>2 DEF Request
<1>4. req' = [req EXCEPT ![h] = q]
  BY <1>1 DEF Answer
<1> QED BY <1>3, <1>4

(* A step of one request.                                                  *)
LEMMA StepKeeps ==
  ASSUME IInv, NEW h \in Handlers, NEW q \in Request, req' = [req EXCEPT ![h] = q], Tables', Shape(q),
         OneHandler => (Unique /\ Recorded /\ AdminRemains /\ Knows(q))'
  PROVE  IInv'
<1>1. req' \in [Handlers -> Request] /\ req'[h] = q /\ \A g \in Handlers : g # h => req'[g] = req[g]
  BY StateFacts
<1>2. TypeOK'
  BY <1>1, TypesSplitNext
<1>3. \A g \in Handlers : Shape(req[g])'
  BY <1>1, StateFacts DEF Shape
<1>4. ASSUME OneHandler PROVE AloneInv'
  <2>1. \A g \in Handlers : g = h
    BY <1>4 DEF OneHandler
  <2>2. \A g \in Handlers : Knows(req[g])'
    BY <1>1, <1>4, <2>1
  <2> QED BY <1>4, <2>2 DEF AloneInv
<1> QED BY <1>2, <1>3, <1>4 DEF IInv

LEMMA SameTables ==
  ASSUME IInv, UNCHANGED <<users, nextId, hosted, owners, logins, records>>
  PROVE  /\ (begun' \in 0 .. MaxRequests => Tables')
         /\ (OneHandler => (Unique /\ Recorded /\ AdminRemains)')
         /\ \A q : Knows(q)' <=> Knows(q)
<1>1. begun' \in 0 .. MaxRequests => Tables'
  BY StateFacts DEF Tables, Live
<1>2. OneHandler => (Unique /\ Recorded /\ AdminRemains)'
  BY DEF IInv, AloneInv, Unique, Recorded, AdminRemains, Live
<1>3. \A q : Knows(q)' <=> Knows(q)
  BY DEF Knows, Same, OthersRemain, UnderReseller, Live
<1> QED BY <1>1, <1>2, <1>3

LEMMA ReadKeeps ==
  ASSUME IInv, NEW h \in Handlers, NEW q \in Request, req' = [req EXCEPT ![h] = q],
         UNCHANGED <<users, nextId, hosted, owners, logins, records, begun>>, Shape(q), OneHandler => Knows(q)
  PROVE  IInv'
<1>1. begun' \in 0 .. MaxRequests
  BY StateFacts DEF Tables
<1> QED BY <1>1, SameTables, StepKeeps

LEMMA Rests ==
  ASSUME NEW q, q.pc \in {"done", "failed"}
  PROVE  /\ Shape(q)
         /\ (q.pc = "failed" /\ q.op \in {"create", "adopt"} /\ q.live /\ q.id \in Live => users[q.id].name \in hosted)
              => Knows(q)
BY DEF Shape, Knows, Resting

LEMMA AnswerKeeps ==
  ASSUME IInv, NEW h \in Handlers, NEW pc \in {"done", "failed"}, Answer(h, pc),
         UNCHANGED <<users, nextId, hosted, owners, logins, records, begun>>,
         OneHandler /\ pc = "failed" /\ req[h].op \in {"create", "adopt"} /\ req[h].live /\ req[h].id \in Live
           => users[req[h].id].name \in hosted
  PROVE  IInv'
<1>1. PICK q \in Request : /\ req' = [req EXCEPT ![h] = q]
                           /\ q.pc = pc /\ q.op = req[h].op /\ q.id = req[h].id /\ q.live = req[h].live
  BY StateFacts, AnswerStep
<1>2. Shape(q) /\ (OneHandler => Knows(q))
  BY <1>1, Rests
<1> QED BY <1>1, <1>2, ReadKeeps

-----------------------------------------------------------------------------
(* The steps that read. *)

LEMMA CheckNameKeeps ==
  ASSUME IInv, NEW h \in Handlers, CheckName(h)
  PROVE  IInv'
<1>1. At(h, "name") /\ UNCHANGED <<users, nextId, hosted, owners, logins, records, begun>>
  BY DEF CheckName, Running
<1>2. CASE Goto(h, "insert")
  <2>1. "insert" \in Steps
    BY DEF Steps
  <2>2. PICK q \in Request : /\ req' = [req EXCEPT ![h] = q]
                             /\ q.pc = "insert" /\ q.op = req[h].op /\ q.id = req[h].id /\ q.row = req[h].row
    BY <1>2, <2>1, StateFacts, GotoStep
  <2>3. Shape(q)
    BY <1>1, <2>2, StateFacts DEF Shape, Resting, At
  <2>4. OneHandler => Knows(q)
    BY <1>1, <2>2, StateFacts DEF Knows, At
  <2> QED BY <1>1, <2>2, <2>3, <2>4, ReadKeeps
<1>3. CASE Answer(h, "failed")
  <2>1. req[h].id \notin Live
    BY <1>1, StateFacts, IdsFacts DEF Shape, At, Live
  <2> QED BY <1>1, <1>3, <2>1, AnswerKeeps
<1> QED BY <1>2, <1>3 DEF CheckName

LEMMA SetAccountPasswordKeeps ==
  ASSUME IInv, NEW h \in Handlers, SetAccountPassword(h)
  PROVE  IInv'
<1>1. At(h, "password") /\ UNCHANGED <<users, nextId, hosted, owners, logins, records, begun>>
  BY DEF SetAccountPassword, Running
<1>2. OneHandler => users[req[h].id].name \in hosted
  BY <1>1, StateFacts DEF Knows, At
<1>3. Answer(h, "done") \/ Answer(h, "failed")
  BY DEF SetAccountPassword
<1> QED BY <1>1, <1>2, <1>3, AnswerKeeps

LEMMA ReadTargetKeeps ==
  ASSUME IInv, NEW h \in Handlers, ReadTarget(h)
  PROVE  IInv'
<1>1. At(h, "read") /\ UNCHANGED <<users, nextId, hosted, owners, logins, records, begun>>
  BY DEF ReadTarget, Running
<1>2. PICK was, next : was = users[req[h].id] /\ next = AfterRead(req[h].op, was, req[h].row)
  OBVIOUS
<1>3. /\ req[h].id \in Ids /\ req[h].row \in User
      /\ req[h].op \in {"delete", "suspend", "resume", "role", "access", "site"}
      /\ req[h].op = "resume" => ~ req[h].row.suspended
  BY <1>1, StateFacts DEF Shape, At, Resting
<1>4. CASE Answer(h, "failed")
  BY <1>1, <1>3, <1>4, AnswerKeeps
<1>5. CASE was # NoUser /\ next # "failed" /\ req' = [req EXCEPT ![h].seen = was, ![h].pc = next]
  <2>1. was \in User /\ req[h].id \in Live
    BY <1>2, <1>3, <1>5, StateFacts DEF Live
  <2>2. /\ next \in {"counts", "own", "account", "admins", "write"}
        /\ next = "counts" => req[h].op = "delete"
        /\ next \in {"own", "account"} => req[h].op \in {"access", "site"}
        /\ next = "own" => req[h].op = "site"
        /\ next = "admins" => req[h].op \in {"suspend", "role"}
        /\ next = "write" => /\ req[h].op \in {"suspend", "resume", "role"}
                             /\ req[h].op = "suspend" => was.role # "admin"
                             /\ req[h].op = "role" => was.role # "admin" \/ req[h].row.role = "admin"
    BY <1>2, <1>3, <1>5 DEF AfterRead
  <2>3. next \in Steps
    BY <2>2 DEF Steps
  <2>4. PICK q : q = [[req[h] EXCEPT !.seen = was] EXCEPT !.pc = next]
    OBVIOUS
  <2>5. /\ q \in Request /\ q.pc = next /\ q.op = req[h].op /\ q.id = req[h].id /\ q.row = req[h].row
        /\ q.seen = was
    BY <2>1, <2>3, <2>4, StateFacts DEF Request
  <2>6. req' = [req EXCEPT ![h] = q]
    BY <1>5, <2>4
  <2>7. Shape(q)
    BY <1>3, <2>1, <2>2, <2>5 DEF Shape, Resting
  <2>8. Knows(q)
    BY <1>2, <2>1, <2>2, <2>5 DEF Knows, Same
  <2> QED BY <1>1, <2>5, <2>6, <2>7, <2>8, ReadKeeps
<1> QED BY <1>2, <1>4, <1>5 DEF ReadTarget

LEMMA CheckLastAdminKeeps ==
  ASSUME IInv, NEW h \in Handlers, CheckLastAdmin(h)
  PROVE  IInv'
<1>1. At(h, "admins") /\ UNCHANGED <<users, nextId, hosted, owners, logins, records, begun>>
  BY DEF CheckLastAdmin, Running
<1>2. /\ req[h].op \in {"delete", "suspend", "role"} /\ req[h].id \in Ids /\ req[h].seen \in User
  BY <1>1, StateFacts DEF Shape, At, Resting
<1>3. CASE Answer(h, "failed")
  BY <1>1, <1>2, <1>3, AnswerKeeps
<1>4. ASSUME NEW pc, pc = (IF req[h].op = "delete" THEN "login" ELSE "write"),
             Goto(h, pc), CountAdmins(req[h].id) # 0
      PROVE  IInv'
  <2>1. pc \in Steps
    BY <1>4 DEF Steps
  <2>2. PICK q \in Request : /\ req' = [req EXCEPT ![h] = q]
                             /\ q.pc = pc /\ q.op = req[h].op /\ q.id = req[h].id /\ q.row = req[h].row
                             /\ q.seen = req[h].seen
    BY <1>4, <2>1, StateFacts, GotoStep
  <2>3. OthersRemain(q.id)
    <3>1. {i \in Live \ {q.id} : users[i].role = "admin" /\ ~ users[i].suspended} # {}
      BY <1>4, <2>2, FS_EmptySet DEF CountAdmins
    <3> QED BY <3>1 DEF OthersRemain
  <2>4. req[h].row \in User
    BY <1>1, StateFacts DEF At, Shape, Resting
  <2>5. Shape(q)
    BY <1>2, <1>4, <2>2, <2>4 DEF Shape, Resting
  <2>6. OneHandler => Knows(q)
    BY <1>1, <1>2, <1>4, <2>2, <2>3, StateFacts DEF Knows, At, Same
  <2> QED BY <1>1, <2>2, <2>5, <2>6, ReadKeeps
<1> QED BY <1>3, <1>4 DEF CheckLastAdmin

LEMMA CheckResellerKeeps ==
  ASSUME IInv, NEW h \in Handlers, CheckReseller(h)
  PROVE  IInv'
<1>1. At(h, "reseller") /\ UNCHANGED <<users, nextId, hosted, owners, logins, records, begun>>
  BY DEF CheckReseller, Running
<1>2. req[h].op = "parent" /\ req[h].id \in Ids /\ req[h].row \in User
  BY <1>1, StateFacts DEF Shape, At, Resting
<1>3. CASE Answer(h, "failed")
  BY <1>1, <1>2, <1>3, AnswerKeeps
<1>4. CASE Goto(h, "customer") /\ req[h].row.parent \in Live /\ users[req[h].row.parent].role = "reseller"
  <2>1. "customer" \in Steps
    BY DEF Steps
  <2>2. PICK q \in Request : /\ req' = [req EXCEPT ![h] = q]
                             /\ q.pc = "customer" /\ q.op = req[h].op /\ q.id = req[h].id /\ q.row = req[h].row
    BY <1>4, <2>1, StateFacts, GotoStep
  <2>3. Shape(q) /\ Knows(q)
    BY <1>2, <1>4, <2>2 DEF Shape, Knows, Resting
  <2> QED BY <1>1, <2>2, <2>3, ReadKeeps
<1> QED BY <1>3, <1>4 DEF CheckReseller

LEMMA CheckCustomerKeeps ==
  ASSUME IInv, NEW h \in Handlers, CheckCustomer(h)
  PROVE  IInv'
<1>1. At(h, "customer") /\ UNCHANGED <<users, nextId, hosted, owners, logins, records, begun>>
  BY DEF CheckCustomer, Running
<1>2. req[h].op = "parent" /\ req[h].id \in Ids /\ req[h].row \in User
  BY <1>1, StateFacts DEF Shape, At, Resting
<1>3. CASE Answer(h, "failed")
  BY <1>1, <1>2, <1>3, AnswerKeeps
<1>4. CASE Goto(h, "write") /\ users[req[h].id].role = "end_user"
  <2>1. "write" \in Steps
    BY DEF Steps
  <2>2. PICK q \in Request : /\ req' = [req EXCEPT ![h] = q]
                             /\ q.pc = "write" /\ q.op = req[h].op /\ q.id = req[h].id /\ q.row = req[h].row
    BY <1>4, <2>1, StateFacts, GotoStep
  <2>3. Shape(q)
    BY <1>2, <2>2 DEF Shape, Resting
  <2>4. OneHandler => Knows(q)
    BY <1>1, <1>2, <1>4, <2>2, StateFacts DEF Knows, UnderReseller, At
  <2> QED BY <1>1, <2>2, <2>3, <2>4, ReadKeeps
<1> QED BY <1>3, <1>4 DEF CheckCustomer

LEMMA CheckOwnsNothingKeeps ==
  ASSUME IInv, NEW h \in Handlers, CheckOwnsNothing(h)
  PROVE  IInv'
<1>1. At(h, "counts") /\ UNCHANGED <<users, nextId, hosted, owners, logins, records, begun>>
  BY DEF CheckOwnsNothing, Running
<1>2. req[h].op = "delete" /\ req[h].id \in Ids /\ req[h].seen \in User /\ req[h].row \in User
  BY <1>1, StateFacts DEF Shape, At, Resting
<1>3. CASE Answer(h, "failed")
  BY <1>1, <1>2, <1>3, AnswerKeeps
<1>4. ASSUME NEW pc, pc = (IF req[h].seen.role = "admin" THEN "admins" ELSE "login"),
             Goto(h, pc), req[h].id \notin owners
      PROVE  IInv'
  <2>1. pc \in Steps
    BY <1>4 DEF Steps
  <2>2. PICK q \in Request : /\ req' = [req EXCEPT ![h] = q]
                             /\ q.pc = pc /\ q.op = req[h].op /\ q.id = req[h].id /\ q.row = req[h].row
                             /\ q.seen = req[h].seen
    BY <1>4, <2>1, StateFacts, GotoStep
  <2>3. Shape(q)
    BY <1>2, <1>4, <2>2 DEF Shape, Resting
  <2>4. OneHandler => Knows(q)
    BY <1>1, <1>2, <1>4, <2>2, StateFacts DEF Knows, At, Same
  <2> QED BY <1>1, <2>2, <2>3, <2>4, ReadKeeps
<1> QED BY <1>3, <1>4 DEF CheckOwnsNothing

(* The client leaves. *)
LEMMA CancelKeeps ==
  ASSUME IInv, NEW h \in Handlers, Cancel(h)
  PROVE  IInv'
<1>1. PICK q : q = [req[h] EXCEPT !.live = FALSE]
  OBVIOUS
<1>2. /\ q \in Request /\ q.pc = req[h].pc /\ q.op = req[h].op /\ q.id = req[h].id
      /\ q.row = req[h].row /\ q.seen = req[h].seen /\ q.live = FALSE
  BY <1>1, StateFacts DEF Request
<1>3. req' = [req EXCEPT ![h] = q] /\ UNCHANGED <<users, nextId, hosted, owners, logins, records, begun>>
  BY <1>1 DEF Cancel
<1>4. Shape(q) /\ (OneHandler => Knows(q))
  BY <1>2, StateFacts DEF Shape, Knows, Same
<1> QED BY <1>2, <1>3, <1>4, ReadKeeps

LEMMA InterruptedKeeps ==
  ASSUME IInv, NEW h \in Handlers, Interrupted(h)
  PROVE  IInv'
BY AnswerKeeps DEF Interrupted

-----------------------------------------------------------------------------
(* A request arrives. *)

LEMMA BegunKeeps ==
  ASSUME IInv, NEW h \in Handlers, NEW op \in AllOps, NEW pc \in Steps, NEW a \in Ids \cup {0}, NEW t \in Ids \cup {0},
         NEW row \in User, Begin(h, op, pc, a, t, row),
         \A q : q.op = op /\ q.pc = pc /\ q.id = t /\ q.row = row => Shape(q) /\ (OneHandler => Knows(q))
  PROVE  IInv'
<1>1. PICK q : q = [NoRequest EXCEPT !.op = op, !.pc = pc, !.actor = a, !.id = t, !.row = row]
  OBVIOUS
<1>2. q \in Request /\ q.op = op /\ q.pc = pc /\ q.id = t /\ q.row = row
  BY <1>1 DEF Request, NoRequest
<1>3. req' = [req EXCEPT ![h] = q] /\ UNCHANGED <<users, nextId, hosted, owners, logins, records>>
  BY <1>1 DEF Begin
<1>4. begun' \in 0 .. MaxRequests
  <2>1. begun \in Nat /\ begun < MaxRequests /\ begun' = begun + 1 /\ MaxRequests \in Nat
    BY StateFacts, BoundAssumption DEF Begin, Tables
  <2> QED BY ONLY <2>1
<1>5. Shape(q) /\ (OneHandler => Knows(q))
  BY <1>2
<1> QED BY <1>2, <1>3, <1>4, <1>5, SameTables, StepKeeps

LEMMA NewUserFacts ==
  ASSUME NEW n \in Names, NEW role \in Roles, NEW p \in Ids \cup {0}
  PROVE  /\ NewUser(n, role, p) \in User /\ NewUser(n, role, p).role = role /\ NewUser(n, role, p).parent = p
         /\ ~ NewUser(n, role, p).uid
BY DEF NewUser, User

LEMMA BeginCreateKeeps ==
  ASSUME IInv, NEW h \in Handlers, BeginCreate(h)
  PROVE  IInv'
<1>1. "create" \in AllOps /\ "adopt" \in AllOps /\ "name" \in Steps /\ "end_user" \in Roles
  BY DEF AllOps, Steps, Roles
<1>2. PICK a \in Live, n \in Names :
        \/ users[a].role = "reseller" /\ Begin(h, "create", "name", a, 0, NewUser(n, "end_user", a))
        \/ \E role \in Roles : \/ Begin(h, "create", "name", a, 0, NewUser(n, role, 0))
                               \/ \E p \in Live : Begin(h, "adopt", "name", a, 0, NewUser(n, role, p))
  BY Zenon DEF BeginCreate
<1>3. a \in Ids
  BY StateFacts
<1>4. ASSUME NEW role \in Roles, NEW p \in Ids \cup {0}, NEW op \in {"create", "adopt"},
             Begin(h, op, "name", a, 0, NewUser(n, role, p)), op = "create" => UnderReseller(role, p)
      PROVE  IInv'
  <2>1. PICK row : row = NewUser(n, role, p)
    OBVIOUS
  <2>2. row \in User /\ row.role = role /\ row.parent = p /\ ~ row.uid
    BY <2>1, NewUserFacts
  <2>3. \A q : q.op = op /\ q.pc = "name" /\ q.id = 0 /\ q.row = row => Shape(q) /\ (OneHandler => Knows(q))
    BY <1>4, <2>2 DEF Shape, Knows
  <2>4. op \in AllOps
    BY <1>1
  <2> QED BY <1>1, <1>3, <1>4, <2>1, <2>2, <2>3, <2>4, BegunKeeps
<1>5. CASE users[a].role = "reseller" /\ Begin(h, "create", "name", a, 0, NewUser(n, "end_user", a))
  <2>1. UnderReseller("end_user", a)
    BY <1>5 DEF UnderReseller
  <2> QED BY <1>1, <1>3, <1>4, <1>5, <2>1
<1>6. ASSUME NEW role \in Roles, Begin(h, "create", "name", a, 0, NewUser(n, role, 0)) PROVE IInv'
  <2>1. UnderReseller(role, 0)
    BY DEF UnderReseller
  <2> QED BY <1>4, <1>6, <2>1
<1>7. ASSUME NEW role \in Roles, NEW p \in Live, Begin(h, "adopt", "name", a, 0, NewUser(n, role, p)) PROVE IInv'
  <2>1. p \in Ids \cup {0}
    BY StateFacts
  <2> QED BY <1>4, <1>7, <2>1
<1> QED BY <1>2, <1>5, <1>6, <1>7

LEMMA BeginReadKeeps ==
  ASSUME IInv, NEW h \in Handlers, NEW op \in {"delete", "suspend", "resume", "role", "access", "site"},
         NEW a \in Live, NEW t \in Live, NEW row \in User, op = "resume" => ~ row.suspended,
         Begin(h, op, "read", a, t, row)
  PROVE  IInv'
<1>1. op \in AllOps /\ "read" \in Steps /\ a \in Ids /\ t \in Ids
  BY StateFacts DEF AllOps, Steps
<1>2. \A q : q.op = op /\ q.pc = "read" /\ q.id = t /\ q.row = row => Shape(q) /\ Knows(q)
  BY <1>1 DEF Shape, Knows, Resting
<1> QED BY <1>1, <1>2, BegunKeeps

LEMMA BeginManageKeeps ==
  ASSUME IInv, NEW h \in Handlers, BeginManage(h)
  PROVE  IInv'
<1>1. PICK a \in Live, t \in Live :
        \/ Begin(h, "delete", "read", a, t, users[t])
        \/ Begin(h, "suspend", "read", a, t, [users[t] EXCEPT !.suspended = TRUE])
        \/ Begin(h, "resume", "read", a, t, [users[t] EXCEPT !.suspended = FALSE])
        \/ \E role \in {users[t].role} \cup (IF users[a].role = "admin" THEN Roles ELSE {}) :
             Begin(h, "role", "read", a, t, [users[t] EXCEPT !.role = role])
        \/ Begin(h, "parent", "write", a, t, [users[t] EXCEPT !.parent = 0])
        \/ \E p \in Live : Begin(h, "parent", "reseller", a, t, [users[t] EXCEPT !.parent = p])
  BY Zenon DEF BeginManage
<1>2. users[t] \in User /\ t \in Ids /\ a \in Ids
  BY StateFacts
<1>3. CASE Begin(h, "delete", "read", a, t, users[t])
  BY <1>2, <1>3, BeginReadKeeps
<1>4. CASE Begin(h, "suspend", "read", a, t, [users[t] EXCEPT !.suspended = TRUE])
  <2>1. [users[t] EXCEPT !.suspended = TRUE] \in User
    BY <1>2 DEF User
  <2> QED BY <1>4, <2>1, BeginReadKeeps
<1>5. CASE Begin(h, "resume", "read", a, t, [users[t] EXCEPT !.suspended = FALSE])
  <2>1. [users[t] EXCEPT !.suspended = FALSE] \in User /\ ~ [users[t] EXCEPT !.suspended = FALSE].suspended
    BY <1>2 DEF User
  <2> QED BY <1>5, <2>1, BeginReadKeeps
<1>6. ASSUME NEW role \in {users[t].role} \cup (IF users[a].role = "admin" THEN Roles ELSE {}),
             Begin(h, "role", "read", a, t, [users[t] EXCEPT !.role = role])
      PROVE  IInv'
  <2>1. role \in Roles
    BY <1>2 DEF User
  <2>2. [users[t] EXCEPT !.role = role] \in User
    BY <1>2, <2>1 DEF User
  <2> QED BY <1>6, <2>2, BeginReadKeeps
<1>7. ASSUME NEW p \in Ids \cup {0}, NEW pc \in {"write", "reseller"}, pc = "write" => p = 0,
             Begin(h, "parent", pc, a, t, [users[t] EXCEPT !.parent = p])
      PROVE  IInv'
  <2>1. PICK row : row = [users[t] EXCEPT !.parent = p]
    OBVIOUS
  <2>2. row \in User /\ row.parent = p
    BY <1>2, <2>1 DEF User
  <2>3. "parent" \in AllOps /\ pc \in Steps
    BY DEF AllOps, Steps
  <2>4. \A q : q.op = "parent" /\ q.pc = pc /\ q.id = t /\ q.row = row => Shape(q) /\ Knows(q)
    BY <1>2, <1>7, <2>2 DEF Shape, Knows, UnderReseller, Resting
  <2> QED BY <1>2, <1>7, <2>1, <2>2, <2>3, <2>4, BegunKeeps
<1>8. \A p \in Live : p \in Ids \cup {0}
  BY StateFacts
<1> QED BY <1>1, <1>3, <1>4, <1>5, <1>6, <1>7, <1>8

LEMMA BeginOwnKeeps ==
  ASSUME IInv, NEW h \in Handlers, BeginOwn(h)
  PROVE  IInv'
<1>1. PICK a \in Live : Begin(h, "access", "read", a, a, users[a]) \/ Begin(h, "site", "read", a, a, users[a])
  BY DEF BeginOwn
<1>2. users[a] \in User
  BY StateFacts
<1> QED BY <1>1, <1>2, BeginReadKeeps

-----------------------------------------------------------------------------
(* The steps that write. *)

(* A row that changes keeps its name.                                      *)
LEMMA RowWritten ==
  ASSUME IInv, NEW t \in Live, NEW r \in User, r.name = users[t].name, users' = [users EXCEPT ![t] = r],
         UNCHANGED <<nextId, hosted, owners, logins, records, begun>>
  PROVE  /\ Tables' /\ Live' = Live /\ users'[t] = r /\ (\A i \in Live : i # t => users'[i] = users[i])
         /\ OneHandler => Unique'
         /\ OneHandler /\ (r.uid => r.name \in hosted) => Recorded'
         /\ OneHandler /\ (users[t].role = "admin" /\ (r.role # "admin" \/ r.suspended) => OthersRemain(t) \/ users[t].suspended)
              => AdminRemains'
<1>1. r # NoUser
  BY NoUserAssumption
<1>2. t \in Ids /\ users'[t] = r /\ \A i \in Ids : i # t => users'[i] = users[i]
  BY StateFacts
<1>3. Live' = Live
  BY <1>1, <1>2 DEF Live
<1>4. Tables'
  <2>1. \A i \in Ids : i >= nextId => users'[i] = NoUser
    BY <1>2, StateFacts DEF Tables, Live
  <2> QED BY <1>3, <2>1, StateFacts DEF Tables
<1>5. ASSUME OneHandler PROVE Unique'
  BY <1>2, <1>3, <1>5 DEF IInv, AloneInv, Unique, Live
<1>6. ASSUME OneHandler, r.uid => r.name \in hosted PROVE Recorded'
  BY <1>2, <1>3, <1>6 DEF IInv, AloneInv, Recorded, Live
<1>7. ASSUME OneHandler,
             users[t].role = "admin" /\ (r.role # "admin" \/ r.suspended) => OthersRemain(t) \/ users[t].suspended
      PROVE  AdminRemains'
  <2>1. PICK i \in Live : users[i].role = "admin" /\ ~ users[i].suspended
    BY <1>7 DEF IInv, AloneInv, AdminRemains
  <2>2. CASE i # t
    BY <1>2, <1>3, <2>1, <2>2 DEF AdminRemains, Live
  <2>3. CASE i = t /\ OthersRemain(t)
    BY <1>2, <1>3, <2>3 DEF AdminRemains, OthersRemain, Live
  <2>4. CASE i = t /\ r.role = "admin" /\ ~ r.suspended
    BY <1>2, <1>3, <2>4 DEF AdminRemains
  <2> QED BY <1>7, <2>1, <2>2, <2>3, <2>4
<1> QED BY <1>2, <1>3, <1>4, <1>5, <1>6, <1>7 DEF Live

(* A row that goes: nothing points to it.                                  *)
LEMMA RowGone ==
  ASSUME IInv, NEW t \in Ids, t \notin owners \cup records, users' = WithoutUser(t),
         UNCHANGED <<nextId, hosted, owners, logins, records, begun>>
  PROVE  /\ Tables' /\ Live' = Live \ {t}
         /\ \A i \in Live' : /\ users'[i].name = users[i].name /\ users'[i].role = users[i].role
                             /\ users'[i].uid = users[i].uid /\ users'[i].suspended = users[i].suspended
                             /\ users'[i].parent = users[i].parent \/ users'[i].parent = 0
         /\ OneHandler => Unique' /\ Recorded'
         /\ OneHandler /\ (t \in Live => users[t].role # "admin" \/ OthersRemain(t)) => AdminRemains'
<1>1. \A i \in Ids : users'[i] = IF i = t \/ users[i] = NoUser THEN NoUser
                                ELSE IF users[i].parent = t THEN [users[i] EXCEPT !.parent = 0] ELSE users[i]
  BY DEF WithoutUser
<1>2. ASSUME NEW i \in Live, i # t
      PROVE  /\ users'[i] \in User /\ users'[i].name = users[i].name /\ users'[i].role = users[i].role
             /\ users'[i].uid = users[i].uid /\ users'[i].suspended = users[i].suspended
             /\ users'[i].parent = users[i].parent \/ users'[i].parent = 0
  <2>1. users[i] \in User /\ i \in Ids /\ users[i] # NoUser
    BY StateFacts DEF Live
  <2>2. users'[i] = IF users[i].parent = t THEN [users[i] EXCEPT !.parent = 0] ELSE users[i]
    BY <1>1, <1>2, <2>1
  <2> QED BY <2>1, <2>2 DEF User
<1>3. \A i \in Ids : i \notin Live \ {t} => users'[i] = NoUser
  BY <1>1 DEF Live
<1>4. Live' = Live \ {t}
  BY <1>2, <1>3, NoUserAssumption DEF Live
<1>5. Tables'
  <2>1. users' \in [Ids -> User \cup {NoUser}]
    <3>1. \A i \in Ids : users'[i] \in User \cup {NoUser}
      BY <1>2, <1>3
    <3>2. users' = [i \in Ids |-> users'[i]]
      BY DEF WithoutUser
    <3> QED BY <3>1, <3>2
  <2>2. \A i \in Ids : i >= nextId => users'[i] = NoUser
    BY <1>3, StateFacts DEF Tables, Live
  <2>3. owners \subseteq Live' /\ records \subseteq Live'
    BY <1>4, StateFacts
  <2> QED BY <2>1, <2>2, <2>3, StateFacts DEF Tables
<1>6. ASSUME OneHandler PROVE Unique' /\ Recorded'
  <2>1. Unique /\ Recorded
    BY <1>6 DEF IInv, AloneInv
  <2>2. Unique'
    BY <1>2, <1>4, <2>1 DEF Unique
  <2>3. Recorded'
    BY <1>2, <1>4, <2>1 DEF Recorded
  <2> QED BY <2>2, <2>3
<1>7. ASSUME OneHandler, t \in Live => users[t].role # "admin" \/ OthersRemain(t) PROVE AdminRemains'
  <2>1. PICK i \in Live \ {t} : users[i].role = "admin" /\ ~ users[i].suspended
    BY <1>7 DEF IInv, AloneInv, AdminRemains, OthersRemain
  <2> QED BY <1>2, <1>4, <2>1 DEF AdminRemains
<1> QED BY <1>2, <1>4, <1>5, <1>6, <1>7

LEMMA InsertUserKeeps ==
  ASSUME IInv, NEW h \in Handlers, InsertUser(h)
  PROVE  IInv'
<1>1. At(h, "insert") /\ nextId \in Ids /\ UNCHANGED <<hosted, owners, logins, records, begun>>
  BY DEF InsertUser, Running
<1>2. /\ req[h].op \in {"create", "adopt"} /\ req[h].row \in User /\ ~ req[h].row.uid /\ req[h].id \notin Live
  BY <1>1, StateFacts, IdsFacts DEF Shape, At, Resting, Live
<1>3. PICK r \in User : r = req[h].row
  BY <1>2
<1>4. CASE Answer(h, "failed") /\ UNCHANGED <<users, nextId>>
  BY <1>1, <1>2, <1>4, AnswerKeeps
<1>5. ASSUME NameFree(r.name), users' = [users EXCEPT ![nextId] = r], nextId' = nextId + 1,
             NEW q \in Request, req' = [req EXCEPT ![h] = q], q.op = req[h].op,
             \/ /\ r.role = "end_user" /\ q.id = nextId /\ q.seen = r /\ q.pc = "account" /\ q.row \in User
             \/ q.pc = "done"
      PROVE  IInv'
  <2>1. PICK n : n = nextId
    OBVIOUS
  <2>2. n \in Ids /\ n \notin Live /\ r # NoUser
    BY <1>1, <2>1, StateFacts, NoUserAssumption DEF Tables, Live, Ids
  <2>3. users'[n] = r /\ \A i \in Ids : i # n => users'[i] = users[i]
    BY <1>5, <2>1, <2>2, StateFacts
  <2>4. Live' = Live \cup {n}
    BY <2>2, <2>3 DEF Live
  <2>5. Tables'
    <3>1. nextId' \in 1 .. MaxId + 1 /\ \A i \in Ids : i >= nextId' => i # n /\ i >= nextId
      <4>1. n \in 1 .. MaxId /\ nextId' = n + 1 /\ MaxId \in Nat
        BY <1>5, <2>1, <2>2, BoundAssumption DEF Ids
      <4> QED BY ONLY <2>1, <4>1 DEF Ids
    <3>2. \A i \in Ids : i >= nextId' => users'[i] = NoUser
      BY <2>3, <3>1, StateFacts DEF Tables
    <3>3. users' \in [Ids -> User \cup {NoUser}]
      BY <1>5, <2>1, StateFacts
    <3>4. begun \in 0 .. MaxRequests
      BY StateFacts DEF Tables
    <3> QED BY <1>1, <2>4, <3>1, <3>2, <3>3, <3>4, StateFacts DEF Tables
  <2>6. Shape(q)
    BY <1>2, <1>5, <2>1, <2>2 DEF Shape, Resting
  <2>7. ASSUME OneHandler PROVE (Unique /\ Recorded /\ AdminRemains /\ Knows(q))'
    <3>1. Unique /\ Recorded /\ AdminRemains
      BY <2>7 DEF IInv, AloneInv
    <3>2. \A i \in Live : i \in Ids /\ i # n
      BY <2>2 DEF Live
    <3>3. Unique'
      BY <1>5, <2>3, <2>4, <3>1, <3>2 DEF Unique, NameFree
    <3>4. Recorded'
      BY <1>1, <1>2, <1>3, <2>3, <2>4, <3>1, <3>2 DEF Recorded
    <3>5. AdminRemains'
      BY <2>3, <2>4, <3>1, <3>2 DEF AdminRemains
    <3>6. n \notin owners' \cup records'
      BY <1>1, <2>2, StateFacts
    <3>7. Knows(q)'
      BY <1>5, <2>1, <2>3, <2>4, <3>6 DEF Knows
    <3> QED BY <3>3, <3>4, <3>5, <3>7
  <2> QED BY <1>5, <2>5, <2>6, <2>7, StepKeeps
<1>6. CASE r.role = "end_user" /\ NameFree(r.name) /\ users' = [users EXCEPT ![nextId] = r] /\ nextId' = nextId + 1
           /\ req' = [req EXCEPT ![h].id = nextId, ![h].seen = r, ![h].pc = "account"]
  <2>1. PICK q : q = [[[req[h] EXCEPT !.id = nextId] EXCEPT !.seen = r] EXCEPT !.pc = "account"]
    OBVIOUS
  <2>2. "account" \in Steps /\ req[h] \in Request
    BY StateFacts DEF Steps
  <2>3. q \in Request /\ q.op = req[h].op /\ q.id = nextId /\ q.seen = r /\ q.pc = "account" /\ q.row = req[h].row
    BY <1>1, <2>1, <2>2 DEF Request
  <2>4. req' = [req EXCEPT ![h] = q]
    BY <1>6, <2>1
  <2> QED BY <1>2, <1>5, <1>6, <2>3, <2>4
<1>7. CASE NameFree(r.name) /\ users' = [users EXCEPT ![nextId] = r] /\ nextId' = nextId + 1 /\ Answer(h, "done")
  <2>1. PICK q \in Request : req' = [req EXCEPT ![h] = q] /\ q.pc = "done" /\ q.op = req[h].op
    BY <1>7, StateFacts, AnswerStep
  <2> QED BY <1>5, <1>7, <2>1
<1> QED BY <1>3, <1>4, <1>6, <1>7, Zenon DEF InsertUser

LEMMA MakeAccountKeeps ==
  ASSUME IInv, NEW h \in Handlers, MakeAccount(h)
  PROVE  IInv'
<1>1. /\ At(h, "account") /\ UNCHANGED <<users, nextId, owners, logins, records, begun>>
      /\ hosted' \in {hosted, hosted \cup {req[h].seen.name}}
  BY DEF MakeAccount, Running
<1>2. /\ req[h].op \in {"create", "adopt", "access", "site"} /\ req[h].id \in Ids /\ req[h].seen \in User
      /\ req[h].row \in User
  BY <1>1, StateFacts DEF Shape, At, Resting
<1>3. Tables'
  <2>1. hosted' \subseteq Names
    BY <1>1, <1>2, StateFacts DEF User
  <2> QED BY <1>1, <2>1, StateFacts DEF Tables, Live
<1>4. OneHandler => (Unique /\ Recorded /\ AdminRemains)' /\ Knows(req[h])
  <2>1. OneHandler => Unique /\ Recorded /\ AdminRemains /\ Knows(req[h])
    BY StateFacts DEF IInv, AloneInv
  <2> QED BY <1>1, <2>1 DEF Unique, Recorded, AdminRemains, Live
<1>5. CASE hosted' = hosted \cup {req[h].seen.name} /\ Goto(h, "record")
  <2>1. "record" \in Steps
    BY DEF Steps
  <2>2. PICK q \in Request : /\ req' = [req EXCEPT ![h] = q]
                             /\ q.pc = "record" /\ q.op = req[h].op /\ q.id = req[h].id /\ q.row = req[h].row
                             /\ q.seen = req[h].seen
    BY <1>5, <2>1, StateFacts, GotoStep
  <2>3. Shape(q)
    BY <1>2, <2>2 DEF Shape, Resting
  <2>4. OneHandler => Knows(q)'
    BY <1>1, <1>4, <1>5, <2>2 DEF Knows, At, Live
  <2> QED BY <1>3, <1>4, <2>2, <2>3, <2>4, StepKeeps
<1>6. CASE req[h].op \in {"create", "adopt"} /\ Goto(h, "undo")
  <2>1. "undo" \in Steps
    BY DEF Steps
  <2>2. PICK q \in Request : /\ req' = [req EXCEPT ![h] = q]
                             /\ q.pc = "undo" /\ q.op = req[h].op /\ q.id = req[h].id /\ q.row = req[h].row
                             /\ q.seen = req[h].seen
    BY <1>6, <2>1, StateFacts, GotoStep
  <2>3. Shape(q)
    BY <1>2, <1>6, <2>2 DEF Shape, Resting
  <2>4. OneHandler => Knows(q)'
    BY <1>1, <1>4, <1>6, <2>2 DEF Knows, At, Live
  <2> QED BY <1>3, <1>4, <2>2, <2>3, <2>4, StepKeeps
<1>7. CASE req[h].op \notin {"create", "adopt"} /\ Answer(h, "failed")
  <2>1. PICK q \in Request : req' = [req EXCEPT ![h] = q] /\ q.pc = "failed" /\ q.op = req[h].op
    BY <1>7, StateFacts, AnswerStep
  <2>2. Shape(q) /\ Knows(q)'
    BY <1>7, <2>1 DEF Shape, Knows, Resting
  <2> QED BY <1>3, <1>4, <2>1, <2>2, StepKeeps
<1> QED BY <1>5, <1>6, <1>7 DEF MakeAccount, Leave, Resting

LEMMA RecordAccountKeeps ==
  ASSUME IInv, NEW h \in Handlers, RecordAccount(h)
  PROVE  IInv'
<1>1. At(h, "record") /\ UNCHANGED <<nextId, hosted, owners, logins, records, begun>>
  BY DEF RecordAccount, Running
<1>2. req[h].id \in Ids /\ req[h].seen \in User /\ req[h].row \in User
  BY <1>1, StateFacts DEF Shape, At, Resting
<1>3. PICK pc : pc = IF req[h].op = "site" THEN "own" ELSE "password"
  OBVIOUS
<1>4. pc \in Steps /\ Goto(h, pc)
  BY <1>3 DEF Steps, RecordAccount
<1>5. PICK q \in Request : /\ req' = [req EXCEPT ![h] = q]
                           /\ q.pc = pc /\ q.op = req[h].op /\ q.id = req[h].id /\ q.row = req[h].row
                           /\ q.seen = req[h].seen
  BY <1>4, StateFacts, GotoStep
<1>6. Shape(q)
  BY <1>2, <1>3, <1>5 DEF Shape, Resting
<1>7. CASE req[h].id \notin Live
  <2>1. users' = users
    BY <1>7 DEF RecordAccount
  <2>2. OneHandler => Knows(q)
    BY <1>1, <1>7, StateFacts DEF Knows, At
  <2> QED BY <1>1, <1>5, <1>6, <2>1, <2>2, ReadKeeps
<1>8. CASE req[h].id \in Live
  <2>1. PICK t, r : t = req[h].id /\ r = [users[t] EXCEPT !.uid = TRUE]
    OBVIOUS
  <2>2. t \in Live /\ users[t] \in User
    BY <1>8, <2>1, StateFacts
  <2>3. r \in User /\ r.name = users[t].name /\ r.role = users[t].role /\ r.suspended = users[t].suspended
    BY <2>1, <2>2 DEF User
  <2>4. users' = [users EXCEPT ![t] = r]
    BY <1>8, <2>1 DEF RecordAccount
  <2>5. /\ Tables' /\ Live' = Live /\ users'[t] = r
        /\ OneHandler => Unique'
        /\ OneHandler /\ (r.uid => r.name \in hosted) => Recorded'
        /\ OneHandler => AdminRemains'
    BY <1>1, <2>2, <2>3, <2>4, RowWritten
  <2>6. ASSUME OneHandler PROVE r.name \in hosted /\ Knows(q)'
    <3>1. users[t].name = req[h].seen.name /\ req[h].seen.name \in hosted
      BY <1>1, <2>1, <2>6, StateFacts DEF Knows, At
    <3> QED BY <1>1, <1>3, <1>5, <2>1, <2>2, <2>3, <2>5, <3>1 DEF Knows
  <2> QED BY <1>5, <1>6, <2>5, <2>6, StepKeeps
<1> QED BY <1>7, <1>8

LEMMA UndoCreateKeeps ==
  ASSUME IInv, NEW h \in Handlers, UndoCreate(h)
  PROVE  IInv'
<1>1. At(h, "undo") /\ UNCHANGED <<nextId, hosted, owners, logins, records, begun>> /\ Answer(h, "failed")
  BY DEF UndoCreate, Running
<1>2. req[h].id \in Ids /\ req[h].op \in {"create", "adopt"}
  BY <1>1, StateFacts DEF Shape, At, Resting
<1>3. CASE req[h].id \in owners \cup records
  <2>1. users' = users
    BY <1>3 DEF UndoCreate
  <2>2. ~ OneHandler
    BY <1>1, <1>2, <1>3, StateFacts DEF Knows, At
  <2> QED BY <1>1, <2>1, <2>2, AnswerKeeps
<1>4. CASE req[h].id \notin owners \cup records
  <2>1. PICK t : t = req[h].id
    OBVIOUS
  <2>2. t \in Ids /\ t \notin owners \cup records /\ users' = WithoutUser(t)
    BY <1>2, <1>4, <2>1 DEF UndoCreate
  <2>3. PICK q \in Request : req' = [req EXCEPT ![h] = q] /\ q.pc = "failed" /\ q.id = t
    BY <1>1, <2>1, StateFacts, AnswerStep
  <2>4. Shape(q)
    BY <2>3, Rests
  <2>5. OneHandler /\ t \in Live => users[t].role # "admin"
    BY <1>1, <1>2, <2>1, StateFacts DEF Knows, At
  <2>6. /\ Tables' /\ Live' = Live \ {t}
        /\ OneHandler => (Unique /\ Recorded /\ AdminRemains)'
    BY <1>1, <2>2, <2>5, RowGone
  <2>7. Knows(q)'
    BY <2>3, <2>6 DEF Knows
  <2> QED BY <2>3, <2>4, <2>6, <2>7, StepKeeps
<1> QED BY <1>3, <1>4

LEMMA WriteUserKeeps ==
  ASSUME IInv, NEW h \in Handlers, WriteUser(h)
  PROVE  IInv'
<1>1. At(h, "write") /\ UNCHANGED <<nextId, hosted, owners, logins, records, begun>>
  BY DEF WriteUser, Running
<1>2. PICK t, row, op : t = req[h].id /\ row = req[h].row /\ op = req[h].op
  OBVIOUS
<1>3. t \in Ids /\ row \in User /\ op \in {"suspend", "resume", "role", "parent"} /\ (op = "resume" => ~ row.suspended)
  BY <1>1, <1>2, StateFacts DEF Shape, At, Resting
<1>4. CASE users' = users
  <2>1. Answer(h, "failed") \/ Answer(h, "done")
    BY DEF WriteUser
  <2> QED BY <1>1, <1>2, <1>3, <1>4, <2>1, AnswerKeeps
<1>5. CASE t \in Live /\ users' = [users EXCEPT ![t] = Written(op, users[t], row)] /\ Answer(h, "done")
  <2>1. PICK r : r = Written(op, users[t], row)
    OBVIOUS
  <2>2. users[t] \in User
    BY <1>5, StateFacts
  <2>3. /\ r \in User /\ r.name = users[t].name /\ r.uid = users[t].uid
        /\ op = "role" => r.role = row.role /\ r.suspended = users[t].suspended
        /\ op = "parent" => r.role = users[t].role /\ r.suspended = users[t].suspended
        /\ op \in {"suspend", "resume"} => r.role = users[t].role /\ r.suspended = row.suspended
    BY <1>3, <2>1, <2>2 DEF Written, User
  <2>4. OneHandler /\ users[t].role = "admin" /\ (r.role # "admin" \/ r.suspended)
          => OthersRemain(t) \/ users[t].suspended
    BY <1>1, <1>2, <1>3, <1>5, <2>3, StateFacts DEF Knows, At
  <2>5. OneHandler /\ r.uid => r.name \in hosted
    BY <1>5, <2>3 DEF IInv, AloneInv, Recorded
  <2>6. users' = [users EXCEPT ![t] = r]
    BY <1>5, <2>1
  <2>7. Tables' /\ (OneHandler => (Unique /\ Recorded /\ AdminRemains)')
    BY <1>1, <1>5, <2>3, <2>4, <2>5, <2>6, RowWritten
  <2>8. PICK q \in Request : req' = [req EXCEPT ![h] = q] /\ q.pc = "done"
    BY <1>5, StateFacts, AnswerStep
  <2>9. Shape(q) /\ Knows(q)'
    BY <2>8 DEF Shape, Knows, Resting
  <2> QED BY <2>7, <2>8, <2>9, StepKeeps
<1> QED BY <1>2, <1>4, <1>5 DEF WriteUser

LEMMA DropLoginKeeps ==
  ASSUME IInv, NEW h \in Handlers, DropLogin(h)
  PROVE  IInv'
<1>1. At(h, "login") /\ UNCHANGED <<users, nextId, hosted, owners, records, begun>>
  BY DEF DropLogin, Running
<1>2. req[h].op = "delete" /\ req[h].id \in Ids /\ req[h].seen \in User /\ req[h].row \in User
  BY <1>1, StateFacts DEF Shape, At, Resting
<1>3. CASE logins' = logins /\ Answer(h, "failed")
  BY <1>1, <1>2, <1>3, AnswerKeeps
<1>4. ASSUME NEW pc \in {"deleterow", "forget"}, Goto(h, pc), logins' \subseteq logins PROVE IInv'
  <2>1. pc \in Steps
    BY DEF Steps
  <2>2. PICK q \in Request : /\ req' = [req EXCEPT ![h] = q]
                             /\ q.pc = pc /\ q.op = req[h].op /\ q.id = req[h].id /\ q.row = req[h].row
                             /\ q.seen = req[h].seen
    BY <1>4, <2>1, StateFacts, GotoStep
  <2>3. Shape(q)
    BY <1>2, <2>2 DEF Shape, Resting
  <2>4. Tables'
    BY <1>1, <1>4, StateFacts DEF Tables, Live
  <2>5. ASSUME OneHandler PROVE (Unique /\ Recorded /\ AdminRemains /\ Knows(q))'
    <3>1. Unique /\ Recorded /\ AdminRemains /\ Knows(req[h])
      BY <2>5, StateFacts DEF IInv, AloneInv
    <3>2. (Unique /\ Recorded /\ AdminRemains)'
      BY <1>1, <3>1 DEF Unique, Recorded, AdminRemains, Live
    <3>3. Knows(q)'
      BY <1>1, <1>2, <2>2, <3>1 DEF Knows, At, Same, OthersRemain, Live
    <3> QED BY <3>2, <3>3
  <2> QED BY <2>2, <2>3, <2>4, <2>5, StepKeeps
<1> QED BY <1>3, <1>4 DEF DropLogin

LEMMA ForgetLoginKeeps ==
  ASSUME IInv, NEW h \in Handlers, ForgetLogin(h)
  PROVE  IInv'
<1>1. /\ At(h, "forget") /\ UNCHANGED <<users, nextId, hosted, owners, logins, begun>>
      /\ records' = records \ {req[h].id} /\ Goto(h, "deleterow")
  BY DEF ForgetLogin, Running
<1>2. req[h].op = "delete" /\ req[h].id \in Ids /\ req[h].seen \in User /\ req[h].row \in User
  BY <1>1, StateFacts DEF Shape, At, Resting
<1>3. "deleterow" \in Steps
  BY DEF Steps
<1>4. PICK q \in Request : /\ req' = [req EXCEPT ![h] = q]
                           /\ q.pc = "deleterow" /\ q.op = req[h].op /\ q.id = req[h].id /\ q.row = req[h].row
                           /\ q.seen = req[h].seen
  BY <1>1, <1>3, StateFacts, GotoStep
<1>5. Shape(q)
  BY <1>2, <1>4 DEF Shape, Resting
<1>6. Tables'
  BY <1>1, StateFacts DEF Tables, Live
<1>7. ASSUME OneHandler PROVE (Unique /\ Recorded /\ AdminRemains /\ Knows(q))'
  <2>1. Unique /\ Recorded /\ AdminRemains /\ Knows(req[h])
    BY <1>7, StateFacts DEF IInv, AloneInv
  <2>2. (Unique /\ Recorded /\ AdminRemains)'
    BY <1>1, <2>1 DEF Unique, Recorded, AdminRemains, Live
  <2>3. Knows(q)'
    BY <1>1, <1>2, <1>4, <2>1 DEF Knows, At, Same, OthersRemain, Live
  <2> QED BY <2>2, <2>3
<1> QED BY <1>4, <1>5, <1>6, <1>7, StepKeeps

LEMMA DeleteRowKeeps ==
  ASSUME IInv, NEW h \in Handlers, DeleteRow(h)
  PROVE  IInv'
<1>1. At(h, "deleterow") /\ UNCHANGED <<nextId, hosted, owners, logins, records, begun>>
  BY DEF DeleteRow, Running
<1>2. req[h].op = "delete" /\ req[h].id \in Ids /\ req[h].seen \in User /\ req[h].row \in User
  BY <1>1, StateFacts DEF Shape, At, Resting
<1>3. PICK t : t = req[h].id
  OBVIOUS
<1>4. CASE Answer(h, "failed") /\ users' = users
  BY <1>1, <1>2, <1>4, AnswerKeeps
<1>5. ASSUME t \notin owners \cup records, users' = WithoutUser(t),
             NEW q \in Request, req' = [req EXCEPT ![h] = q],
             \/ q.pc = "done"
             \/ q.pc = "remove" /\ q.op = "delete" /\ q.id = t /\ q.seen = req[h].seen /\ q.row \in User
      PROVE  IInv'
  <2>1. Shape(q)
    BY <1>2, <1>3, <1>5 DEF Shape, Resting
  <2>2. OneHandler /\ t \in Live => users[t].role # "admin" \/ OthersRemain(t)
    BY <1>1, <1>3, StateFacts DEF Knows, Same, At
  <2>3. /\ Tables' /\ Live' = Live \ {t} /\ (\A i \in Live' : users'[i].name = users[i].name)
        /\ OneHandler => (Unique /\ Recorded /\ AdminRemains)'
    BY <1>1, <1>2, <1>3, <1>5, <2>2, RowGone
  <2>4. ASSUME OneHandler PROVE Knows(q)'
    <3>1. Unique /\ t \in Live /\ users[t].name = req[h].seen.name
      BY <1>1, <1>3, <2>4, StateFacts DEF IInv, AloneInv, Knows, Same, At
    <3>2. \A i \in Live' : users'[i].name # req[h].seen.name
      BY <2>3, <3>1 DEF Unique
    <3> QED BY <1>5, <3>2 DEF Knows
  <2> QED BY <1>5, <2>1, <2>3, <2>4, StepKeeps
<1>6. CASE t \notin owners \cup records /\ users' = WithoutUser(t) /\ Goto(h, "remove")
  <2>1. "remove" \in Steps
    BY DEF Steps
  <2>2. PICK q \in Request : /\ req' = [req EXCEPT ![h] = q]
                             /\ q.pc = "remove" /\ q.op = req[h].op /\ q.id = req[h].id /\ q.row = req[h].row
                             /\ q.seen = req[h].seen
    BY <1>6, <2>1, StateFacts, GotoStep
  <2> QED BY <1>2, <1>3, <1>5, <1>6, <2>2
<1>7. CASE t \notin owners \cup records /\ users' = WithoutUser(t) /\ Answer(h, "done")
  <2>1. PICK q \in Request : req' = [req EXCEPT ![h] = q] /\ q.pc = "done"
    BY <1>7, StateFacts, AnswerStep
  <2> QED BY <1>5, <1>7, <2>1
<1>8. owners \subseteq Live /\ records \subseteq Live
  BY StateFacts
<1> QED BY <1>3, <1>4, <1>6, <1>7, <1>8 DEF DeleteRow, Leave, Resting

LEMMA RemoveAccountKeeps ==
  ASSUME IInv, NEW h \in Handlers, RemoveAccount(h)
  PROVE  IInv'
<1>1. /\ At(h, "remove") /\ UNCHANGED <<users, nextId, owners, logins, records, begun>>
      /\ hosted' \in {hosted, hosted \ {req[h].seen.name}}
      /\ Answer(h, "done") \/ Answer(h, "failed")
  BY DEF RemoveAccount, Running
<1>2. req[h].op = "delete"
  BY <1>1, StateFacts DEF Shape, At, Resting
<1>3. PICK q \in Request : req' = [req EXCEPT ![h] = q] /\ q.pc \in {"done", "failed"} /\ q.op = "delete"
  BY <1>1, <1>2, StateFacts, AnswerStep
<1>4. Shape(q) /\ Knows(q)'
  BY <1>3 DEF Shape, Knows, Resting
<1>5. Tables'
  BY <1>1, StateFacts DEF Tables, Live
<1>6. ASSUME OneHandler PROVE (Unique /\ Recorded /\ AdminRemains)'
  <2>1. Unique /\ Recorded /\ AdminRemains /\ (\A i \in Live : users[i].name # req[h].seen.name)
    BY <1>1, <1>6, StateFacts DEF IInv, AloneInv, Knows, At
  <2> QED BY <1>1, <2>1 DEF Unique, Recorded, AdminRemains, Live
<1> QED BY <1>3, <1>4, <1>5, <1>6, StepKeeps

LEMMA OwnSiteKeeps ==
  ASSUME IInv, NEW h \in Handlers, OwnSite(h)
  PROVE  IInv'
<1>1. At(h, "own") /\ UNCHANGED <<users, nextId, hosted, logins, records, begun>>
  BY DEF OwnSite, Running
<1>2. CASE owners' = owners /\ Answer(h, "failed")
  <2>1. OneHandler /\ req[h].op \in {"create", "adopt"} /\ req[h].live /\ req[h].id \in Live
          => users[req[h].id].name \in hosted
    BY <1>1, StateFacts DEF Shape, At
  <2> QED BY <1>1, <1>2, <2>1, AnswerKeeps
<1>3. CASE req[h].id \in Live /\ owners' = owners \cup {req[h].id} /\ Answer(h, "done")
  <2>1. PICK q \in Request : req' = [req EXCEPT ![h] = q] /\ q.pc = "done"
    BY <1>3, StateFacts, AnswerStep
  <2>2. Shape(q) /\ Knows(q)'
    BY <2>1 DEF Shape, Knows, Resting
  <2>3. Tables'
    BY <1>1, <1>3, StateFacts DEF Tables, Live
  <2>4. OneHandler => (Unique /\ Recorded /\ AdminRemains)'
    BY <1>1 DEF IInv, AloneInv, Unique, Recorded, AdminRemains, Live
  <2> QED BY <2>1, <2>2, <2>3, <2>4, StepKeeps
<1> QED BY <1>2, <1>3 DEF OwnSite

LEMMA RelinquishKeeps ==
  ASSUME IInv, Relinquish
  PROVE  IInv'
<1>1. UNCHANGED <<users, nextId, hosted, logins, records, req, begun>> /\ owners' \subseteq owners
  BY DEF Relinquish
<1>2. TypeOK'
  <2>1. Tables'
    BY <1>1, StateFacts DEF Tables, Live
  <2> QED BY <1>1, <2>1, StateFacts, TypesSplitNext
<1>3. \A h \in Handlers : Shape(req[h])'
  BY <1>1, StateFacts DEF Shape
<1>4. ASSUME OneHandler PROVE AloneInv'
  <2>1. AloneInv
    BY <1>4 DEF IInv
  <2>2. \A h \in Handlers : Knows(req[h])'
    BY <1>1, <2>1 DEF AloneInv, Knows, Same, OthersRemain, UnderReseller, Live
  <2> QED BY <1>1, <2>1, <2>2 DEF AloneInv, Unique, Recorded, AdminRemains, Live
<1> QED BY <1>2, <1>3, <1>4 DEF IInv

-----------------------------------------------------------------------------
LEMMA InitIInv == Init => IInv
<1> SUFFICES ASSUME Init PROVE IInv
  OBVIOUS
<1>1. users = FirstUsers /\ owners = {} /\ logins = FirstLogins /\ records = FirstLogins /\ begun = 0
      /\ nextId \in 1 .. MaxId + 1 /\ (\A i \in Ids : FirstUsers[i] # NoUser <=> i < nextId)
      /\ hosted = {FirstUsers[i].name : i \in {j \in Ids : FirstUsers[j] # NoUser /\ FirstUsers[j].uid}}
      /\ req = [h \in Handlers |-> NoRequest]
  BY DEF Init
<1>2. /\ FirstUsers \in [Ids -> User \cup {NoUser}]
      /\ FirstLogins \subseteq Live
      /\ \A i \in Live : FirstUsers[i] \in User
      /\ AdminRemains /\ Unique
  BY <1>1, FirstUsersAssumption DEF Live, AdminRemains, Unique
<1>3. Tables
  <2>1. hosted \subseteq Names
    BY <1>1, <1>2 DEF User, Live
  <2>2. begun \in 0 .. MaxRequests
    BY <1>1, BoundAssumption
  <2>3. \A i \in Ids : i >= nextId => users[i] = NoUser
    <3>1. \A i \in Ids : i >= nextId => ~ (i < nextId)
      BY <1>1, BoundAssumption DEF Ids
    <3> QED BY <1>1, <3>1
  <2> QED BY <1>1, <1>2, <2>1, <2>2, <2>3 DEF Tables, Live
<1>4. NoRequest \in Request /\ NoRequest.pc = "idle"
  BY DEF NoRequest, Request, Steps, Resting
<1>5. TypeOK
  BY <1>1, <1>3, <1>4, TypesSplit
<1>6. Shape(NoRequest) /\ Knows(NoRequest)
  BY <1>4 DEF Shape, Knows, Resting
<1>7. Recorded
  BY <1>1 DEF Recorded, Live
<1> QED BY <1>1, <1>2, <1>5, <1>6, <1>7 DEF IInv, AloneInv

LEMMA NextKeeps ==
  ASSUME IInv, [Next]_vars
  PROVE  IInv'
<1>1. CASE UNCHANGED vars
  <2>1. /\ UNCHANGED <<users, nextId, hosted, owners, logins, records, begun, req>>
    BY <1>1 DEF vars
  <2>2. TypeOK'
    <3>1. TypeOK
      BY DEF IInv
    <3> QED BY <2>1, <3>1 DEF TypeOK, Live
  <2>3. \A h \in Handlers : Shape(req[h])'
    BY <2>1 DEF IInv, Shape
  <2>4. ASSUME OneHandler PROVE Unique' /\ Recorded' /\ AdminRemains'
    BY <2>1, <2>4 DEF IInv, AloneInv, Unique, Recorded, AdminRemains, Live
  <2>5. ASSUME OneHandler, NEW h \in Handlers PROVE Knows(req[h])'
    <3>1. Knows(req[h])
      BY <2>5 DEF IInv, AloneInv
    <3> QED BY <2>1, <3>1 DEF Knows, Same, OthersRemain, UnderReseller, Live
  <2> QED BY <2>2, <2>3, <2>4, <2>5 DEF IInv, AloneInv
<1>2. ASSUME NEW h \in Handlers, BeginCreate(h) \/ BeginManage(h) \/ BeginOwn(h) \/ Cancel(h) PROVE IInv'
  BY <1>2, BeginCreateKeeps, BeginManageKeeps, BeginOwnKeeps, CancelKeeps
<1>3. ASSUME NEW h \in Handlers, Handle(h) PROVE IInv'
  BY <1>3, CheckNameKeeps, InsertUserKeeps, MakeAccountKeeps, RecordAccountKeeps, SetAccountPasswordKeeps,
     UndoCreateKeeps, ReadTargetKeeps, CheckLastAdminKeeps, WriteUserKeeps, CheckResellerKeeps, CheckCustomerKeeps,
     CheckOwnsNothingKeeps, DropLoginKeeps, ForgetLoginKeeps, DeleteRowKeeps, RemoveAccountKeeps, OwnSiteKeeps,
     InterruptedKeeps DEF Handle
<1> QED BY <1>1, <1>2, <1>3, RelinquishKeeps DEF Next

LEMMA Invariance == Spec => []IInv
<1>1. IInv /\ [Next]_vars => IInv'
  BY NextKeeps
<1> QED BY <1>1, InitIInv, PTL DEF Spec

-----------------------------------------------------------------------------
(* Whatever requests overlap, the tables hold what their columns may, no   *)
(* id is reused, and what an account owns, or has a login row for, names a *)
(* row: the foreign keys the service relies on instead of a lock.          *)
THEOREM TypesHold == Spec => []TypeOK
<1>1. IInv => TypeOK
  BY DEF IInv
<1> QED BY <1>1, Invariance, PTL

(* Requests one after the other, failing or abandoned at any step: an      *)
(* active administrator is left, because Delete, Suspend and a change of   *)
(* role count the others before they take one away; a row that records a   *)
(* Linux account has one (EnsureAccount takes the record at its word); and *)
(* a Create that answered an error to a client still there has taken back  *)
(* the row it inserted.                                                    *)
THEOREM AccountsAreSound ==
  ASSUME OneHandler
  PROVE  Spec => []AccountsInv
<1>1. IInv => AccountsInv
  BY DEF IInv, AloneInv, Recorded, Knows, AccountsInv, RecordedAccountExists, CreateLeavesNoHalf, At
<1> QED BY <1>1, Invariance, PTL

(* Requests one after the other: when Delete drops an account's login from *)
(* MariaDB, the checks that could still refuse the deletion are behind it, *)
(* and they are still true.                                                *)
LEMMA DropsAfterChecks ==
  ASSUME OneHandler, IInv, [Next]_vars, NEW t \in logins \ logins'
  PROVE  t \notin owners /\ (t \in Live /\ users[t].role = "admin" => CountAdmins(t) > 0)
<1>1. PICK h \in Handlers : DropLogin(h)
  <2>1. logins' # logins
    OBVIOUS
  <2>2. ASSUME NEW h \in Handlers, BeginCreate(h) \/ BeginManage(h) \/ BeginOwn(h) \/ Cancel(h) PROVE logins' = logins
    BY <2>2, ZenonT(60) DEF BeginCreate, BeginManage, BeginOwn, Begin, Cancel
  <2>3. ASSUME NEW h \in Handlers, Handle(h) PROVE DropLogin(h) \/ logins' = logins
    BY <2>3 DEF Handle, CheckName, InsertUser, MakeAccount, RecordAccount, SetAccountPassword, UndoCreate, ReadTarget,
                CheckLastAdmin, WriteUser, CheckReseller, CheckCustomer, CheckOwnsNothing, ForgetLogin, DeleteRow,
                RemoveAccount, OwnSite, Interrupted
  <2>4. Relinquish \/ UNCHANGED vars => logins' = logins
    BY DEF Relinquish, vars
  <2> QED BY <2>1, <2>2, <2>3, <2>4 DEF Next
<1>2. At(h, "login") /\ t = req[h].id
  BY <1>1 DEF DropLogin, Running
<1>3. t \notin owners /\ Same(req[h]) /\ (req[h].seen.role = "admin" => OthersRemain(t))
  BY <1>2, StateFacts DEF Knows, At
<1>4. ASSUME users[t].role = "admin" PROVE CountAdmins(t) > 0
  <2>1. PICK S : S = {i \in Live \ {t} : users[i].role = "admin" /\ ~ users[i].suspended}
    OBVIOUS
  <2>2. S # {}
    BY <1>2, <1>3, <1>4, <2>1 DEF Same, OthersRemain
  <2>3. IsFiniteSet(Ids)
    BY BoundAssumption, FS_Interval DEF Ids
  <2>4. IsFiniteSet(S)
    <3>1. S \subseteq Ids
      BY <2>1 DEF Live
    <3> QED BY <2>3, <3>1, FS_Subset
  <2>5. Cardinality(S) \in Nat /\ Cardinality(S) # 0
    BY <2>2, <2>4, FS_CardinalityType, FS_EmptySet
  <2>6. Cardinality(S) > 0
    BY <2>5
  <2> QED BY <2>1, <2>6 DEF CountAdmins
<1> QED BY <1>3, <1>4

THEOREM RefusedDeletesKeepLogins ==
  ASSUME OneHandler
  PROVE  Spec => RefusedDeleteKeepsLogin
<1>1. IInv /\ [Next]_vars =>
        [\A t \in logins \ logins' :
           t \notin owners /\ (t \in Live /\ users[t].role = "admin" => CountAdmins(t) > 0)]_vars
  BY DropsAfterChecks
<1> QED BY <1>1, Invariance, PTL DEF Spec, RefusedDeleteKeepsLogin

-----------------------------------------------------------------------------
(* The step hangs account i under an account it was not under, and the     *)
(* request is not one that names its parent unchecked.                     *)
Hung(i) ==
  /\ users'[i].parent # 0
  /\ users[i] = NoUser \/ users[i].parent # users'[i].parent
  /\ ~ (users[i] = NoUser /\ \E h \in Handlers : At(h, "insert") /\ req[h].op = "adopt")

HungRight(i) ==
  LET p == users'[i].parent IN
  users'[i].role = "end_user" /\ p \in Live /\ users'[p].role = "reseller"

(* Only a row that is inserted, or whose parent is written, is hung.       *)
LEMMA SameParents ==
  ASSUME NEW i \in Live', Hung(i),
         i \in Live => users'[i].parent = users[i].parent \/ users'[i].parent = 0
  PROVE  i \notin Live
BY DEF Hung, Live

LEMMA InsertHangs ==
  ASSUME OneHandler, IInv, NEW h \in Handlers, InsertUser(h), NEW i \in Live', Hung(i)
  PROVE  HungRight(i)
<1>1. At(h, "insert") /\ nextId \in Ids
  BY DEF InsertUser, Running
<1>2. PICK r, n : r = req[h].row /\ n = nextId
  OBVIOUS
<1>3. i \in Ids
  BY DEF Live
<1>4. CASE UNCHANGED users
  BY <1>3, <1>4 DEF Live, Hung
<1>5. CASE users' = [users EXCEPT ![n] = r]
  <2>1. n \in Ids /\ n \notin Live
    BY <1>1, <1>2, StateFacts DEF Tables, Live, Ids
  <2>2. users'[n] = r /\ \A j \in Ids : j # n => users'[j] = users[j]
    BY <1>5, <2>1, StateFacts
  <2>3. i = n
    BY <1>3, <2>2 DEF Hung, Live
  <2>4. req[h].op = "create"
    <3>1. req[h].op # "adopt"
      BY <1>1, <1>3, <2>1, <2>3 DEF Hung, Live
    <3> QED BY <1>1, <3>1, StateFacts DEF Shape, At
  <2>5. UnderReseller(r.role, r.parent)
    BY <1>1, <1>2, <2>4, StateFacts DEF Knows, At
  <2>6. r.role = "end_user" /\ r.parent \in Live /\ users[r.parent].role = "reseller"
    BY <2>2, <2>3, <2>5 DEF Hung, UnderReseller
  <2>7. users'[r.parent] = users[r.parent]
    BY <2>1, <2>2, <2>6, StateFacts
  <2> QED BY <2>2, <2>3, <2>6, <2>7 DEF HungRight
<1> QED BY <1>2, <1>4, <1>5 DEF InsertUser

LEMMA WriteHangs ==
  ASSUME OneHandler, IInv, NEW h \in Handlers, WriteUser(h), NEW i \in Live', Hung(i)
  PROVE  HungRight(i)
<1>1. At(h, "write")
  BY DEF WriteUser, Running
<1>2. PICK t, row, op : t = req[h].id /\ row = req[h].row /\ op = req[h].op
  OBVIOUS
<1>3. i \in Ids
  BY DEF Live
<1>4. CASE users' = users
  BY <1>3, <1>4 DEF Live, Hung
<1>5. CASE t \in Live /\ users' = [users EXCEPT ![t] = Written(op, users[t], row)]
  <2>1. PICK r : r = Written(op, users[t], row)
    OBVIOUS
  <2>2. users[t] \in User /\ t \in Ids
    BY <1>5, StateFacts
  <2>3. r.parent = (IF op = "parent" THEN row.parent ELSE users[t].parent)
    BY <2>1, <2>2 DEF Written, User
  <2>4. op = "parent" => r.role = users[t].role
    BY <2>1, <2>2 DEF Written, User
  <2>5. users'[t] = r /\ \A j \in Ids : j # t => users'[j] = users[j]
    BY <1>5, <2>1, <2>2, StateFacts
  <2>6. i = t /\ op = "parent" /\ row.parent # 0
    BY <1>3, <1>5, <2>3, <2>5 DEF Hung, Live
  <2>7. UnderReseller(users[t].role, row.parent)
    BY <1>1, <1>2, <1>5, <2>6, StateFacts DEF Knows, At
  <2>8. users[t].role = "end_user" /\ row.parent \in Live /\ users[row.parent].role = "reseller"
    BY <2>6, <2>7 DEF UnderReseller
  <2>9. row.parent # t /\ users'[row.parent] = users[row.parent]
    BY <2>5, <2>8, StateFacts
  <2> QED BY <2>3, <2>4, <2>5, <2>6, <2>8, <2>9 DEF HungRight
<1> QED BY <1>2, <1>4, <1>5 DEF WriteUser

LEMMA DeletionHangsNothing ==
  ASSUME IInv, NEW t \in Ids, users' = WithoutUser(t), NEW i \in Live'
  PROVE  ~ Hung(i)
<1>1. i \in Ids /\ users'[i] # NoUser
  BY DEF Live
<1>2. i # t /\ i \in Live /\ users'[i] = IF users[i].parent = t THEN [users[i] EXCEPT !.parent = 0] ELSE users[i]
  BY <1>1 DEF WithoutUser, Live
<1>3. users[i] \in User
  BY <1>2, StateFacts
<1>4. users'[i].parent = users[i].parent \/ users'[i].parent = 0
  BY <1>2, <1>3 DEF User
<1> QED BY <1>2, <1>4, SameParents

LEMMA RecordHangsNothing ==
  ASSUME IInv, NEW h \in Handlers, RecordAccount(h), NEW i \in Live'
  PROVE  ~ Hung(i)
<1>1. i \in Ids /\ users'[i] # NoUser
  BY DEF Live
<1>2. CASE users' = users
  BY <1>1, <1>2 DEF Hung
<1>3. CASE req[h].id \in Live /\ users' = [users EXCEPT ![req[h].id].uid = TRUE]
  <2>1. i \in Live /\ users[i] \in User
    BY <1>1, <1>3, StateFacts DEF Live
  <2>2. users'[i].parent = users[i].parent
    BY <1>1, <1>3, <2>1, StateFacts DEF User
  <2> QED BY <2>1, <2>2, SameParents
<1> QED BY <1>2, <1>3 DEF RecordAccount

LEMMA HangsRight ==
  ASSUME OneHandler, IInv, [Next]_vars, NEW i \in Live', Hung(i)
  PROVE  HungRight(i)
<1>1. users' # users
  BY DEF Hung, Live
<1>2. ASSUME NEW h \in Handlers, BeginCreate(h) \/ BeginManage(h) \/ BeginOwn(h) \/ Cancel(h) PROVE users' = users
  BY <1>2, ZenonT(60) DEF BeginCreate, BeginManage, BeginOwn, Begin, Cancel
<1>3. ASSUME NEW h \in Handlers, Handle(h)
      PROVE  \/ InsertUser(h) \/ RecordAccount(h) \/ UndoCreate(h) \/ WriteUser(h) \/ DeleteRow(h)
             \/ users' = users
  BY <1>3 DEF Handle, CheckName, MakeAccount, SetAccountPassword, ReadTarget, CheckLastAdmin, CheckReseller,
              CheckCustomer, CheckOwnsNothing, DropLogin, ForgetLogin, RemoveAccount, OwnSite, Interrupted
<1>4. Relinquish \/ UNCHANGED vars => users' = users
  BY DEF Relinquish, vars
<1>5. PICK h \in Handlers : InsertUser(h) \/ RecordAccount(h) \/ UndoCreate(h) \/ WriteUser(h) \/ DeleteRow(h)
  BY <1>1, <1>2, <1>3, <1>4 DEF Next
<1>6. CASE UndoCreate(h) \/ DeleteRow(h)
  <2>1. req[h].id \in Ids
    BY <1>6, StateFacts DEF UndoCreate, DeleteRow, Running, At, Shape, Resting
  <2>2. users' = WithoutUser(req[h].id)
    BY <1>1, <1>6 DEF UndoCreate, DeleteRow
  <2> QED BY <2>1, <2>2, DeletionHangsNothing
<1> QED BY <1>5, <1>6, InsertHangs, WriteHangs, RecordHangsNothing

(* Requests one after the other: what AssignParent or a reseller's create  *)
(* puts under an account is a customer, and that account is a reseller, by *)
(* what the tables say when it is written and not when it was checked.     *)
THEOREM CustomersAreAssignedToResellers ==
  ASSUME OneHandler
  PROVE  Spec => AssignedUnderResellers
<1>1. ASSUME IInv, [Next]_vars
      PROVE  \A i \in Live' : LET p == users'[i].parent IN
               p # 0 /\ (users[i] = NoUser \/ users[i].parent # p)
               => \/ users'[i].role = "end_user" /\ p \in Live /\ users'[p].role = "reseller"
                  \/ users[i] = NoUser /\ \E h \in Handlers : At(h, "insert") /\ req[h].op = "adopt"
  BY <1>1, HangsRight DEF Hung, HungRight
<1>2. IInv /\ [Next]_vars =>
        [\A i \in Live' : LET p == users'[i].parent IN
           p # 0 /\ (users[i] = NoUser \/ users[i].parent # p)
           => \/ users'[i].role = "end_user" /\ p \in Live /\ users'[p].role = "reseller"
              \/ users[i] = NoUser /\ \E h \in Handlers : At(h, "insert") /\ req[h].op = "adopt"]_vars
  BY <1>1
<1> QED BY <1>2, Invariance, PTL DEF Spec, AssignedUnderResellers
=============================================================================
