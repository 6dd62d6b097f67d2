----------------------------- MODULE SitesProofs -----------------------------
(***************************************************************************)
(* What Sites guarantees for every set of handlers, hostnames, accounts    *)
(* and operations: the types, that a create which answers an error has     *)
(* left no row while its client is there, and that one which answers       *)
(* success is served. Then what requests one after the other guarantee     *)
(* (OneHandler): suspensions hold, purges withdraw a site before its       *)
(* files, a site's files are never nowhere and stay where the row says     *)
(* while no move fails, and what is served is what the table describes.    *)
(*                                                                         *)
(* CreateUnwinds is not inductive: a failed create's id must also never be *)
(* handed out again (Fresh, IdsUsed), a create must have no id before its  *)
(* row exists and must only reach its error answer through the step that   *)
(* removes the row (InStep). The others build on the same invariant, each  *)
(* with what a request may count on at each of its steps.                  *)
(***************************************************************************)
EXTENDS Sites, TLAPS

(* Which steps belong to which operations, and what each has at hand. *)
InStep(q) ==
  /\ q.op = "create" /\ q.pc \in {"hostnames", "limit", "insert"} => q.id = 0
  /\ q.pc \in {"insert", "provision"} => q.op = "create"
  /\ q.pc \in {"move", "setowner"} => q.op = "chown"
  /\ q.pc \in {"drop", "remove"} => q.op \in Deletes
  /\ q.pc = "issue" => q.op = "issue"
  /\ q.pc = "write" => q.op \in Updates \cup {"issue", "attach", "disable"}
  /\ q.pc = "reread" => q.op \in Updates
  /\ q.pc = "limit" => q.op \in {"create", "chown"}
  /\ q.pc = "hostnames" => q.op \in {"create", "realias"}
  /\ q.pc \notin Resting => q.row \in Row
  /\ q.op = "chown" /\ q.pc \notin Resting => q.prev \in Row
  /\ q.op \in Updates /\ q.pc \in {"write", "snapshot", "apply", "unwind"} => q.prev \in Row
  /\ q.pc \notin Resting \cup {"hostnames", "limit", "insert"} => q.id \in Ids
  /\ q.op # "create" /\ q.pc \notin Resting => q.id \in Ids

AllInStep == \A h \in Handlers : InStep(req[h])

(* Ids are handed out in order and never twice. *)
Fresh == \A i \in Ids : i >= nextId => table[i] = NoRow
IdsUsed == \A h \in Handlers : req[h].op = "create" /\ req[h].id # 0 => req[h].id < nextId

IInv == TypeOK /\ AllInStep /\ Fresh /\ IdsUsed /\ CreateUnwinds

-----------------------------------------------------------------------------
(* The statements keep the table a table, and the id they do not name.     *)
LEMMA StatementTypes ==
  ASSUME NEW t \in Table, NEW i \in Ids, NEW r \in Row, NEW o \in Owners
  PROVE  /\ CreateSite(t, i, r) \in Table
         /\ DeleteSite(t, i) \in Table
         /\ UpdateSite(t, i, r) \in Table
         /\ UpdateSiteOwner(t, i, o) \in Table
<1>1. [r EXCEPT !.cert = FALSE] \in Row
  BY DEF Row
<1>2. t[i] # NoRow => [r EXCEPT !.domain = t[i].domain, !.owner = t[i].owner] \in Row
  BY DEF Row, Table
<1>3. t[i] # NoRow => [[t[i] EXCEPT !.owner = o] EXCEPT !.home = o] \in Row
  BY DEF Row, Table
<1>4. UpdateSiteOwner(t, i, o) \in Table
  <2>1. CASE t[i] = NoRow
    BY <2>1 DEF UpdateSiteOwner
  <2>2. CASE t[i] # NoRow
    <3>1. UpdateSiteOwner(t, i, o) = [t EXCEPT ![i] = [[t[i] EXCEPT !.owner = o] EXCEPT !.home = o]]
      BY <2>2 DEF UpdateSiteOwner, Table
    <3>2. QED
      BY <3>1, <1>3, <2>2 DEF Table
  <2>3. QED
    BY <2>1, <2>2
<1>5. QED
  BY <1>1, <1>2, <1>4 DEF Table, CreateSite, DeleteSite, UpdateSite

(* An update makes no row where there is none, and rows with other ids are *)
(* as they were.                                                           *)
LEMMA StatementFrame ==
  ASSUME NEW t \in Table, NEW i \in Ids, NEW r \in Row, NEW o \in Owners, NEW j \in Ids
  PROVE  /\ j # i => /\ CreateSite(t, i, r)[j] = t[j]
                     /\ DeleteSite(t, i)[j] = t[j]
                     /\ UpdateSite(t, i, r)[j] = t[j]
                     /\ UpdateSiteOwner(t, i, o)[j] = t[j]
         /\ DeleteSite(t, i)[i] = NoRow
         /\ t[j] = NoRow => /\ UpdateSite(t, i, r)[j] = NoRow
                            /\ UpdateSiteOwner(t, i, o)[j] = NoRow
                            /\ DeleteSite(t, i)[j] = NoRow
BY DEF Table, CreateSite, DeleteSite, UpdateSite, UpdateSiteOwner

-----------------------------------------------------------------------------
(* One handler takes a step: what is asked of its new request and of the   *)
(* table for the invariant to survive.                                     *)
LEMMA HandlerStep ==
  ASSUME IInv, NEW h \in Handlers, NEW q \in Request,
         req' = [req EXCEPT ![h] = q],
         InStep(q),
         q.op = "create" /\ q.id # 0 => q.id < nextId',
         q.op = "create" /\ q.id # 0 /\ q.pc = "failed" /\ q.live => table'[q.id] = NoRow,
         table' \in Table,
         nextId' \in 1 .. MaxId + 1,
         nextId' >= nextId,
         \A j \in Ids : j < nextId /\ table[j] = NoRow => table'[j] = NoRow,
         \A j \in Ids : j >= nextId' => table'[j] = NoRow,
         files' \subseteq Owners \X Hosts,
         served' \subseteq Row,
         late' \subseteq LateCall,
         begun' \in 0 .. MaxRequests
  PROVE  IInv'
<1> USE DEF IInv
<1>1. req' \in [Handlers -> Request]
  BY DEF TypeOK
<1>2. TypeOK'
  BY <1>1 DEF TypeOK
<1>3. \A g \in Handlers : req'[g] = IF g = h THEN q ELSE req[g]
  BY DEF TypeOK
<1>4. AllInStep'
  BY <1>3 DEF AllInStep
<1>5. Fresh'
  BY DEF Fresh
<1>6. nextId \in Nat /\ nextId' \in Nat /\ \A g \in Handlers : req[g].id \in Ids \cup {0}
  BY DEF TypeOK, Request
<1>7. IdsUsed'
  BY <1>3, <1>6 DEF IdsUsed, Ids
<1>8. CreateUnwinds'
  <2> SUFFICES ASSUME NEW g \in Handlers,
                      req'[g].pc = "failed", req'[g].op = "create", req'[g].live,
                      req'[g].id # 0
               PROVE  table'[req'[g].id] = NoRow
    BY DEF CreateUnwinds, At
  <2>1. CASE g = h
    BY <2>1, <1>3
  <2>2. CASE g # h
    <3>1. req'[g] = req[g]
      BY <2>2, <1>3
    <3>2. table[req[g].id] = NoRow /\ req[g].id < nextId /\ req[g].id \in Ids
      BY <3>1, <1>6 DEF CreateUnwinds, IdsUsed, At
    <3>3. QED
      BY <3>1, <3>2
  <2>3. QED
    BY <2>1, <2>2
<1>9. QED
  BY <1>2, <1>4, <1>5, <1>7, <1>8

(* The steps that leave the table and the served configuration alone. *)
LEMMA RequestStep ==
  ASSUME IInv, NEW h \in Handlers, NEW q \in Request,
         req' = [req EXCEPT ![h] = q],
         InStep(q),
         q.op = "create" /\ q.id # 0 => q.id < nextId,
         q.op = "create" /\ q.id # 0 /\ q.pc = "failed" /\ q.live => table[q.id] = NoRow,
         UNCHANGED <<table, nextId, served>>,
         files' \subseteq Owners \X Hosts,
         late' \subseteq LateCall,
         begun' \in 0 .. MaxRequests
  PROVE  IInv'
<1>1. table \in Table /\ nextId \in 1 .. MaxId + 1 /\ nextId >= nextId /\ served \subseteq Row
  BY DEF IInv, TypeOK
<1>2. \A j \in Ids : j >= nextId => table[j] = NoRow
  BY DEF IInv, Fresh
<1>3. QED
  BY <1>1, <1>2, HandlerStep

(* The two forms a handler's step takes. *)
LEMMA GotoIsUpdate ==
  ASSUME TypeOK, NEW h \in Handlers, NEW pc \in Steps, Goto(h, pc)
  PROVE  LET q == [req[h] EXCEPT !.pc = pc] IN
         q \in Request /\ req' = [req EXCEPT ![h] = q]
BY DEF Goto, TypeOK, Request

LEMMA AnswerIsUpdate ==
  ASSUME TypeOK, NEW h \in Handlers, NEW pc \in Resting, Answer(h, pc)
  PROVE  LET q == [NoRequest EXCEPT !.op = req[h].op, !.pc = pc,
                                    !.id = req[h].id, !.live = req[h].live] IN
         q \in Request /\ InStep(q) /\ req' = [req EXCEPT ![h] = q]
BY DEF Answer, TypeOK, Request, NoRequest, InStep, Resting, Steps

(* An answer is safe when it is not the error of a create that has a row.  *)
LEMMA AnswerStep ==
  ASSUME IInv, NEW h \in Handlers, NEW pc \in {"done", "failed"}, Answer(h, pc),
         pc = "failed" /\ req[h].op = "create" /\ req[h].live => req[h].id = 0,
         UNCHANGED <<table, nextId, served>>,
         files' \subseteq Owners \X Hosts,
         late' \subseteq LateCall,
         begun' \in 0 .. MaxRequests
  PROVE  IInv'
<1> DEFINE q == [NoRequest EXCEPT !.op = req[h].op, !.pc = pc,
                                  !.id = req[h].id, !.live = req[h].live]
<1>1. q \in Request /\ InStep(q) /\ req' = [req EXCEPT ![h] = q]
  BY AnswerIsUpdate DEF IInv, Resting
<1>2. q.op = req[h].op /\ q.id = req[h].id /\ q.pc = pc /\ q.live = req[h].live
  BY DEF NoRequest
<1>3. q.op = "create" /\ q.id # 0 => q.id < nextId
  BY <1>2 DEF IInv, IdsUsed
<1>4. q.op = "create" /\ q.id # 0 /\ q.pc = "failed" /\ q.live => table[q.id] = NoRow
  BY <1>2
<1> HIDE DEF q
<1>5. QED
  BY <1>1, <1>3, <1>4, RequestStep

(* A move to a further step is safe when the step is one of the operation's. *)
LEMMA GotoStep ==
  ASSUME IInv, NEW h \in Handlers, NEW pc \in Steps \ Resting, Goto(h, pc),
         InStep([req[h] EXCEPT !.pc = pc]),
         UNCHANGED <<table, nextId, served>>,
         files' \subseteq Owners \X Hosts,
         late' \subseteq LateCall,
         begun' \in 0 .. MaxRequests
  PROVE  IInv'
<1> DEFINE q == [req[h] EXCEPT !.pc = pc]
<1>1. q \in Request /\ req' = [req EXCEPT ![h] = q]
  BY GotoIsUpdate DEF IInv
<1>2. q.op = req[h].op /\ q.id = req[h].id /\ q.pc = pc /\ q.live = req[h].live
  BY DEF IInv, TypeOK, Request
<1>3. q.op = "create" /\ q.id # 0 => q.id < nextId
  BY <1>2 DEF IInv, IdsUsed
<1>4. q.pc # "failed"
  BY <1>2 DEF Resting
<1>5. InStep(q)
  OBVIOUS
<1> HIDE DEF q
<1>6. QED
  BY <1>1, <1>3, <1>4, <1>5, RequestStep

-----------------------------------------------------------------------------
(* Facts about the state every step below starts from. *)
LEMMA Facts ==
  ASSUME IInv, NEW h \in Handlers
  PROVE  /\ req[h] \in Request /\ InStep(req[h])
         /\ table \in Table /\ nextId \in 1 .. MaxId + 1 /\ MaxId \in Nat
         /\ files \subseteq Owners \X Hosts /\ late \subseteq LateCall
         /\ served \subseteq Row /\ begun \in 0 .. MaxRequests
BY MaxIdAssumption DEF IInv, TypeOK, AllInStep

LEMMA RowsAreRows ==
  ASSUME NEW t \in Table
  PROVE  RowsOf(t) \subseteq Row
BY DEF RowsOf, Table

(* A request begins with a whole row and the step its operation starts at. *)
LEMMA BeginStep ==
  ASSUME IInv, NEW h \in Handlers, NEW op \in AllOps, NEW pc \in Steps,
         NEW id \in Ids \cup {0}, NEW row \in Row, NEW prev \in Row \cup {NoRow},
         Begin(h, op, pc, id, row, prev),
         \/ op = "create" /\ pc = "hostnames" /\ id = 0
         \/ op \in Deletes /\ pc = "drop" /\ id \in Ids
         \/ op = "realias" /\ pc = "hostnames" /\ id \in Ids
         \/ op \in {"suspend", "resume"} /\ pc = "reread" /\ id \in Ids
         \/ op = "issue" /\ pc = "issue" /\ id \in Ids
         \/ op \in {"attach", "disable"} /\ pc = "write" /\ id \in Ids
         \/ op = "chown" /\ pc = "limit" /\ id \in Ids /\ prev \in Row
  PROVE  IInv'
<1> DEFINE q == [NoRequest EXCEPT !.op = op, !.pc = pc, !.id = id,
                                  !.row = row, !.prev = prev]
<1>1. q \in Request
  BY DEF NoRequest, Request
<1>2. req' = [req EXCEPT ![h] = q]
  BY DEF Begin
<1>3. q.op = op /\ q.pc = pc /\ q.id = id /\ q.row = row /\ q.prev = prev
  BY DEF NoRequest
<1>4. InStep(q)
  BY <1>3 DEF InStep, Deletes, Updates, Resting
<1>5. begun' \in 0 .. MaxRequests
  BY Facts, BoundAssumption DEF Begin
<1>6. q.op = "create" => q.id = 0
  BY <1>3 DEF Deletes, Updates
<1>7. UNCHANGED <<table, nextId, served, files, late>>
  BY DEF Begin
<1> HIDE DEF q
<1>8. QED
  BY <1>1, <1>2, <1>4, <1>5, <1>6, <1>7, RequestStep, Facts

LEMMA BeginPreserves ==
  ASSUME IInv, NEW h \in Handlers, BeginCreate(h) \/ BeginOnRow(h)
  PROVE  IInv'
<1>1. CASE BeginCreate(h)
  <2>1. PICK d \in Hosts, o \in Owners, al \in SUBSET Hosts :
          Begin(h, "create", "hostnames", 0, NewRow(d, al, o), NoRow)
    BY <1>1 DEF BeginCreate
  <2>2. NewRow(d, al, o) \in Row
    BY DEF NewRow, Row
  <2>3. "create" \in AllOps /\ "hostnames" \in Steps
    BY DEF AllOps, Steps
  <2>4. QED
    BY <2>1, <2>2, <2>3, BeginStep
<1>2. CASE BeginOnRow(h)
  <2> USE BeginStep DEF AllOps, Steps, Updates, Deletes
  <2>1. PICK i \in Ids :
          LET r == table[i] IN
          /\ r # NoRow
          /\ \/ \E op \in Deletes : Begin(h, op, "drop", i, r, NoRow)
             \/ \E al \in SUBSET (Hosts \ {r.domain}) :
                  Begin(h, "realias", "hostnames", i, [r EXCEPT !.aliases = al], NoRow)
             \/ Begin(h, "suspend", "reread", i, [r EXCEPT !.suspended = TRUE], NoRow)
             \/ Begin(h, "resume", "reread", i, [r EXCEPT !.suspended = FALSE], NoRow)
             \/ Begin(h, "issue", "issue", i, r, NoRow)
             \/ Begin(h, "attach", "write", i, [r EXCEPT !.ssl = TRUE, !.cert = TRUE], NoRow)
             \/ Begin(h, "disable", "write", i, [r EXCEPT !.ssl = FALSE], NoRow)
             \/ \E o \in Owners \ {r.owner} :
                  Begin(h, "chown", "limit", i, [r EXCEPT !.owner = o, !.home = o], r)
    BY <1>2 DEF BeginOnRow, Realiased
  <2> DEFINE r == table[i]
  <2>2. r \in Row
    BY <2>1, Facts DEF Table
  <2>3. ASSUME NEW op \in Deletes, Begin(h, op, "drop", i, r, NoRow) PROVE IInv'
    BY <2>2, <2>3
  <2>4. ASSUME NEW al \in SUBSET (Hosts \ {r.domain}),
               Begin(h, "realias", "hostnames", i, [r EXCEPT !.aliases = al], NoRow)
        PROVE  IInv'
    <3>1. [r EXCEPT !.aliases = al] \in Row
      BY <2>2 DEF Row
    <3>2. QED
      BY <3>1, <2>4
  <2>5. CASE Begin(h, "suspend", "reread", i, [r EXCEPT !.suspended = TRUE], NoRow)
    <3>1. [r EXCEPT !.suspended = TRUE] \in Row
      BY <2>2 DEF Row
    <3>2. QED
      BY <3>1, <2>5
  <2>6. CASE Begin(h, "resume", "reread", i, [r EXCEPT !.suspended = FALSE], NoRow)
    <3>1. [r EXCEPT !.suspended = FALSE] \in Row
      BY <2>2 DEF Row
    <3>2. QED
      BY <3>1, <2>6
  <2>7. CASE Begin(h, "issue", "issue", i, r, NoRow)
    BY <2>2, <2>7
  <2>8. CASE Begin(h, "attach", "write", i, [r EXCEPT !.ssl = TRUE, !.cert = TRUE], NoRow)
    <3>1. [r EXCEPT !.ssl = TRUE, !.cert = TRUE] \in Row
      BY <2>2 DEF Row
    <3>2. QED
      BY <3>1, <2>8
  <2>9. CASE Begin(h, "disable", "write", i, [r EXCEPT !.ssl = FALSE], NoRow)
    <3>1. [r EXCEPT !.ssl = FALSE] \in Row
      BY <2>2 DEF Row
    <3>2. QED
      BY <3>1, <2>9
  <2>10. ASSUME NEW o \in Owners \ {r.owner},
                Begin(h, "chown", "limit", i, [r EXCEPT !.owner = o, !.home = o], r)
         PROVE  IInv'
    <3>1. [r EXCEPT !.owner = o, !.home = o] \in Row
      BY <2>2 DEF Row
    <3>2. QED
      BY <3>1, <2>2, <2>10
  <2>11. QED
    BY <2>1, <2>3, <2>4, <2>5, <2>6, <2>7, <2>8, <2>9, <2>10
<1>3. QED
  BY <1>1, <1>2

-----------------------------------------------------------------------------
(* The checks before anything is changed. *)
LEMMA ChecksPreserve ==
  ASSUME IInv, NEW h \in Handlers,
         CheckHostnames(h) \/ CheckSite(h) \/ Refuse(h) \/ Reread(h)
  PROVE  IInv'
<1> DEFINE q0 == req[h]
<1>1. q0 \in Request /\ InStep(q0)
  BY Facts
<1>2. /\ files \subseteq Owners \X Hosts /\ late \subseteq LateCall
      /\ begun \in 0 .. MaxRequests /\ table \in Table
  BY Facts
<1>3. ASSUME NEW pc \in Steps \ Resting PROVE [q0 EXCEPT !.pc = pc].pc = pc
  BY <1>1 DEF Request
<1>4. CASE CheckHostnames(h)
  <2>1. CASE Goto(h, IF q0.op = "create" THEN "limit" ELSE "reread")
    <3> DEFINE pc == IF q0.op = "create" THEN "limit" ELSE "reread"
    <3>1. pc \in Steps \ Resting
      BY DEF Steps, Resting
    <3>2. q0.op = "realias" \/ q0.op = "create"
      BY <1>1, <1>4 DEF CheckHostnames, Running, At, InStep
    <3>3. InStep([q0 EXCEPT !.pc = pc])
      BY <1>1, <1>4, <3>2 DEF CheckHostnames, Running, At, InStep, Request,
                              Resting, Updates, Deletes
    <3>4. UNCHANGED <<table, nextId, files, served, late, begun>>
      BY <1>4 DEF CheckHostnames
    <3>5. QED
      BY <1>2, <2>1, <3>1, <3>3, <3>4, GotoStep
  <2>2. CASE Answer(h, "failed")
    <3>1. q0.op = "create" => q0.id = 0
      BY <1>1, <1>4 DEF CheckHostnames, Running, At, InStep
    <3>2. UNCHANGED <<table, nextId, files, served, late, begun>>
      BY <1>4 DEF CheckHostnames
    <3>3. QED
      BY <1>2, <2>2, <3>1, <3>2, AnswerStep
  <2>3. QED
    BY <1>4, <2>1, <2>2 DEF CheckHostnames
<1>5. CASE CheckSite(h)
  <2>1. CASE Goto(h, IF q0.op = "create" THEN "insert" ELSE "move")
    <3> DEFINE pc == IF q0.op = "create" THEN "insert" ELSE "move"
    <3>1. pc \in Steps \ Resting
      BY DEF Steps, Resting
    <3>2. q0.op = "chown" \/ q0.op = "create"
      BY <1>1, <1>5 DEF CheckSite, Running, At, InStep
    <3>3. InStep([q0 EXCEPT !.pc = pc])
      BY <1>1, <1>5, <3>2 DEF CheckSite, Running, At, InStep, Request,
                              Resting, Updates, Deletes
    <3>4. UNCHANGED <<table, nextId, files, served, late, begun>>
      BY <1>5 DEF CheckSite
    <3>5. QED
      BY <1>2, <2>1, <3>1, <3>3, <3>4, GotoStep
  <2>2. CASE Answer(h, "failed")
    <3>1. q0.op = "create" => q0.id = 0
      BY <1>1, <1>5 DEF CheckSite, Running, At, InStep
    <3>2. UNCHANGED <<table, nextId, files, served, late, begun>>
      BY <1>5 DEF CheckSite
    <3>3. QED
      BY <1>2, <2>2, <3>1, <3>2, AnswerStep
  <2>3. QED
    BY <1>5, <2>1, <2>2 DEF CheckSite
<1>6. CASE Refuse(h)
  <2>1. q0.op = "create" => q0.id = 0
    BY <1>1, <1>6 DEF Refuse, Running, At, InStep, Updates
  <2>2. Answer(h, "failed") /\ UNCHANGED <<table, nextId, files, served, late, begun>>
    BY <1>6 DEF Refuse
  <2>3. QED
    BY <1>2, <2>1, <2>2, AnswerStep
<1>7. CASE Reread(h)
  <2>1. q0.op \in Updates /\ q0.id \in Ids /\ q0.pc = "reread"
    BY <1>1, <1>7 DEF Reread, Running, At, InStep, Updates, Resting
  <2>2. UNCHANGED <<table, nextId, files, served, late, begun>>
    BY <1>7 DEF Reread
  <2>3. CASE Answer(h, "failed")
    BY <1>2, <2>1, <2>2, <2>3, AnswerStep DEF Updates
  <2>4. CASE table[q0.id] # NoRow /\ req' = [req EXCEPT ![h].prev = table[req[h].id], ![h].pc = "write"]
    <3> DEFINE q == [q0 EXCEPT !.prev = table[q0.id], !.pc = "write"]
    <3>1. table[q0.id] \in Row
      BY <1>2, <2>1, <2>4 DEF Table
    <3>2. q \in Request /\ req' = [req EXCEPT ![h] = q]
      BY <1>1, <2>4, <3>1 DEF Request, Steps, IInv, TypeOK
    <3>3. q.op = q0.op /\ q.id = q0.id /\ q.pc = "write" /\ q.row = q0.row /\ q.prev \in Row
      BY <1>1, <3>1 DEF Request
    <3>4. InStep(q)
      BY <1>1, <2>1, <3>3 DEF InStep, Updates, Resting
    <3> HIDE DEF q
    <3>5. QED
      BY <1>2, <2>1, <2>2, <3>2, <3>3, <3>4, RequestStep DEF Updates
  <2>5. QED
    BY <1>7, <2>3, <2>4 DEF Reread
<1>8. QED
  BY <1>4, <1>5, <1>6, <1>7

-----------------------------------------------------------------------------
(* The row changes.  Only an insert may give a row to an id without one,   *)
(* and it takes the next id.                                               *)

(* A handler that changed existing rows only, and goes on to read them all. *)
LEMMA RowStep ==
  ASSUME IInv, NEW h \in Handlers, NEW pc \in {"snapshot"},
         Goto(h, pc), InStep([req[h] EXCEPT !.pc = pc]),
         table' \in Table,
         \A j \in Ids : table[j] = NoRow => table'[j] = NoRow,
         UNCHANGED <<nextId, files, served, late, begun>>
  PROVE  IInv'
<1> DEFINE q == [req[h] EXCEPT !.pc = pc]
<1>1. q \in Request /\ req' = [req EXCEPT ![h] = q]
  BY GotoIsUpdate DEF IInv, Steps
<1>2. q.op = req[h].op /\ q.id = req[h].id /\ q.pc = "snapshot"
  BY Facts DEF Request
<1>3. q.op = "create" /\ q.id # 0 => q.id < nextId
  BY <1>2 DEF IInv, IdsUsed
<1>4. InStep(q)
  OBVIOUS
<1>5. nextId \in 1 .. MaxId + 1 /\ MaxId \in Nat
  BY Facts
<1>6. \A j \in Ids : j >= nextId => table[j] = NoRow
  BY DEF IInv, Fresh
<1>7. nextId' \in 1 .. MaxId + 1 /\ nextId' >= nextId /\ nextId' = nextId
  BY <1>5
<1>8. /\ files' \subseteq Owners \X Hosts /\ late' \subseteq LateCall
      /\ served' \subseteq Row /\ begun' \in 0 .. MaxRequests
  BY Facts
<1> HIDE DEF q
<1>9. QED
  BY <1>1, <1>2, <1>3, <1>4, <1>6, <1>7, <1>8, HandlerStep

LEMMA RowChangesPreserve ==
  ASSUME IInv, NEW h \in Handlers, DropRow(h) \/ WriteRow(h) \/ SetOwner(h)
  PROVE  IInv'
<1> DEFINE q0 == req[h]
<1>1. q0 \in Request /\ InStep(q0) /\ table \in Table
  BY Facts
<1>2. q0.pc \in {"drop", "write", "setowner"}
  BY DEF DropRow, WriteRow, SetOwner, Running, At
<1>3. q0.row \in Row /\ q0.id \in Ids
  BY <1>1, <1>2 DEF InStep, Resting
<1>4. q0.row.owner \in Owners
  BY <1>3 DEF Row
<1>5. InStep([q0 EXCEPT !.pc = "snapshot"])
  BY <1>1, <1>2, <1>3 DEF InStep, Resting, Request, Updates, Deletes
<1>6. CASE DropRow(h)
  <2>1. table' = DeleteSite(table, q0.id) /\ Goto(h, "snapshot")
        /\ UNCHANGED <<nextId, files, served, late, begun>>
    BY <1>6 DEF DropRow
  <2>2. QED
    BY <1>1, <1>3, <1>4, <1>5, <2>1, RowStep, StatementTypes, StatementFrame
<1>7. CASE WriteRow(h)
  <2>1. table' = UpdateSite(table, q0.id, q0.row) /\ Goto(h, "snapshot")
        /\ UNCHANGED <<nextId, files, served, late, begun>>
    BY <1>7 DEF WriteRow
  <2>2. QED
    BY <1>1, <1>3, <1>4, <1>5, <2>1, RowStep, StatementTypes, StatementFrame
<1>8. CASE SetOwner(h)
  <2>1. table' = UpdateSiteOwner(table, q0.id, q0.row.owner) /\ Goto(h, "snapshot")
        /\ UNCHANGED <<nextId, files, served, late, begun>>
    BY <1>8 DEF SetOwner
  <2>2. QED
    BY <1>1, <1>3, <1>4, <1>5, <2>1, RowStep, StatementTypes, StatementFrame
<1>9. QED
  BY <1>6, <1>7, <1>8

(* An insert takes the next id, which had no row, and no other id. *)
LEMMA InsertFrame ==
  ASSUME IInv, NEW r \in Row, nextId \in Ids, table' = CreateSite(table, nextId, r),
         nextId' = nextId + 1
  PROVE  /\ table' \in Table /\ nextId' \in 1 .. MaxId + 1 /\ nextId' >= nextId
         /\ \A j \in Ids : j < nextId /\ table[j] = NoRow => table'[j] = NoRow
         /\ \A j \in Ids : j >= nextId' => table'[j] = NoRow
<1>1. table \in Table /\ MaxId \in Nat
  BY MaxIdAssumption DEF IInv, TypeOK
<1>2. table' \in Table
  <2>1. [r EXCEPT !.cert = FALSE] \in Row
    BY DEF Row
  <2>2. QED
    BY <1>1, <2>1 DEF CreateSite, Table
<1>3. \A j \in Ids : j # nextId => table'[j] = table[j]
  BY <1>1 DEF CreateSite, Table
<1>4. \A j \in Ids : j >= nextId => table[j] = NoRow
  BY DEF IInv, Fresh
<1>5. nextId \in Nat /\ nextId' \in 1 .. MaxId + 1 /\ nextId' > nextId
  BY <1>1 DEF Ids
<1>6. QED
  BY <1>1, <1>2, <1>3, <1>4, <1>5 DEF Ids

LEMMA InsertPreserves ==
  ASSUME IInv, NEW h \in Handlers, InsertRow(h)
  PROVE  IInv'
<1> DEFINE q0 == req[h]
<1>1. q0 \in Request /\ InStep(q0) /\ q0.pc = "insert" /\ nextId \in Ids
  BY Facts DEF InsertRow, Running, At
<1>2. q0.row \in Row /\ q0.op = "create" /\ q0.id = 0
  BY <1>1 DEF InStep, Resting
<1>3. CASE Answer(h, "failed") /\ UNCHANGED <<table, nextId>>
  BY <1>2, <1>3, AnswerStep, Facts DEF InsertRow
<1>4. CASE /\ table' = CreateSite(table, nextId, q0.row)
           /\ nextId' = nextId + 1
           /\ req' = [req EXCEPT ![h].id = nextId, ![h].pc = "provision"]
  <2> DEFINE q == [q0 EXCEPT !.id = nextId, !.pc = "provision"]
  <2>1. q \in Request /\ req' = [req EXCEPT ![h] = q]
    BY <1>1, <1>4 DEF Request, Steps, IInv, TypeOK
  <2>2. q.op = "create" /\ q.id = nextId /\ q.pc = "provision" /\ q.row = q0.row
    BY <1>1, <1>2 DEF Request
  <2>3. InStep(q)
    BY <1>1, <1>2, <2>2 DEF InStep, Resting, Updates, Deletes
  <2>4. q.id < nextId'
    BY <1>1, <1>4, <2>2 DEF Ids
  <2>5. /\ table' \in Table /\ nextId' \in 1 .. MaxId + 1 /\ nextId' >= nextId
        /\ \A j \in Ids : j < nextId /\ table[j] = NoRow => table'[j] = NoRow
        /\ \A j \in Ids : j >= nextId' => table'[j] = NoRow
    BY <1>1, <1>2, <1>4, InsertFrame
  <2>6. /\ files' \subseteq Owners \X Hosts /\ late' \subseteq LateCall
        /\ served' \subseteq Row /\ begun' \in 0 .. MaxRequests
    BY Facts DEF InsertRow
  <2>7. q.pc # "failed"
    BY <2>2
  <2> HIDE DEF q
  <2>8. QED
    BY <2>1, <2>3, <2>4, <2>5, <2>6, <2>7, HandlerStep
<1>5. QED
  BY <1>3, <1>4 DEF InsertRow

LEMMA UnwindPreserves ==
  ASSUME IInv, NEW h \in Handlers, Unwind(h)
  PROVE  IInv'
<1> DEFINE q0 == req[h]
           q == [NoRequest EXCEPT !.op = q0.op, !.pc = "failed",
                                  !.id = q0.id, !.live = q0.live]
<1>1. q0 \in Request /\ InStep(q0) /\ q0.pc = "unwind"
  BY Facts DEF Unwind, Running, At
<1>2. q0.row \in Row /\ q0.id \in Ids /\ (q0.op \in Updates => q0.prev \in Row)
  BY <1>1 DEF InStep, Resting
<1>3. q \in Request /\ InStep(q) /\ req' = [req EXCEPT ![h] = q]
  BY AnswerIsUpdate DEF IInv, Resting, Unwind
<1>4. q.op = q0.op /\ q.id = q0.id
  BY DEF NoRequest
<1>5. q.op = "create" /\ q.id # 0 => q.id < nextId
  BY <1>4 DEF IInv, IdsUsed
<1>6. /\ files' \subseteq Owners \X Hosts /\ late' \subseteq LateCall
      /\ served' \subseteq Row /\ begun' \in 0 .. MaxRequests
  BY Facts DEF Unwind
<1>7. /\ nextId \in 1 .. MaxId + 1 /\ MaxId \in Nat /\ table \in Table
      /\ \A j \in Ids : j >= nextId => table[j] = NoRow
  BY Facts DEF IInv, Fresh
<1>8. q0.row.owner \in Owners
  BY <1>2 DEF Row
<1> HIDE DEF q
<1>9. CASE q0.op = "create" /\ table' = DeleteSite(table, q0.id) /\ UNCHANGED nextId
  <2>1. table'[q.id] = NoRow /\ table' \in Table /\ \A j \in Ids : table[j] = NoRow => table'[j] = NoRow
    BY <1>2, <1>4, <1>7, <1>8, <1>9, StatementTypes, StatementFrame
  <2>2. nextId' = nextId /\ nextId' >= nextId /\ nextId' \in 1 .. MaxId + 1
    BY <1>7, <1>9
  <2>3. QED
    BY <1>3, <1>5, <1>6, <1>7, <2>1, <2>2, HandlerStep
<1>10. CASE q0.op \in Updates /\ table' = UpdateSite(table, q0.id, q0.prev) /\ UNCHANGED nextId
  <2>1. table' \in Table /\ \A j \in Ids : table[j] = NoRow => table'[j] = NoRow
    BY <1>2, <1>7, <1>8, <1>10, StatementTypes, StatementFrame
  <2>2. nextId' = nextId /\ nextId' >= nextId /\ nextId' \in 1 .. MaxId + 1
    BY <1>7, <1>10
  <2>3. q.op # "create"
    BY <1>4, <1>10 DEF Updates
  <2>4. QED
    BY <1>3, <1>6, <1>7, <2>1, <2>2, <2>3, HandlerStep
<1>11. CASE /\ q0.op \in Deletes /\ nextId \in Ids
            /\ table' = CreateSite(table, nextId, q0.row) /\ nextId' = nextId + 1
  <2>1. /\ table' \in Table /\ nextId' \in 1 .. MaxId + 1 /\ nextId' >= nextId
        /\ \A j \in Ids : j < nextId /\ table[j] = NoRow => table'[j] = NoRow
        /\ \A j \in Ids : j >= nextId' => table'[j] = NoRow
    BY <1>2, <1>11, InsertFrame
  <2>2. q.op # "create"
    BY <1>4, <1>11 DEF Deletes
  <2>3. QED
    BY <1>3, <1>6, <2>1, <2>2, HandlerStep
<1>12. CASE q0.op \in Deletes /\ UNCHANGED <<table, nextId>>
  <2>1. nextId' = nextId /\ nextId' >= nextId /\ nextId' \in 1 .. MaxId + 1 /\ table' = table
    BY <1>7, <1>12
  <2>2. q.op # "create"
    BY <1>4, <1>12 DEF Deletes
  <2>3. QED
    BY <1>3, <1>6, <1>7, <2>1, <2>2, HandlerStep
<1>13. QED
  BY <1>9, <1>10, <1>11, <1>12 DEF Unwind

-----------------------------------------------------------------------------
(* The agent's actions and their answers.  A handler leaves for its error  *)
(* answer or for a later step; either is safe when the step it leaves from *)
(* is one a create only leaves by undoing its row.                         *)
LEMMA LeaveStep ==
  ASSUME IInv, NEW h \in Handlers, NEW pc \in {"done", "failed", "snapshot", "unwind", "remove"},
         req[h].pc \notin Resting,
         Leave(h, pc),
         pc = "failed" /\ req[h].op = "create" /\ req[h].live => req[h].id = 0,
         pc \in {"snapshot", "unwind", "remove"} => InStep([req[h] EXCEPT !.pc = pc]),
         UNCHANGED <<table, nextId, served>>,
         files' \subseteq Owners \X Hosts,
         late' \subseteq LateCall,
         begun' \in 0 .. MaxRequests
  PROVE  IInv'
<1>1. CASE pc \in {"done", "failed"}
  BY <1>1, AnswerStep DEF Leave, Resting
<1>2. CASE pc \in {"snapshot", "unwind", "remove"}
  <2>1. pc \in Steps \ Resting /\ Goto(h, pc)
    BY <1>2 DEF Leave, Resting, Steps
  <2>2. QED
    BY <1>2, <2>1, GotoStep
<1>3. QED
  BY <1>1, <1>2

(* After a failed sync a create can only go and remove its row. *)
LEMMA FailedSyncStep ==
  ASSUME NEW q \in Request, InStep(q), q.pc \in {"snapshot", "apply", "provision"},
         NEW pc, pc = AfterFailedSync(q.op)
  PROVE  /\ pc \in {"failed", "unwind"}
         /\ pc = "failed" => q.op # "create"
         /\ pc = "unwind" => InStep([q EXCEPT !.pc = pc])
<1>1. pc \in {"failed", "unwind"} /\ (pc = "failed" => q.op # "create")
  BY DEF AfterFailedSync
<1>2. CASE pc = "unwind"
  <2>1. q.row \in Row /\ q.id \in Ids /\ (q.op \in Updates => q.prev \in Row \/ q.pc = "provision")
    BY DEF InStep, Resting
  <2>2. q.pc = "provision" => q.op = "create"
    BY DEF InStep
  <2>3. InStep([q EXCEPT !.pc = pc])
    BY <1>2, <2>1, <2>2 DEF InStep, Resting, Request, Updates, Deletes
  <2>4. QED
    BY <1>1, <1>2, <2>3
<1>3. QED
  BY <1>1, <1>2

LEMMA FileActionsPreserve ==
  ASSUME IInv, NEW h \in Handlers, Provision(h) \/ RemoveFiles(h) \/ MoveFiles(h)
  PROVE  IInv'
<1> DEFINE q0 == req[h]
<1>1. q0 \in Request /\ InStep(q0) /\ q0.pc \in {"provision", "remove", "move"}
  BY Facts DEF Provision, RemoveFiles, MoveFiles, Running, At
<1>2. q0.row \in Row /\ q0.row.home \in Owners /\ q0.row.owner \in Owners /\ q0.row.domain \in Hosts
  BY <1>1 DEF InStep, Resting, Row
<1>3. UNCHANGED <<table, nextId, served, late, begun>>
  BY DEF Provision, RemoveFiles, MoveFiles
<1>4. CASE Provision(h)
  <2>1. files' \subseteq Owners \X Hosts
    BY <1>2, <1>4, Facts DEF Provision
  <2>2. q0.pc = "provision" /\ q0.op = "create" /\ q0.id \in Ids
    BY <1>1, <1>4 DEF Provision, Running, At, InStep, Resting
  <2>3. InStep([q0 EXCEPT !.pc = "snapshot"]) /\ InStep([q0 EXCEPT !.pc = "unwind"])
    BY <1>1, <1>2, <2>2 DEF InStep, Resting, Request, Updates, Deletes
  <2>4. CASE Goto(h, "snapshot")
    BY <1>3, <2>1, <2>3, <2>4, GotoStep, Facts DEF Steps, Resting
  <2>5. CASE Goto(h, "unwind")
    BY <1>3, <2>1, <2>3, <2>5, GotoStep, Facts DEF Steps, Resting
  <2>6. QED
    BY <1>4, <2>4, <2>5 DEF Provision
<1>5. CASE RemoveFiles(h)
  <2>1. files' \subseteq Owners \X Hosts
    BY <1>2, <1>5, Facts DEF RemoveFiles
  <2>2. q0.op # "create"
    BY <1>1, <1>5 DEF RemoveFiles, Running, At, InStep, Deletes
  <2>3. Answer(h, "done") \/ Answer(h, "failed")
    BY <1>5 DEF RemoveFiles
  <2>4. QED
    BY <1>3, <2>1, <2>2, <2>3, AnswerStep, Facts
<1>6. CASE MoveFiles(h)
  <2>1. q0.op = "chown" /\ q0.prev \in Row /\ q0.id \in Ids
    BY <1>1, <1>6 DEF MoveFiles, At, InStep, Resting
  <2>2. files' \subseteq Owners \X Hosts
    BY <1>2, <1>6, <2>1, Facts DEF MoveFiles, HalfMoved, Moved
  <2>3. CASE Goto(h, "setowner")
    <3>1. InStep([q0 EXCEPT !.pc = "setowner"])
      BY <1>1, <1>2, <2>1 DEF InStep, Resting, Request, Updates, Deletes
    <3>2. QED
      BY <1>3, <2>2, <2>3, <3>1, GotoStep, Facts DEF Steps, Resting
  <2>4. CASE Answer(h, "failed")
    BY <1>3, <2>1, <2>2, <2>4, AnswerStep, Facts
  <2>5. QED
    BY <1>6, <2>3, <2>4 DEF MoveFiles
<1>7. QED
  BY <1>4, <1>5, <1>6

LEMMA IssuePreserves ==
  ASSUME IInv, NEW h \in Handlers, IssueCert(h)
  PROVE  IInv'
<1> DEFINE q0 == req[h]
<1>1. q0 \in Request /\ InStep(q0) /\ q0.pc = "issue"
  BY Facts DEF IssueCert, Running, At
<1>2. q0.row \in Row /\ q0.op = "issue" /\ q0.id \in Ids
  BY <1>1 DEF InStep, Resting
<1>3. UNCHANGED <<table, nextId, files, served, late, begun>>
  BY DEF IssueCert
<1>4. CASE Answer(h, "failed")
  BY <1>2, <1>3, <1>4, AnswerStep, Facts
<1>5. CASE req' = [req EXCEPT ![h].row.ssl = TRUE, ![h].row.cert = TRUE, ![h].pc = "write"]
  <2> DEFINE r == [q0.row EXCEPT !.ssl = TRUE, !.cert = TRUE]
             q == [q0 EXCEPT !.row = r, !.pc = "write"]
  <2>1. r \in Row
    BY <1>2 DEF Row
  <2>2. q \in Request
    BY <1>1, <2>1 DEF Request, Steps
  <2>3. req' = [req EXCEPT ![h] = q]
    BY <1>1, <1>5 DEF Request, IInv, TypeOK
  <2>4. q.op = "issue" /\ q.id = q0.id /\ q.pc = "write" /\ q.row = r
    BY <1>1, <1>2 DEF Request
  <2>5. InStep(q)
    BY <1>2, <2>1, <2>4 DEF InStep, Resting, Updates, Deletes
  <2> HIDE DEF q
  <2>6. QED
    BY <1>3, <2>2, <2>3, <2>4, <2>5, RequestStep, Facts
<1>6. QED
  BY <1>4, <1>5 DEF IssueCert

LEMMA SnapshotPreserves ==
  ASSUME IInv, NEW h \in Handlers, Snapshot(h)
  PROVE  IInv'
<1> DEFINE q0 == req[h]
           q == [q0 EXCEPT !.specs = RowsOf(table), !.pc = "apply"]
<1>1. q0 \in Request /\ InStep(q0) /\ q0.pc = "snapshot"
  BY Facts DEF Snapshot, Running, At
<1>2. q \in Request /\ req' = [req EXCEPT ![h] = q]
  BY <1>1, Facts, RowsAreRows DEF Snapshot, Request, Steps, IInv, TypeOK
<1>3. q.op = q0.op /\ q.id = q0.id /\ q.pc = "apply" /\ q.row = q0.row /\ q.prev = q0.prev
  BY <1>1 DEF Request
<1>4. InStep(q)
  BY <1>1, <1>3 DEF InStep, Resting, Updates, Deletes
<1>5. q.op = "create" /\ q.id # 0 => q.id < nextId
  BY <1>3 DEF IInv, IdsUsed
<1>6. UNCHANGED <<table, nextId, files, served, late, begun>>
  BY DEF Snapshot
<1> HIDE DEF q
<1>7. QED
  BY <1>2, <1>3, <1>4, <1>5, <1>6, RequestStep, Facts

LEMMA ApplyPreserves ==
  ASSUME IInv, NEW h \in Handlers, Apply(h)
  PROVE  IInv'
<1> DEFINE q0 == req[h]
           pc == IF q0.op = "purge" THEN "remove" ELSE "done"
<1>1. q0 \in Request /\ InStep(q0) /\ q0.pc = "apply" /\ q0.row \in Row /\ q0.id \in Ids
  BY Facts DEF Apply, At, InStep, Resting
<1>2. PICK q \in Request :
        /\ req' = [req EXCEPT ![h] = q] /\ InStep(q)
        /\ q.op = q0.op /\ q.id = q0.id /\ q.pc # "failed"
  <2>1. CASE pc = "remove"
    <3>1. Goto(h, "remove")
      BY <2>1 DEF Apply, Leave, Resting
    <3>2. LET q == [q0 EXCEPT !.pc = "remove"] IN
            q \in Request /\ req' = [req EXCEPT ![h] = q]
      BY <3>1, GotoIsUpdate DEF IInv, Steps
    <3>3. InStep([q0 EXCEPT !.pc = "remove"])
      BY <1>1, <2>1 DEF InStep, Resting, Request, Updates, Deletes
    <3>4. [q0 EXCEPT !.pc = "remove"].op = q0.op /\ [q0 EXCEPT !.pc = "remove"].id = q0.id
          /\ [q0 EXCEPT !.pc = "remove"].pc # "failed"
      BY <1>1 DEF Request
    <3>5. QED
      BY <3>2, <3>3, <3>4
  <2>2. CASE pc = "done"
    <3>1. Answer(h, "done")
      BY <2>2 DEF Apply, Leave, Resting
    <3> DEFINE q == [NoRequest EXCEPT !.op = req[h].op, !.pc = "done",
                                      !.id = req[h].id, !.live = req[h].live]
    <3>2. q \in Request /\ InStep(q) /\ req' = [req EXCEPT ![h] = q]
      BY <3>1, AnswerIsUpdate DEF IInv, Resting
    <3>3. q.op = q0.op /\ q.id = q0.id /\ q.pc # "failed"
      BY DEF NoRequest
    <3>4. QED
      BY <3>2, <3>3
  <2>3. QED
    BY <2>1, <2>2
<1>3. q.op = "create" /\ q.id # 0 => q.id < nextId
  BY <1>2 DEF IInv, IdsUsed
<1>4. served' \subseteq Row
  BY <1>1 DEF Apply, Request
<1>5. /\ nextId' = nextId /\ table' = table /\ nextId \in 1 .. MaxId + 1 /\ nextId >= nextId
      /\ files' \subseteq Owners \X Hosts /\ late' \subseteq LateCall /\ begun' \in 0 .. MaxRequests
  BY Facts DEF Apply
<1>6. \A j \in Ids : j >= nextId => table[j] = NoRow
  BY DEF IInv, Fresh
<1>7. QED
  BY <1>2, <1>3, <1>4, <1>5, <1>6, Facts, HandlerStep

LEMMA ApplyFailsPreserves ==
  ASSUME IInv, NEW h \in Handlers, ApplyFails(h)
  PROVE  IInv'
<1> DEFINE pc == AfterFailedSync(req[h].op)
<1>1. req[h] \in Request /\ InStep(req[h]) /\ req[h].pc = "apply"
  BY Facts DEF ApplyFails, At
<1>2. /\ pc \in {"failed", "unwind"}
      /\ pc = "failed" => req[h].op # "create"
      /\ pc = "unwind" => InStep([req[h] EXCEPT !.pc = pc])
  BY <1>1, FailedSyncStep
<1>3. Leave(h, pc) /\ UNCHANGED <<table, nextId, files, served, late, begun>>
  BY DEF ApplyFails
<1>4. req[h].pc \notin Resting
  BY <1>1 DEF Resting
<1> HIDE DEF pc
<1>5. QED
  BY <1>2, <1>3, <1>4, LeaveStep, Facts

(* Going away changes no step: it only releases the promise made to a      *)
(* client that is still there.                                             *)
LEMMA CancelPreserves ==
  ASSUME IInv, NEW h \in Handlers, Cancel(h)
  PROVE  IInv'
<1> DEFINE q0 == req[h]
           q == [q0 EXCEPT !.live = FALSE]
<1>1. q0 \in Request /\ InStep(q0)
  BY Facts
<1>2. q \in Request /\ req' = [req EXCEPT ![h] = q]
  BY <1>1 DEF Cancel, Request, IInv, TypeOK
<1>3. /\ q.op = q0.op /\ q.id = q0.id /\ q.pc = q0.pc /\ q.row = q0.row
      /\ q.prev = q0.prev /\ q.live = FALSE
  BY <1>1 DEF Request
<1>4. InStep(q)
  BY <1>1, <1>3 DEF InStep
<1>5. q.op = "create" /\ q.id # 0 => q.id < nextId
  BY <1>3 DEF IInv, IdsUsed
<1>6. UNCHANGED <<table, nextId, files, served, late, begun>>
  BY DEF Cancel
<1> HIDE DEF q
<1>7. QED
  BY <1>2, <1>3, <1>4, <1>5, <1>6, RequestStep, Facts

LEMMA InterruptedPreserves ==
  ASSUME IInv, NEW h \in Handlers, Interrupted(h)
  PROVE  IInv'
<1>1. req[h] \in Request /\ InStep(req[h]) /\ req[h].pc \notin Resting /\ ~ req[h].live
  BY Facts DEF Interrupted
<1>2. UNCHANGED <<table, nextId, files, served, late, begun>>
  BY DEF Interrupted
<1>3. CASE req[h].pc \in {"snapshot", "apply", "provision"}
  <2> DEFINE pc == AfterFailedSync(req[h].op)
  <2>1. /\ pc \in {"failed", "unwind"}
        /\ pc = "failed" => req[h].op # "create"
        /\ pc = "unwind" => InStep([req[h] EXCEPT !.pc = pc])
    BY <1>1, <1>3, FailedSyncStep
  <2>2. Leave(h, pc)
    BY <1>3 DEF Interrupted, At
  <2> HIDE DEF pc
  <2>3. QED
    BY <1>1, <1>2, <2>1, <2>2, LeaveStep, Facts
<1>4. CASE req[h].pc \notin {"snapshot", "apply", "provision"}
  <2>1. Leave(h, "failed")
    BY <1>4 DEF Interrupted, At
  <2>2. QED
    BY <1>1, <1>2, <2>1, LeaveStep, Facts
<1>5. QED
  BY <1>3, <1>4

LEMMA GiveUpPreserves ==
  ASSUME IInv, NEW h \in Handlers, GiveUp(h)
  PROVE  IInv'
<1>1. req[h] \in Request /\ InStep(req[h])
  BY Facts
<1>2. UNCHANGED <<table, nextId, files, served, begun>>
  BY DEF GiveUp
<1>3. CASE /\ At(h, "apply")
           /\ late' = late \cup {[kind |-> "apply", specs |-> req[h].specs]}
           /\ Leave(h, AfterFailedSync(req[h].op))
  <2> DEFINE pc == AfterFailedSync(req[h].op)
  <2>1. /\ pc \in {"failed", "unwind"}
        /\ pc = "failed" => req[h].op # "create"
        /\ pc = "unwind" => InStep([req[h] EXCEPT !.pc = pc])
    BY <1>1, <1>3, FailedSyncStep DEF At
  <2>2. [kind |-> "apply", specs |-> req[h].specs] \in LateCall
    BY <1>1 DEF LateCall, Request
  <2>3. late' \subseteq LateCall
    BY <1>3, <2>2, Facts
  <2>4. req[h].pc \notin Resting /\ Leave(h, pc)
    BY <1>3 DEF At, Resting
  <2> HIDE DEF pc
  <2>5. QED
    BY <1>2, <2>1, <2>3, <2>4, LeaveStep, Facts
<1>4. CASE /\ At(h, "move")
           /\ late' = late \cup {[kind |-> "move", domain |-> req[h].row.domain,
                                  from |-> req[h].prev.owner, to |-> req[h].row.owner]}
           /\ Answer(h, "failed")
  <2>1. req[h].op = "chown" /\ req[h].row \in Row /\ req[h].prev \in Row
    BY <1>1, <1>4 DEF At, InStep, Resting
  <2>2. [kind |-> "move", domain |-> req[h].row.domain,
         from |-> req[h].prev.owner, to |-> req[h].row.owner] \in LateCall
    BY <2>1 DEF LateCall, Row
  <2>3. late' \subseteq LateCall
    BY <1>4, <2>2, Facts
  <2>4. QED
    BY <1>2, <1>4, <2>1, <2>3, AnswerStep, Facts
<1>5. QED
  BY <1>3, <1>4 DEF GiveUp

(* A call nobody waits for touches no request and no row; what it serves   *)
(* was still checked by the agent.                                         *)
LEMMA LatePreserves ==
  ASSUME IInv, LateApply \/ LateMove
  PROVE  IInv'
<1>1. UNCHANGED <<table, nextId, req, begun>> /\ late' \subseteq LateCall
  BY DEF LateApply, LateMove, IInv, TypeOK
<1>2. served' \subseteq Row /\ files' \subseteq Owners \X Hosts
  <2>1. CASE LateApply
    <3>1. PICK c \in late : c.kind = "apply" /\ (UNCHANGED served \/ served' = c.specs)
      BY <2>1 DEF LateApply
    <3>2. c.specs \subseteq Row
      BY <3>1 DEF LateCall, IInv, TypeOK
    <3>3. QED
      BY <2>1, <3>1, <3>2 DEF LateApply, IInv, TypeOK
  <2>2. CASE LateMove
    <3>1. PICK c \in late : c.kind = "move" /\ (UNCHANGED files \/ files' \in HalfMoved(c.domain, c.from, c.to))
      BY <2>2 DEF LateMove, HalfMoved
    <3>2. c.domain \in Hosts /\ c.to \in Owners
      BY <3>1 DEF LateCall, IInv, TypeOK
    <3>3. QED
      BY <2>2, <3>1, <3>2 DEF LateMove, HalfMoved, Moved, IInv, TypeOK
  <2>3. QED
    BY <2>1, <2>2
<1>3. TypeOK'
  BY <1>1, <1>2 DEF IInv, TypeOK
<1>4. QED
  BY <1>1, <1>2, <1>3 DEF IInv, AllInStep, Fresh, IdsUsed, CreateUnwinds, At

-----------------------------------------------------------------------------
LEMMA InitIInv == Init => IInv
<1> SUFFICES ASSUME Init PROVE IInv
  OBVIOUS
<1>1. NoRequest \in Request
  BY DEF NoRequest, Request, Steps, Resting
<1>2. RowsOf(FirstTable) \subseteq Row
  BY RowsAreRows, FirstTableAssumption
<1>3. \A r \in RowsOf(FirstTable) : <<r.home, r.domain>> \in Owners \X Hosts
  BY <1>2 DEF Row
<1>4. TypeOK
  BY <1>1, <1>2, <1>3, FirstTableAssumption, BoundAssumption DEF Init, TypeOK
<1>5. NoRequest.pc = "idle" /\ NoRequest.op = "none"
  BY DEF NoRequest
<1>6. AllInStep
  BY <1>5 DEF Init, AllInStep, InStep, Resting, Updates, Deletes
<1>7. Fresh
  BY MaxIdAssumption DEF Init, Fresh, Ids
<1>8. IdsUsed /\ CreateUnwinds
  BY <1>5 DEF Init, IdsUsed, CreateUnwinds, At
<1>9. QED
  BY <1>4, <1>6, <1>7, <1>8 DEF IInv

LEMMA NextIInv == IInv /\ [Next]_vars => IInv'
<1> SUFFICES ASSUME IInv, [Next]_vars PROVE IInv'
  OBVIOUS
<1>1. ASSUME NEW h \in Handlers, BeginCreate(h) \/ BeginOnRow(h) PROVE IInv'
  BY <1>1, BeginPreserves
<1>2. ASSUME NEW h \in Handlers, Handle(h) PROVE IInv'
  BY <1>2, ChecksPreserve, RowChangesPreserve, InsertPreserves, UnwindPreserves,
     FileActionsPreserve, IssuePreserves, SnapshotPreserves, ApplyPreserves,
     ApplyFailsPreserves, InterruptedPreserves, GiveUpPreserves
     DEF Handle
<1>3. ASSUME NEW h \in Handlers, Cancel(h) PROVE IInv'
  BY <1>3, CancelPreserves
<1>4. CASE LateApply \/ LateMove
  BY <1>4, LatePreserves
<1>5. CASE UNCHANGED vars
  BY <1>5 DEF vars, IInv, TypeOK, AllInStep, Fresh, IdsUsed, CreateUnwinds, At
<1>6. QED
  BY <1>1, <1>2, <1>3, <1>4, <1>5 DEF Next

LEMMA Invariance == Spec => []IInv
BY InitIInv, NextIInv, PTL DEF Spec

(* The variables keep their types, for every set of handlers, hostnames    *)
(* and accounts, whatever fails.                                           *)
THEOREM TypeCorrect == Spec => []TypeOK
<1>1. IInv => TypeOK
  BY DEF IInv
<1>2. QED
  BY <1>1, Invariance, PTL

(* A create that answers an error to a client still there leaves no row,   *)
(* at whichever step it failed and whatever ran beside it.                 *)
THEOREM FailedCreatesUnwind == Spec => []CreateUnwinds
<1>1. IInv => CreateUnwinds
  BY DEF IInv
<1>2. QED
  BY <1>1, Invariance, PTL
-----------------------------------------------------------------------------
(* What one request is good for when nothing runs beside it. *)

OneHandler == \A g, h \in Handlers : g = h

(* Clients wait, and a move is waited for and does not fail on its way.    *)
Staying == ~ MayCancel /\ "move" \notin GiveUpOn \cup Failing

(* Clients wait, nothing is given up, and only what is undone when it      *)
(* fails may fail, or a move, after which nothing is applied.              *)
Steady == ~ MayCancel /\ GiveUpOn = {} /\ Failing \subseteq {"create", "move"} \cup Updates

(* The steps at which the row a request began with is in the table.        *)
Reading == {"hostnames", "limit", "reread", "issue", "write", "move", "setowner", "drop"}

(* The steps between a row's change and the answer of the agent.           *)
Changing == {"provision", "snapshot", "apply", "unwind"}

(* A request means to change of its row what its operation is about, and   *)
(* remembers the row as it was.                                            *)
HasRead(q) ==
  q.op # "create" /\ q.pc \in Reading =>
    LET r == table[q.id] IN
    /\ r # NoRow
    /\ q.row.domain = r.domain
    /\ q.op # "chown" => q.row.owner = r.owner /\ q.row.home = r.home
    /\ q.op # "realias" => q.row.aliases = r.aliases
    /\ q.op \notin {"issue", "attach", "disable"} => q.row.ssl = r.ssl /\ q.row.cert = r.cert
    /\ q.op \notin {"suspend", "resume"} => q.row.suspended = r.suspended
    /\ q.op = "suspend" => q.row.suspended
    /\ q.op = "chown" \/ (q.op \in Updates /\ q.pc = "write") => q.prev = r

(* The row is the one it wrote.                                            *)
HasWritten(q) ==
  q.pc \in Changing =>
    LET r == table[q.id] IN
    /\ q.op = "create" => r # NoRow /\ r.domain = q.row.domain /\ r.home = q.row.home
    /\ q.op \in Updates => r # NoRow /\ r.domain = q.prev.domain
                                     /\ r.owner = q.prev.owner /\ r.home = q.prev.home

(* A deleted site's name is free until the request is answered.            *)
HasDropped(q) ==
  q.op \in Deletes /\ q.pc \in Changing \cup {"remove"} => DomainFree(table, q.row.domain)

AtHome(r) == r.home = r.owner

AloneInv ==
  /\ \A i \in Ids : table[i] # NoRow => AtHome(table[i])
  /\ \A h \in Handlers :
       LET q == req[h] IN
       /\ q.pc \notin Resting => AtHome(q.row)
       /\ HasRead(q) /\ HasWritten(q) /\ HasDropped(q)

(* Names are never given twice, nor taken from a row that keeps its id.    *)
DomainsOnce ==
  \A i, j \in Ids :
    table[i] # NoRow /\ table[j] # NoRow /\ table[i].domain = table[j].domain => i = j

(* What a create sends to the agent has its site, if it is still there.    *)
Listed(q) ==
  q.op = "create" /\ q.pc = "apply" =>
    table[q.id] = NoRow \/ \E r \in q.specs : r.domain = table[q.id].domain

(* Without late calls, a purge takes its site out before its files.        *)
Withdrawn(q) ==
  q.op \in Deletes =>
    /\ q.pc = "apply" => \A r \in q.specs : r.domain # q.row.domain
    /\ q.pc = "remove" => \A r \in served : r.domain # q.row.domain

WithdrawnInv == late = {} /\ \A h \in Handlers : Withdrawn(req[h])

-----------------------------------------------------------------------------
Placed(r) == <<r.home, r.domain>> \in files

(* Its directory is being made or moved.                                   *)
Unplaced(q, i) ==
  i = q.id /\ (q.pc = "setowner" \/ (q.op = "create" /\ q.pc \in {"provision", "unwind"}))

FilesInv ==
  /\ \A c \in late : c.kind = "apply"
  /\ \A i \in Ids : table[i] # NoRow => Placed(table[i]) \/ \E h \in Handlers : Unplaced(req[h], i)
  /\ \A h \in Handlers :
       LET q == req[h] IN
       /\ q.live
       /\ q.pc = "setowner" \/ (q.op \in Deletes /\ q.pc \in Changing) => Placed(q.row)

-----------------------------------------------------------------------------
(* The table can be rendered, whichever of its rows is replaced by itself. *)
Sane(t) ==
  /\ \A i, j \in Ids : i # j /\ t[i] # NoRow /\ t[j] # NoRow
                         => Hostnames(t[i]) \cap Hostnames(t[j]) = {}
  /\ \A i \in Ids : t[i] # NoRow => ValidSite(t[i])

Undone(q) == q.op \in {"create"} \cup Updates /\ q.pc \in Changing

(* The table without what the request has changed.                         *)
Before(q) == [table EXCEPT ![q.id] = IF q.op = "create" THEN NoRow ELSE q.prev]

Serves(q) ==
  /\ Undone(q) => Sane(Before(q)) /\ served = RowsOf(Before(q))
  /\ q.pc = "apply" => q.specs = RowsOf(table)
  /\ q.pc = "unwind" => Undone(q)
  /\ q.op = "create" /\ q.pc \notin Resting => ~ q.row.ssl
  /\ q.op = "create" /\ q.pc \in {"limit", "insert"} => Hostnames(q.row) \cap Taken(table, 0) = {}
  /\ q.op = "realias" /\ q.pc \in {"reread", "write"} => Hostnames(q.row) \cap Taken(table, q.id) = {}
  /\ q.op \in {"issue", "attach"} /\ q.pc = "write" => q.row.cert
  /\ q.op = "disable" /\ q.pc = "write" => ~ q.row.ssl

DriftInv ==
  /\ late = {}
  /\ Sane(table)
  /\ served = RowsOf(table) \/ \E h \in Handlers : req[h].pc \in Changing
  /\ \A h \in Handlers : req[h].live /\ Serves(req[h])

-----------------------------------------------------------------------------
(* The record a step leaves a request with, field by field. *)

Same(g) == req'[g] = req[g]

LEMMA GotoFields ==
  ASSUME TypeOK, NEW h \in Handlers, NEW pc \in Steps, Goto(h, pc)
  PROVE  /\ req'[h].pc = pc
         /\ req'[h].op = req[h].op /\ req'[h].id = req[h].id /\ req'[h].row = req[h].row
         /\ req'[h].prev = req[h].prev /\ req'[h].specs = req[h].specs /\ req'[h].live = req[h].live
         /\ \A g \in Handlers \ {h} : Same(g)
BY DEF Goto, TypeOK, Request, Same

LEMMA AnswerFields ==
  ASSUME TypeOK, NEW h \in Handlers, NEW pc \in Resting, Answer(h, pc)
  PROVE  /\ req'[h].pc = pc
         /\ req'[h].op = req[h].op /\ req'[h].id = req[h].id /\ req'[h].live = req[h].live
         /\ \A g \in Handlers \ {h} : Same(g)
BY DEF Answer, TypeOK, Request, Same, NoRequest

LEMMA LeaveFields ==
  ASSUME TypeOK, NEW h \in Handlers, NEW pc \in Steps, Leave(h, pc)
  PROVE  /\ req'[h].pc = pc
         /\ req'[h].op = req[h].op /\ req'[h].id = req[h].id /\ req'[h].live = req[h].live
         /\ pc \notin Resting => /\ req'[h].row = req[h].row /\ req'[h].prev = req[h].prev
                                 /\ req'[h].specs = req[h].specs
         /\ \A g \in Handlers \ {h} : Same(g)
<1>1. CASE pc \in Resting
  BY <1>1, AnswerFields DEF Leave
<1>2. CASE pc \notin Resting
  BY <1>2, GotoFields DEF Leave
<1> QED BY <1>1, <1>2

LEMMA BeginFields ==
  ASSUME TypeOK, NEW h \in Handlers, NEW op, NEW pc, NEW id, NEW row, NEW prev,
         Begin(h, op, pc, id, row, prev)
  PROVE  /\ req'[h].op = op /\ req'[h].pc = pc /\ req'[h].id = id /\ req'[h].row = row
         /\ req'[h].prev = prev /\ req'[h].live = TRUE
         /\ \A g \in Handlers \ {h} : Same(g)
         /\ req[h].pc \in Resting
         /\ UNCHANGED <<table, nextId, files, served, late>>
BY DEF Begin, TypeOK, NoRequest, Resting, At, Same

(* What a request begins with: its row is the one in the table, but for    *)
(* what the operation is about.                                            *)
Starts(q) ==
  /\ q.live
  /\ q.pc \in Reading \ {"move", "setowner"} /\ q.op \in AllOps
  /\ q.op = "create" => q.pc = "hostnames" /\ AtHome(q.row) /\ ~ q.row.ssl
  /\ q.pc = "write" => q.op \in {"attach", "disable"}
  /\ q.op = "attach" => q.row.cert
  /\ q.op = "disable" => ~ q.row.ssl
  /\ q.pc = "limit" => q.op = "chown"
  /\ q.pc = "reread" => q.op # "realias"
  /\ HasRead(q)
  /\ q.op # "create" => q.id \in Ids /\ (AtHome(table[q.id]) => AtHome(q.row))

LEMMA Begun ==
  ASSUME IInv, NEW h \in Handlers, BeginCreate(h) \/ BeginOnRow(h)
  PROVE  /\ UNCHANGED <<table, nextId, files, served, late>>
         /\ req[h].pc \in Resting
         /\ \A g \in Handlers \ {h} : Same(g)
         /\ Starts(req'[h])
<1> DEFINE With(op, pc, i, s, prev) ==
             /\ req'[h].op = op /\ req'[h].pc = pc /\ req'[h].id = i /\ req'[h].row = s
             /\ req'[h].prev = prev /\ req'[h].live = TRUE
<1>0. /\ UNCHANGED <<table, nextId, files, served, late>>
      /\ req[h].pc \in Resting
      /\ \A g \in Handlers \ {h} : Same(g)
  <2>1. PICK q : req' = [req EXCEPT ![h] = q]
    BY DEF BeginCreate, BeginOnRow, Begin
  <2>2. \A g \in Handlers \ {h} : Same(g)
    BY <2>1 DEF Same, IInv, TypeOK
  <2>3. req[h].pc \in Resting /\ UNCHANGED <<table, nextId, files, served, late>>
    BY DEF BeginCreate, BeginOnRow, Begin, At, Resting
  <2> QED BY <2>2, <2>3
<1>9. ASSUME NEW op, NEW pc, NEW i, NEW s, NEW prev, Begin(h, op, pc, i, s, prev)
      PROVE  With(op, pc, i, s, prev)
  BY <1>9, BeginFields DEF IInv
<1> HIDE DEF With
<1> SUFFICES Starts(req'[h])
  BY <1>0
<1> USE DEF Reading, HasRead, AtHome, AllOps, Updates, Deletes, Starts
<1>1. CASE BeginCreate(h)
  <2>1. PICK d \in Hosts, o \in Owners, al \in SUBSET Hosts :
          Begin(h, "create", "hostnames", 0, NewRow(d, al, o), NoRow)
    BY <1>1 DEF BeginCreate
  <2>2. With("create", "hostnames", 0, NewRow(d, al, o), NoRow)
    BY <2>1, <1>9
  <2>3. NewRow(d, al, o).home = o /\ NewRow(d, al, o).owner = o /\ NewRow(d, al, o).ssl = FALSE
    BY DEF NewRow
  <2> QED BY <2>2, <2>3 DEF With
<1>2. CASE BeginOnRow(h)
  <2>1. PICK i \in Ids :
          LET r == table[i] IN
          /\ r # NoRow
          /\ \/ \E op \in Deletes : Begin(h, op, "drop", i, r, NoRow)
             \/ \E al \in SUBSET (Hosts \ {r.domain}) :
                  Begin(h, "realias", "hostnames", i, [r EXCEPT !.aliases = al], NoRow)
             \/ Begin(h, "suspend", "reread", i, [r EXCEPT !.suspended = TRUE], NoRow)
             \/ Begin(h, "resume", "reread", i, [r EXCEPT !.suspended = FALSE], NoRow)
             \/ Begin(h, "issue", "issue", i, r, NoRow)
             \/ Begin(h, "attach", "write", i, [r EXCEPT !.ssl = TRUE, !.cert = TRUE], NoRow)
             \/ Begin(h, "disable", "write", i, [r EXCEPT !.ssl = FALSE], NoRow)
             \/ \E o \in Owners \ {r.owner} :
                  Begin(h, "chown", "limit", i, [r EXCEPT !.owner = o, !.home = o], r)
    BY <1>2 DEF BeginOnRow, Realiased
  <2> DEFINE r == table[i]
  <2>2. r \in Row /\ r # NoRow /\ i \in Ids
    BY <2>1, Facts DEF Table
  <2>4. CASE \E op \in Deletes : Begin(h, op, "drop", i, r, NoRow)
    <3>1. PICK op \in Deletes : Begin(h, op, "drop", i, r, NoRow)
      BY <2>4
    <3>2. With(op, "drop", i, r, NoRow)
      BY <3>1, <1>9
    <3> QED BY <2>2, <3>2 DEF With
  <2>5. CASE \E al \in SUBSET (Hosts \ {r.domain}) :
               Begin(h, "realias", "hostnames", i, [r EXCEPT !.aliases = al], NoRow)
    <3>1. PICK al \in SUBSET (Hosts \ {r.domain}) :
            Begin(h, "realias", "hostnames", i, [r EXCEPT !.aliases = al], NoRow)
      BY <2>5
    <3>2. PICK s : s = [r EXCEPT !.aliases = al]
      OBVIOUS
    <3>3. /\ s.domain = r.domain /\ s.owner = r.owner /\ s.home = r.home
          /\ s.ssl = r.ssl /\ s.cert = r.cert /\ s.suspended = r.suspended
      BY <2>2, <3>2 DEF Row
    <3>4. With("realias", "hostnames", i, s, NoRow)
      BY <3>1, <3>2, <1>9
    <3> QED BY <2>2, <3>3, <3>4 DEF With
  <2>6. CASE Begin(h, "suspend", "reread", i, [r EXCEPT !.suspended = TRUE], NoRow)
    <3>2. PICK s : s = [r EXCEPT !.suspended = TRUE]
      OBVIOUS
    <3>3. /\ s.domain = r.domain /\ s.owner = r.owner /\ s.home = r.home /\ s.aliases = r.aliases
          /\ s.ssl = r.ssl /\ s.cert = r.cert /\ s.suspended = TRUE
      BY <2>2, <3>2 DEF Row
    <3>4. With("suspend", "reread", i, s, NoRow)
      BY <2>6, <3>2, <1>9
    <3> QED BY <2>2, <3>3, <3>4 DEF With
  <2>7. CASE Begin(h, "resume", "reread", i, [r EXCEPT !.suspended = FALSE], NoRow)
    <3>2. PICK s : s = [r EXCEPT !.suspended = FALSE]
      OBVIOUS
    <3>3. /\ s.domain = r.domain /\ s.owner = r.owner /\ s.home = r.home /\ s.aliases = r.aliases
          /\ s.ssl = r.ssl /\ s.cert = r.cert
      BY <2>2, <3>2 DEF Row
    <3>4. With("resume", "reread", i, s, NoRow)
      BY <2>7, <3>2, <1>9
    <3> QED BY <2>2, <3>3, <3>4 DEF With
  <2>8. CASE Begin(h, "issue", "issue", i, r, NoRow)
    <3>2. With("issue", "issue", i, r, NoRow)
      BY <2>8, <1>9
    <3> QED BY <2>2, <3>2 DEF With
  <2>9. CASE Begin(h, "attach", "write", i, [r EXCEPT !.ssl = TRUE, !.cert = TRUE], NoRow)
    <3>2. PICK s : s = [r EXCEPT !.ssl = TRUE, !.cert = TRUE]
      OBVIOUS
    <3>3. /\ s.domain = r.domain /\ s.owner = r.owner /\ s.home = r.home /\ s.aliases = r.aliases
          /\ s.cert = TRUE /\ s.suspended = r.suspended
      BY <2>2, <3>2 DEF Row
    <3>4. With("attach", "write", i, s, NoRow)
      BY <2>9, <3>2, <1>9
    <3> QED BY <2>2, <3>3, <3>4 DEF With
  <2>10. CASE Begin(h, "disable", "write", i, [r EXCEPT !.ssl = FALSE], NoRow)
    <3>2. PICK s : s = [r EXCEPT !.ssl = FALSE]
      OBVIOUS
    <3>3. /\ s.domain = r.domain /\ s.owner = r.owner /\ s.home = r.home /\ s.aliases = r.aliases
          /\ s.ssl = FALSE /\ s.suspended = r.suspended
      BY <2>2, <3>2 DEF Row
    <3>4. With("disable", "write", i, s, NoRow)
      BY <2>10, <3>2, <1>9
    <3> QED BY <2>2, <3>3, <3>4 DEF With
  <2>11. CASE \E o \in Owners \ {r.owner} :
                Begin(h, "chown", "limit", i, [r EXCEPT !.owner = o, !.home = o], r)
    <3>1. PICK o \in Owners \ {r.owner} :
            Begin(h, "chown", "limit", i, [r EXCEPT !.owner = o, !.home = o], r)
      BY <2>11
    <3>2. PICK s : s = [r EXCEPT !.owner = o, !.home = o]
      OBVIOUS
    <3>3. /\ s.domain = r.domain /\ s.owner = s.home /\ s.aliases = r.aliases
          /\ s.ssl = r.ssl /\ s.cert = r.cert /\ s.suspended = r.suspended
      BY <2>2, <3>2 DEF Row
    <3>4. With("chown", "limit", i, s, r)
      BY <3>1, <3>2, <1>9
    <3> QED BY <2>2, <3>3, <3>4 DEF With
  <2> QED BY <2>1, <2>4, <2>5, <2>6, <2>7, <2>8, <2>9, <2>10, <2>11
<1> QED BY <1>1, <1>2

(* Only five steps write the table.                                        *)
RowStepOf(h) == DropRow(h) \/ WriteRow(h) \/ SetOwner(h) \/ InsertRow(h) \/ Unwind(h)

LEMMA TableChanges ==
  ASSUME [Next]_vars
  PROVE  table' = table \/ \E h \in Handlers : RowStepOf(h)
<1>1. ASSUME NEW h \in Handlers, BeginCreate(h) \/ BeginOnRow(h) \/ Cancel(h)
      PROVE  table' = table
  BY <1>1 DEF BeginCreate, BeginOnRow, Begin, Cancel
<1>2. ASSUME NEW h \in Handlers, Handle(h) PROVE table' = table \/ RowStepOf(h)
  BY <1>2 DEF Handle, RowStepOf, CheckHostnames, CheckSite, Refuse, Reread, Provision, RemoveFiles,
              IssueCert, MoveFiles, Snapshot, Apply, ApplyFails, Interrupted, GiveUp
<1>3. CASE LateApply \/ LateMove \/ UNCHANGED vars
  BY <1>3 DEF LateApply, LateMove, vars
<1> QED BY <1>1, <1>2, <1>3 DEF Next

-----------------------------------------------------------------------------
(* Ids keep their names, and names their ids, however requests overlap.    *)

KeepsNames ==
  \A i \in Ids : table'[i] # NoRow =>
    IF table[i] = NoRow THEN i = nextId /\ DomainFree(table, table'[i].domain)
                        ELSE table'[i].domain = table[i].domain

LEMMA UpdateKeeps ==
  ASSUME NEW t \in Table, NEW i \in Ids, NEW r \in Row, NEW o \in Owners, NEW j \in Ids
  PROVE  /\ UpdateSite(t, i, r)[j] # NoRow => t[j] # NoRow /\ UpdateSite(t, i, r)[j].domain = t[j].domain
                                                           /\ UpdateSite(t, i, r)[j].owner = t[j].owner
         /\ UpdateSiteOwner(t, i, o)[j] # NoRow => t[j] # NoRow /\ UpdateSiteOwner(t, i, o)[j].domain = t[j].domain
<1>1. CASE t[i] = NoRow
  BY <1>1 DEF UpdateSite, UpdateSiteOwner
<1>2. CASE t[i] # NoRow
  <2>1. t[i] \in Row
    BY <1>2 DEF Table
  <2>2. PICK s : s = [r EXCEPT !.domain = t[i].domain, !.owner = t[i].owner]
    OBVIOUS
  <2>3. s.domain = t[i].domain /\ s.owner = t[i].owner
    BY <2>2 DEF Row
  <2>4. UpdateSite(t, i, r)[j] = IF j = i THEN s ELSE t[j]
    BY <1>2, <2>2 DEF UpdateSite, Table
  <2>5. PICK u : u = [[t[i] EXCEPT !.owner = o] EXCEPT !.home = o]
    OBVIOUS
  <2>6. u.domain = t[i].domain
    BY <2>1, <2>5 DEF Row
  <2>7. UpdateSiteOwner(t, i, o)[j] = IF j = i THEN u ELSE t[j]
    BY <1>2, <2>5 DEF UpdateSiteOwner, Table
  <2> QED BY <1>2, <2>3, <2>4, <2>6, <2>7
<1> QED BY <1>1, <1>2

LEMMA InsertKeeps ==
  ASSUME IInv, NEW r \in Row, nextId \in Ids, DomainFree(table, r.domain), table' = CreateSite(table, nextId, r)
  PROVE  /\ KeepsNames
         /\ \A j \in Ids \ {nextId} : table'[j] = table[j]
         /\ table[nextId] = NoRow /\ table'[nextId] = [r EXCEPT !.cert = FALSE]
<1>1. table \in Table /\ table[nextId] = NoRow
  BY Facts DEF IInv, TypeOK, Fresh, Ids
<1>2. \A j \in Ids : table'[j] = IF j = nextId THEN [r EXCEPT !.cert = FALSE] ELSE table[j]
  BY <1>1 DEF CreateSite, Table
<1>3. [r EXCEPT !.cert = FALSE].domain = r.domain
  BY DEF Row
<1> QED BY <1>1, <1>2, <1>3 DEF KeepsNames

LEMMA RowStepsKeepNames ==
  ASSUME IInv, NEW h \in Handlers, RowStepOf(h)
  PROVE  KeepsNames
<1> DEFINE q == req[h]
<1>1. q \in Request /\ InStep(q) /\ table \in Table
  BY Facts
<1>2. CASE DropRow(h)
  BY <1>1, <1>2 DEF DropRow, DeleteSite, Table, KeepsNames
<1>3. CASE WriteRow(h)
  <2>1. q.row \in Row /\ q.id \in Ids /\ q.row.owner \in Owners
    BY <1>1, <1>3 DEF WriteRow, Running, At, InStep, Resting, Row
  <2> QED BY <1>1, <1>3, <2>1, UpdateKeeps DEF WriteRow, KeepsNames
<1>4. CASE SetOwner(h)
  <2>1. q.row \in Row /\ q.id \in Ids /\ q.row.owner \in Owners
    BY <1>1, <1>4 DEF SetOwner, Running, At, InStep, Resting, Row
  <2> QED BY <1>1, <1>4, <2>1, UpdateKeeps DEF SetOwner, KeepsNames
<1>5. CASE InsertRow(h)
  <2>1. q.row \in Row
    BY <1>1, <1>5 DEF InsertRow, Running, At, InStep, Resting
  <2>2. CASE table' = table
    BY <2>2 DEF KeepsNames
  <2>3. CASE DomainFree(table, q.row.domain) /\ table' = CreateSite(table, nextId, q.row)
    BY <1>5, <2>1, <2>3, InsertKeeps DEF InsertRow
  <2> QED BY <1>5, <2>2, <2>3 DEF InsertRow
<1>6. CASE Unwind(h)
  <2>1. q.pc = "unwind" /\ q.row \in Row /\ q.id \in Ids /\ q.row.owner \in Owners /\ (q.op \in Updates => q.prev \in Row)
    BY <1>1, <1>6 DEF Unwind, Running, At, InStep, Resting, Row
  <2>2. CASE table' = DeleteSite(table, q.id)
    BY <1>1, <2>2 DEF DeleteSite, Table, KeepsNames
  <2>3. CASE q.op \in Updates /\ table' = UpdateSite(table, q.id, q.prev)
    BY <1>1, <2>1, <2>3, UpdateKeeps DEF KeepsNames
  <2>4. CASE DomainFree(table, q.row.domain) /\ nextId \in Ids /\ table' = CreateSite(table, nextId, q.row)
    BY <2>1, <2>4, InsertKeeps
  <2>5. CASE table' = table
    BY <2>5 DEF KeepsNames
  <2> QED BY <1>6, <2>2, <2>3, <2>4, <2>5 DEF Unwind
<1> QED BY <1>2, <1>3, <1>4, <1>5, <1>6 DEF RowStepOf

LEMMA NamesKept ==
  ASSUME IInv, [Next]_vars
  PROVE  KeepsNames
<1>1. CASE table' = table
  BY <1>1 DEF KeepsNames
<1> QED BY <1>1, TableChanges, RowStepsKeepNames

(* Where a request goes from each step, and how it gets to the ones that   *)
(* matter below.                                                           *)
LEMMA ToApply ==
  ASSUME IInv, [Next]_vars, NEW g \in Handlers, req'[g].pc = "apply"
  PROVE  Same(g) \/ Snapshot(g) \/ (Cancel(g) /\ table' = table /\ req[g].pc = "apply")
<1> USE DEF Steps, Resting, IInv
<1>1. ASSUME NEW h \in Handlers, BeginCreate(h) \/ BeginOnRow(h) PROVE Same(g)
  BY <1>1, Begun DEF Starts, Reading
<1>2. ASSUME NEW h \in Handlers, Handle(h) PROVE Same(g) \/ Snapshot(g)
  <2>0. h # g => Same(g)
    <3>1. PICK q : req' = [req EXCEPT ![h] = q]
      BY <1>2 DEF Handle, CheckHostnames, CheckSite, Refuse, Reread, InsertRow, DropRow, WriteRow, SetOwner,
                  Unwind, Provision, RemoveFiles, IssueCert, MoveFiles, Snapshot, Apply, ApplyFails, Interrupted,
                  GiveUp, Goto, Answer, Leave
    <3> QED BY <3>1 DEF Same, TypeOK
  <2> SUFFICES ASSUME h = g PROVE Snapshot(h)
    BY <2>0
  <2>1. ~ (CheckHostnames(h) \/ CheckSite(h) \/ Refuse(h))
    BY GotoFields, AnswerFields DEF CheckHostnames, CheckSite, Refuse
  <2>2. ~ Reread(h) /\ ~ InsertRow(h) /\ ~ IssueCert(h)
    BY AnswerFields DEF Reread, InsertRow, IssueCert, TypeOK, Request
  <2>3. ~ (DropRow(h) \/ WriteRow(h) \/ SetOwner(h) \/ Unwind(h))
    BY GotoFields, AnswerFields DEF DropRow, WriteRow, SetOwner, Unwind
  <2>4. ~ (Provision(h) \/ RemoveFiles(h) \/ MoveFiles(h))
    BY GotoFields, AnswerFields DEF Provision, RemoveFiles, MoveFiles
  <2>5. ~ (Apply(h) \/ ApplyFails(h) \/ Interrupted(h) \/ GiveUp(h))
    BY LeaveFields, AnswerFields DEF Apply, ApplyFails, Interrupted, GiveUp, AfterFailedSync
  <2> QED BY <1>2, <2>1, <2>2, <2>3, <2>4, <2>5 DEF Handle
<1>3. ASSUME NEW h \in Handlers, Cancel(h) PROVE Same(g) \/ (Cancel(g) /\ table' = table /\ req[g].pc = "apply")
  BY <1>3 DEF Cancel, Same, TypeOK, Request
<1>4. CASE LateApply \/ LateMove \/ UNCHANGED vars
  BY <1>4 DEF LateApply, LateMove, vars, Same
<1> QED BY <1>1, <1>2, <1>3, <1>4 DEF Next

NamesInv == IInv /\ DomainsOnce /\ \A h \in Handlers : Listed(req[h])

LEMMA NextNames ==
  ASSUME NamesInv, [Next]_vars
  PROVE  NamesInv'
<1>0. IInv /\ IInv' /\ KeepsNames
  BY NextIInv, NamesKept DEF NamesInv
<1>1. DomainsOnce'
  <2> SUFFICES ASSUME NEW i \in Ids, NEW j \in Ids,
                      table'[i] # NoRow, table'[j] # NoRow, table'[i].domain = table'[j].domain
               PROVE  i = j
    BY DEF DomainsOnce
  <2> QED BY <1>0 DEF KeepsNames, DomainFree, NamesInv, DomainsOnce
<1>2. ASSUME NEW g \in Handlers PROVE Listed(req[g])'
  <2> SUFFICES ASSUME req'[g].op = "create", req'[g].pc = "apply", table'[req'[g].id] # NoRow
               PROVE  \E r \in req'[g].specs : r.domain = table'[req'[g].id].domain
    BY DEF Listed
  <2>1. req'[g].id \in Ids
    BY <1>0 DEF IInv, AllInStep, InStep, Resting
  <2>2. CASE Same(g) \/ (Cancel(g) /\ table' = table /\ req[g].pc = "apply")
    <3>1. /\ req'[g].op = req[g].op /\ req'[g].pc = req[g].pc /\ req'[g].id = req[g].id
          /\ req'[g].specs = req[g].specs
      BY <1>0, <2>2 DEF Same, Cancel, IInv, TypeOK, Request
    <3>2. req[g].id # 0 /\ req[g].id < nextId /\ nextId \in Nat
      BY <1>0, <2>1, <3>1 DEF IInv, IdsUsed, Ids, TypeOK
    <3>3. table[req[g].id] # NoRow /\ table'[req[g].id].domain = table[req[g].id].domain
      BY <1>0, <2>1, <3>1, <3>2 DEF KeepsNames, Ids
    <3> QED BY <3>1, <3>3 DEF NamesInv, Listed
  <2>3. CASE Snapshot(g)
    <3>1. req'[g].specs = RowsOf(table) /\ table' = table
      BY <1>0, <2>3 DEF Snapshot, IInv, TypeOK, Request
    <3> QED BY <2>1, <3>1 DEF RowsOf
  <2> QED BY <1>0, <2>2, <2>3, ToApply
<1> QED BY <1>0, <1>1, <1>2 DEF NamesInv

LEMMA InitNames == Init => NamesInv
<1> SUFFICES ASSUME Init PROVE NamesInv
  OBVIOUS
<1>1. DomainsOnce
  <2> SUFFICES ASSUME NEW i \in Ids, NEW j \in Ids, table[i] # NoRow, table[j] # NoRow,
                      table[i].domain = table[j].domain, i # j
               PROVE  FALSE
    BY DEF DomainsOnce
  <2>1. table[i] \in RowsOf(table) /\ table[j] \in RowsOf(table) /\ table[i] # table[j]
    BY FirstTableAssumption DEF RowsOf, Init
  <2>2. Hostnames(table[i]) \cap Hostnames(table[j]) = {}
    BY <2>1, FirstTableAssumption DEF Init, Renderable, NoDuplicates
  <2> QED BY <2>2 DEF Hostnames
<1>2. \A h \in Handlers : Listed(req[h])
  BY DEF Init, Listed, NoRequest
<1> QED BY <1>1, <1>2, InitIInv DEF NamesInv

LEMMA NamesInvariance == Spec => []NamesInv
BY InitNames, NextNames, PTL DEF Spec

(* However requests overlap, a create answers success only in a step after *)
(* which its site is served, unless it was deleted meanwhile: the rows are *)
(* read after the insert, and an id keeps its name.                        *)
THEOREM CreatesAnswerServed == Spec => CreateAnswersServed
<1>1. ASSUME NamesInv, [Next]_vars, NEW h \in Handlers,
             At(h, "apply"), req[h].op = "create", req'[h].pc = "done"
      PROVE  table[req[h].id] = NoRow \/ \E r \in served' : r.domain = table[req[h].id].domain
  <2>0. IInv /\ TypeOK /\ req[h].pc = "apply"
    BY <1>1 DEF NamesInv, IInv, At
  <2>1. served' = req[h].specs
    <3>1. ASSUME NEW g \in Handlers, BeginCreate(g) \/ BeginOnRow(g) PROVE FALSE
      BY <1>1, <2>0, <3>1, Begun DEF Same, Resting, Starts, Reading
    <3>2. ASSUME NEW g \in Handlers, Handle(g) PROVE served' = req[h].specs
      <4>1. g = h
        <5>1. PICK q : req' = [req EXCEPT ![g] = q]
          BY <3>2 DEF Handle, CheckHostnames, CheckSite, Refuse, Reread, InsertRow, DropRow, WriteRow,
                      SetOwner, Unwind, Provision, RemoveFiles, IssueCert, MoveFiles, Snapshot, Apply,
                      ApplyFails, Interrupted, GiveUp, Goto, Answer, Leave
        <5> QED BY <1>1, <2>0, <5>1 DEF TypeOK
      <4>2. Apply(h) \/ ApplyFails(h) \/ Interrupted(h) \/ GiveUp(h)
        BY <2>0, <3>2, <4>1 DEF Handle, CheckHostnames, CheckSite, Refuse, Reread, InsertRow, DropRow,
             WriteRow, SetOwner, Unwind, Provision, RemoveFiles, IssueCert, MoveFiles, Snapshot, Running, At
      <4>3. ~ (ApplyFails(h) \/ Interrupted(h) \/ GiveUp(h))
        BY <1>1, <2>0, LeaveFields, AnswerFields DEF ApplyFails, Interrupted, GiveUp, AfterFailedSync, Steps,
             Resting, At
      <4> QED BY <4>2, <4>3 DEF Apply
    <3>3. ASSUME NEW g \in Handlers, Cancel(g) PROVE FALSE
      BY <1>1, <2>0, <3>3 DEF Cancel, TypeOK, Request
    <3>4. ~ (LateApply \/ LateMove \/ UNCHANGED vars)
      BY <1>1, <2>0 DEF LateApply, LateMove, vars
    <3> QED BY <1>1, <3>1, <3>2, <3>3, <3>4 DEF Next
  <2>2. Listed(req[h])
    BY <1>1 DEF NamesInv
  <2> QED BY <1>1, <2>0, <2>1, <2>2 DEF Listed
<1>2. NamesInv /\ [Next]_vars =>
        [\A h \in Handlers :
           At(h, "apply") /\ req[h].op = "create" /\ req'[h].pc = "done"
             => \/ table[req[h].id] = NoRow
                \/ \E r \in served' : r.domain = table[req[h].id].domain]_vars
  BY <1>1
<1> QED BY <1>2, NamesInvariance, PTL DEF Spec, CreateAnswersServed

-----------------------------------------------------------------------------
(* Requests one after the other: what a request has read stays so until it *)
(* writes, and what it has written until it answers.                       *)

SerialInv == NamesInv /\ AloneInv

(* What AloneInv says of the next state, when there is one request.        *)
LEMMA AloneNext ==
  ASSUME OneHandler, NEW h \in Handlers,
         (\A i \in Ids : table[i] # NoRow => AtHome(table[i]))',
         req'[h].pc \notin Resting => AtHome(req'[h].row),
         HasRead(req[h])', HasWritten(req[h])', HasDropped(req[h])'
  PROVE  AloneInv'
<1>1. \A g \in Handlers : g = h
  BY DEF OneHandler
<1> QED BY <1>1 DEF AloneInv, AtHome

(* An answer leaves nothing to remember.                                   *)
LEMMA AloneAtRest ==
  ASSUME OneHandler, NEW h \in Handlers, req'[h].pc \in Resting,
         (\A i \in Ids : table[i] # NoRow => AtHome(table[i]))'
  PROVE  AloneInv'
<1>1. HasRead(req[h])' /\ HasWritten(req[h])' /\ HasDropped(req[h])'
  BY DEF HasRead, HasWritten, HasDropped, Resting, Reading, Changing
<1> QED BY <1>1, AloneNext

LEMMA AloneRestSame ==
  ASSUME OneHandler, SerialInv, NEW h \in Handlers, req'[h].pc \in Resting, table' = table
  PROVE  AloneInv'
<1>1. (\A i \in Ids : table[i] # NoRow => AtHome(table[i]))'
  BY DEF SerialInv, AloneInv
<1> QED BY <1>1, AloneAtRest

(* Nor does a step that changes neither the row nor what is known of it.   *)
LEMMA AloneCarries ==
  ASSUME OneHandler, SerialInv, NEW h \in Handlers, table' = table,
         req'[h].op = req[h].op, req'[h].id = req[h].id, req'[h].row = req[h].row, req'[h].prev = req[h].prev,
         req[h].pc \notin Resting,
         req'[h].pc \in Reading => req[h].pc \in Reading,
         req'[h].pc = "write" /\ req[h].op \in Updates => req[h].pc = "write",
         req'[h].pc \in Changing => req[h].pc \in Changing,
         req'[h].pc = "remove" => req[h].pc \in Changing \cup {"remove"}
  PROVE  AloneInv'
<1>1. (\A i \in Ids : table[i] # NoRow => AtHome(table[i]))' /\ AtHome(req'[h].row)
  BY DEF SerialInv, AloneInv
<1>2. HasRead(req[h]) /\ HasWritten(req[h]) /\ HasDropped(req[h])
  BY DEF SerialInv, AloneInv
<1>3. HasRead(req[h])'
  BY <1>2 DEF HasRead
<1>4. HasWritten(req[h])'
  BY <1>2 DEF HasWritten
<1>5. HasDropped(req[h])'
  BY <1>2 DEF HasDropped, DomainFree
<1> QED BY <1>1, <1>3, <1>4, <1>5, AloneNext

LEMMA SerialFacts ==
  ASSUME SerialInv, NEW h \in Handlers
  PROVE  /\ IInv /\ TypeOK /\ DomainsOnce /\ req[h] \in Request /\ InStep(req[h]) /\ table \in Table
         /\ HasRead(req[h]) /\ HasWritten(req[h]) /\ HasDropped(req[h])
         /\ req[h].pc \notin Resting => req[h].row \in Row /\ AtHome(req[h].row)
         /\ \A i \in Ids : table[i] # NoRow => table[i] \in Row /\ AtHome(table[i])
BY Facts DEF SerialInv, NamesInv, IInv, AloneInv, InStep, Table

LEMMA AloneBegins ==
  ASSUME OneHandler, SerialInv, NEW h \in Handlers, BeginCreate(h) \/ BeginOnRow(h)
  PROVE  AloneInv'
<1>1. Starts(req'[h]) /\ table' = table
  BY Begun, SerialFacts
<1>2. (\A i \in Ids : table[i] # NoRow => AtHome(table[i]))'
  BY <1>1, SerialFacts
<1>3. HasRead(req[h])'
  BY <1>1 DEF Starts, HasRead
<1>4. HasWritten(req[h])' /\ HasDropped(req[h])'
  BY <1>1 DEF Starts, Reading, Changing, HasWritten, HasDropped
<1>5. AtHome(req'[h].row)
  BY <1>1, SerialFacts DEF Starts, HasRead
<1> QED BY <1>2, <1>3, <1>4, <1>5, AloneNext

LEMMA AloneChecks ==
  ASSUME OneHandler, SerialInv, NEW h \in Handlers, CheckHostnames(h) \/ CheckSite(h) \/ Refuse(h) \/ Reread(h)
  PROVE  AloneInv'
<1>0. TypeOK /\ table' = table /\ InStep(req[h]) /\ req[h] \in Request
  BY SerialFacts DEF CheckHostnames, CheckSite, Refuse, Reread
<1>1. CASE Answer(h, "failed")
  BY <1>0, <1>1, AnswerFields, AloneRestSame DEF Resting
<1>2. CASE \E pc \in {"limit", "reread", "insert", "move"} : Goto(h, pc) /\ req[h].pc \in {"hostnames", "limit"}
  <2>1. PICK pc \in {"limit", "reread", "insert", "move"} : Goto(h, pc)
    BY <1>2
  <2>2. /\ req'[h].pc \in {"limit", "reread", "insert", "move"} /\ req'[h].op = req[h].op
        /\ req'[h].id = req[h].id /\ req'[h].row = req[h].row /\ req'[h].prev = req[h].prev
    BY <1>0, <2>1, GotoFields DEF Steps
  <2> QED BY <1>0, <1>2, <2>2, AloneCarries DEF Resting, Reading, Changing
<1>3. CASE /\ req[h].pc = "reread" /\ table[req[h].id] # NoRow
           /\ req' = [req EXCEPT ![h].prev = table[req[h].id], ![h].pc = "write"]
  <2>1. /\ req'[h].pc = "write" /\ req'[h].op = req[h].op /\ req'[h].id = req[h].id
        /\ req'[h].row = req[h].row /\ req'[h].prev = table[req[h].id]
    BY <1>0, <1>3 DEF TypeOK, Request
  <2>2. HasRead(req[h]) /\ req[h].pc \in Reading /\ req[h].op \in Updates
    BY <1>0, <1>3, SerialFacts DEF Reading, InStep
  <2>3. HasRead(req[h])'
    BY <1>0, <2>1, <2>2 DEF HasRead, Updates
  <2>4. HasWritten(req[h])' /\ HasDropped(req[h])'
    BY <2>1 DEF HasWritten, HasDropped, Changing
  <2>5. (\A i \in Ids : table[i] # NoRow => AtHome(table[i]))' /\ AtHome(req'[h].row)
    BY <1>0, <1>3, <2>1, SerialFacts DEF Resting
  <2> QED BY <2>3, <2>4, <2>5, AloneNext
<1> QED BY <1>1, <1>2, <1>3 DEF CheckHostnames, CheckSite, Refuse, Reread, Running, At

(* The agent's actions do not touch the table.                             *)
LEMMA AloneAgent ==
  ASSUME OneHandler, SerialInv, NEW h \in Handlers,
         \/ Provision(h) \/ RemoveFiles(h) \/ MoveFiles(h) \/ Snapshot(h)
         \/ Apply(h) \/ ApplyFails(h) \/ Interrupted(h) \/ GiveUp(h) \/ Cancel(h)
  PROVE  AloneInv'
<1>0. TypeOK /\ table' = table /\ InStep(req[h]) /\ req[h] \in Request
  BY SerialFacts DEF Provision, RemoveFiles, MoveFiles, Snapshot, Apply, ApplyFails, Interrupted, GiveUp, Cancel
<1> DEFINE Kept == /\ req'[h].op = req[h].op /\ req'[h].id = req[h].id
                   /\ req'[h].row = req[h].row /\ req'[h].prev = req[h].prev
<1>1. CASE req'[h].pc \in Resting
  BY <1>0, <1>1, AloneRestSame
<1>2. CASE Provision(h) \/ MoveFiles(h)
  <2>1. CASE Answer(h, "failed")
    BY <1>0, <1>1, <2>1, AnswerFields DEF Resting
  <2>2. CASE Goto(h, "setowner") /\ req[h].pc = "move"
    <3>1. Kept /\ req'[h].pc = "setowner"
      BY <1>0, <2>2, GotoFields DEF Steps
    <3> QED BY <1>0, <2>2, <3>1, AloneCarries DEF Resting, Reading, Changing
  <2>3. CASE (Goto(h, "snapshot") \/ Goto(h, "unwind")) /\ req[h].pc = "provision"
    <3>1. Kept /\ req'[h].pc \in {"snapshot", "unwind"}
      BY <1>0, <2>3, GotoFields DEF Steps
    <3> QED BY <1>0, <2>3, <3>1, AloneCarries DEF Resting, Reading, Changing
  <2> QED BY <1>2, <2>1, <2>2, <2>3 DEF Provision, MoveFiles, Running, At
<1>3. CASE RemoveFiles(h)
  BY <1>0, <1>1, <1>3, AnswerFields DEF RemoveFiles, Resting
<1>4. CASE Snapshot(h)
  <2>1. Kept /\ req'[h].pc = "apply" /\ req[h].pc = "snapshot"
    BY <1>0, <1>4 DEF Snapshot, TypeOK, Request, Running, At
  <2> QED BY <1>0, <2>1, AloneCarries DEF Resting, Reading, Changing
<1>5. CASE Apply(h)
  <2>1. Leave(h, "remove") \/ Leave(h, "done")
    BY <1>5 DEF Apply
  <2>2. req'[h].pc \in Resting \/ (Kept /\ req'[h].pc = "remove" /\ req[h].pc = "apply")
    BY <1>0, <1>5, <2>1, LeaveFields DEF Apply, At, Resting, Steps
  <2> QED BY <1>0, <1>1, <2>2, AloneCarries DEF Resting, Reading, Changing
<1>6. CASE ApplyFails(h) \/ Interrupted(h) \/ GiveUp(h)
  <2>1. \/ Answer(h, "failed") \/ Leave(h, "failed")
        \/ Leave(h, "unwind") /\ req[h].pc \in {"snapshot", "apply", "provision"}
    BY <1>6 DEF ApplyFails, Interrupted, GiveUp, AfterFailedSync, At
  <2>2. \/ req'[h].pc \in Resting
        \/ Kept /\ req'[h].pc = "unwind" /\ req[h].pc \in {"snapshot", "apply", "provision"}
    BY <1>0, <2>1, LeaveFields, AnswerFields DEF Resting, Steps
  <2> QED BY <1>0, <1>1, <2>2, AloneCarries DEF Resting, Reading, Changing
<1>7. CASE Cancel(h)
  <2>1. Kept /\ req'[h].pc = req[h].pc /\ req[h].pc \notin Resting
    BY <1>0, <1>7 DEF Cancel, TypeOK, Request
  <2> QED BY <1>0, <2>1, AloneCarries DEF Changing
<1> QED BY <1>2, <1>3, <1>4, <1>5, <1>6, <1>7

LEMMA AloneIssues ==
  ASSUME OneHandler, SerialInv, NEW h \in Handlers, IssueCert(h)
  PROVE  AloneInv'
<1>0. TypeOK /\ table' = table /\ InStep(req[h]) /\ req[h] \in Request /\ req[h].pc = "issue"
  BY SerialFacts DEF IssueCert, Running, At
<1>1. CASE Answer(h, "failed")
  BY <1>0, <1>1, AnswerFields, AloneRestSame DEF Resting
<1>2. CASE req' = [req EXCEPT ![h].row.ssl = TRUE, ![h].row.cert = TRUE, ![h].pc = "write"]
  <2>1. req[h].op = "issue" /\ req[h].row \in Row /\ AtHome(req[h].row)
    BY <1>0, SerialFacts DEF InStep, Resting
  <2>2. PICK s : s = [req[h].row EXCEPT !.ssl = TRUE, !.cert = TRUE]
    OBVIOUS
  <2>3. /\ s.domain = req[h].row.domain /\ s.owner = req[h].row.owner /\ s.home = req[h].row.home
        /\ s.aliases = req[h].row.aliases /\ s.suspended = req[h].row.suspended
    BY <2>1, <2>2 DEF Row
  <2>4. /\ req'[h].pc = "write" /\ req'[h].op = "issue" /\ req'[h].id = req[h].id /\ req'[h].row = s
    BY <1>0, <1>2, <2>1, <2>2 DEF TypeOK, Request
  <2>5. HasRead(req[h])'
    BY <1>0, <2>1, <2>3, <2>4, SerialFacts DEF HasRead, Reading, Updates
  <2>6. HasWritten(req[h])' /\ HasDropped(req[h])'
    BY <2>4 DEF HasWritten, HasDropped, Changing
  <2>7. (\A i \in Ids : table[i] # NoRow => AtHome(table[i]))' /\ AtHome(req'[h].row)
    BY <1>0, <2>1, <2>3, <2>4, SerialFacts DEF AtHome
  <2> QED BY <2>5, <2>6, <2>7, AloneNext
<1> QED BY <1>1, <1>2 DEF IssueCert

(* The row changes: what becomes of the row, and of the others nothing.    *)
LEMMA RowWritten ==
  ASSUME OneHandler, SerialInv, NEW h \in Handlers, WriteRow(h)
  PROVE  LET q == req[h]
             r == table[q.id] IN
         /\ q.id \in Ids /\ r \in Row /\ q.row \in Row /\ q.row.domain = r.domain
         /\ q.op \in Updates \cup {"issue", "attach", "disable"} /\ q.pc = "write"
         /\ q.row.owner = r.owner /\ q.row.home = r.home
         /\ table' = [table EXCEPT ![q.id] = q.row]
<1>1. TypeOK /\ InStep(req[h]) /\ req[h] \in Request /\ HasRead(req[h]) /\ table \in Table /\ req[h].pc = "write"
  BY SerialFacts DEF WriteRow, Running, At
<1>2. req[h].op \in Updates \cup {"issue", "attach", "disable"}
  BY <1>1 DEF InStep
<1>3. req[h].id \in Ids /\ req[h].row \in Row
  BY <1>1 DEF InStep, Resting
<1>4. /\ table[req[h].id] \in Row /\ req[h].row.domain = table[req[h].id].domain
      /\ req[h].row.owner = table[req[h].id].owner /\ req[h].row.home = table[req[h].id].home
  BY <1>1, <1>2, <1>3 DEF HasRead, Reading, Updates, Table
<1>5. [req[h].row EXCEPT !.domain = table[req[h].id].domain, !.owner = table[req[h].id].owner] = req[h].row
  BY <1>3, <1>4 DEF Row
<1>6. table' = [table EXCEPT ![req[h].id] = req[h].row]
  BY <1>4, <1>5, NoRowAssumption DEF WriteRow, UpdateSite
<1> QED BY <1>1, <1>2, <1>3, <1>4, <1>6

LEMMA AloneWrites ==
  ASSUME OneHandler, SerialInv, NEW h \in Handlers, WriteRow(h)
  PROVE  AloneInv'
<1> DEFINE q == req[h]
<1>1. /\ q.id \in Ids /\ table[q.id] \in Row /\ q.row \in Row /\ q.row.domain = table[q.id].domain
      /\ q.row.owner = table[q.id].owner /\ q.row.home = table[q.id].home
      /\ q.op \in Updates \cup {"issue", "attach", "disable"} /\ q.pc = "write"
      /\ table' = [table EXCEPT ![q.id] = q.row]
  BY RowWritten
<1>2. TypeOK /\ q \in Request /\ HasRead(q) /\ table \in Table /\ AtHome(q.row)
  BY <1>1, SerialFacts DEF Resting
<1>3. /\ req'[h].pc = "snapshot" /\ req'[h].op = q.op /\ req'[h].id = q.id
      /\ req'[h].row = q.row /\ req'[h].prev = q.prev
  BY <1>2, GotoFields DEF WriteRow, Steps
<1>4. \A i \in Ids : table'[i] = IF i = q.id THEN q.row ELSE table[i]
  BY <1>1, <1>2 DEF Table
<1>5. (\A i \in Ids : table[i] # NoRow => AtHome(table[i]))' /\ AtHome(req'[h].row)
  BY <1>2, <1>3, <1>4, SerialFacts DEF AtHome
<1>6. q.op \in Updates => q.prev = table[q.id]
  BY <1>1, <1>2 DEF HasRead, Reading, Updates
<1>7. HasWritten(req[h])'
  <2>1. table'[q.id] = q.row /\ q.row # NoRow
    BY <1>1, <1>4, NoRowAssumption
  <2> QED BY <1>1, <1>3, <1>6, <2>1 DEF HasWritten, Updates
<1>8. HasRead(req[h])' /\ HasDropped(req[h])'
  BY <1>1, <1>3 DEF HasRead, HasDropped, Reading, Updates, Deletes
<1> QED BY <1>5, <1>7, <1>8, AloneNext

LEMMA AloneDrops ==
  ASSUME OneHandler, SerialInv, NEW h \in Handlers, DropRow(h)
  PROVE  /\ AloneInv' /\ req[h].op \in Deletes
         /\ \A i \in Ids : table'[i] = IF i = req[h].id THEN NoRow ELSE table[i]
         /\ req[h].id \in Ids /\ table[req[h].id] # NoRow /\ table[req[h].id].domain = req[h].row.domain
         /\ table[req[h].id].home = req[h].row.home
<1> DEFINE q == req[h]
<1>1. TypeOK /\ q \in Request /\ InStep(q) /\ HasRead(q) /\ table \in Table /\ DomainsOnce /\ q.pc = "drop" /\ AtHome(q.row)
  BY SerialFacts DEF DropRow, Running, At, Resting
<1>2. q.op \in Deletes /\ q.id \in Ids
  BY <1>1 DEF InStep, Resting
<1>3. table[q.id] # NoRow /\ table[q.id].domain = q.row.domain /\ table[q.id].home = q.row.home
  BY <1>1, <1>2 DEF HasRead, Reading, Deletes
<1>4. \A i \in Ids : table'[i] = IF i = q.id THEN NoRow ELSE table[i]
  BY <1>1, <1>2 DEF DropRow, DeleteSite, Table
<1>5. /\ req'[h].pc = "snapshot" /\ req'[h].op = q.op /\ req'[h].id = q.id
      /\ req'[h].row = q.row /\ req'[h].prev = q.prev
  BY <1>1, GotoFields DEF DropRow, Steps
<1>6. DomainFree(table', q.row.domain)
  BY <1>2, <1>3, <1>4, <1>1 DEF DomainFree, DomainsOnce
<1>7. HasDropped(req[h])'
  BY <1>5, <1>6 DEF HasDropped, DomainFree
<1>8. HasRead(req[h])' /\ HasWritten(req[h])'
  BY <1>2, <1>5 DEF HasRead, HasWritten, Reading, Changing, Updates, Deletes
<1>9. (\A i \in Ids : table[i] # NoRow => AtHome(table[i]))' /\ AtHome(req'[h].row)
  BY <1>1, <1>4, <1>5, SerialFacts DEF AtHome
<1>10. AloneInv'
  BY <1>7, <1>8, <1>9, AloneNext
<1> QED BY <1>2, <1>3, <1>4, <1>10

LEMMA OwnerSet ==
  ASSUME OneHandler, SerialInv, NEW h \in Handlers, SetOwner(h)
  PROVE  LET q == req[h] IN
         /\ AloneInv'
         /\ q.op = "chown" /\ q.id \in Ids /\ table[q.id] \in Row
         /\ table'[q.id] \in Row
         /\ table'[q.id].domain = q.row.domain /\ table'[q.id].home = q.row.home
         /\ table'[q.id].aliases = table[q.id].aliases /\ table'[q.id].ssl = table[q.id].ssl
         /\ table'[q.id].cert = table[q.id].cert /\ table'[q.id].suspended = table[q.id].suspended
         /\ table'[q.id].domain = table[q.id].domain
         /\ \A i \in Ids \ {q.id} : table'[i] = table[i]
<1> DEFINE q == req[h]
<1>1. TypeOK /\ q \in Request /\ InStep(q) /\ HasRead(q) /\ table \in Table /\ q.pc = "setowner"
      /\ q.row \in Row /\ AtHome(q.row)
  BY SerialFacts DEF SetOwner, Running, At, Resting
<1>2. q.op = "chown" /\ q.id \in Ids
  BY <1>1 DEF InStep, Resting
<1>3. table[q.id] \in Row /\ table[q.id] # NoRow /\ table[q.id].domain = q.row.domain
  BY <1>1, <1>2 DEF HasRead, Reading, Table
<1>4. PICK o : o = q.row.owner /\ o \in Owners
  BY <1>1 DEF Row
<1>5. PICK u : u = [[table[q.id] EXCEPT !.owner = o] EXCEPT !.home = o]
  OBVIOUS
<1>6. u \in Row /\ u.domain = table[q.id].domain /\ u.home = o /\ u.owner = o /\ u.aliases = table[q.id].aliases
      /\ u.ssl = table[q.id].ssl /\ u.cert = table[q.id].cert /\ u.suspended = table[q.id].suspended
  BY <1>3, <1>4, <1>5 DEF Row
<1>7. table' = [table EXCEPT ![q.id] = u]
  BY <1>1, <1>2, <1>3, <1>4, <1>5 DEF SetOwner, UpdateSiteOwner, Table
<1>8. \A i \in Ids : table'[i] = IF i = q.id THEN u ELSE table[i]
  BY <1>1, <1>7 DEF Table
<1>9. /\ req'[h].pc = "snapshot" /\ req'[h].op = q.op /\ req'[h].id = q.id
      /\ req'[h].row = q.row /\ req'[h].prev = q.prev
  BY <1>1, GotoFields DEF SetOwner, Steps
<1>10. (\A i \in Ids : table[i] # NoRow => AtHome(table[i]))' /\ AtHome(req'[h].row)
  BY <1>1, <1>6, <1>8, <1>9, SerialFacts DEF AtHome
<1>11. HasRead(req[h])' /\ HasWritten(req[h])' /\ HasDropped(req[h])'
  BY <1>2, <1>9 DEF HasRead, HasWritten, HasDropped, Reading, Updates, Deletes
<1>12. AloneInv'
  BY <1>10, <1>11, AloneNext
<1> QED BY <1>1, <1>2, <1>3, <1>4, <1>6, <1>8, <1>12 DEF AtHome

LEMMA AloneInserts ==
  ASSUME OneHandler, SerialInv, NEW h \in Handlers, InsertRow(h), table' # table
  PROVE  LET q == req[h] IN
         /\ AloneInv'
         /\ q.pc = "insert" /\ q.op = "create" /\ q.row \in Row /\ nextId \in Ids /\ table[nextId] = NoRow
         /\ table'[nextId] = [q.row EXCEPT !.cert = FALSE]
         /\ \A i \in Ids \ {nextId} : table'[i] = table[i]
         /\ req'[h].pc = "provision" /\ req'[h].id = nextId /\ req'[h].op = "create" /\ req'[h].row = q.row
         /\ req'[h].live = q.live
<1> DEFINE q == req[h]
<1>1. TypeOK /\ IInv /\ q \in Request /\ InStep(q) /\ table \in Table /\ q.pc = "insert"
      /\ q.row \in Row /\ AtHome(q.row)
  BY SerialFacts DEF InsertRow, Running, At, Resting
<1>2. q.op = "create"
  BY <1>1 DEF InStep
<1>3. /\ nextId \in Ids /\ DomainFree(table, q.row.domain) /\ table' = CreateSite(table, nextId, q.row)
      /\ req' = [req EXCEPT ![h].id = nextId, ![h].pc = "provision"]
  BY DEF InsertRow
<1>4. /\ table[nextId] = NoRow /\ table'[nextId] = [q.row EXCEPT !.cert = FALSE]
      /\ \A i \in Ids \ {nextId} : table'[i] = table[i]
  BY <1>1, <1>3, InsertKeeps
<1>5. /\ req'[h].pc = "provision" /\ req'[h].id = nextId /\ req'[h].op = "create" /\ req'[h].row = q.row
      /\ req'[h].live = q.live
  BY <1>1, <1>2, <1>3 DEF TypeOK, Request
<1>6. PICK s : s = [q.row EXCEPT !.cert = FALSE]
  OBVIOUS
<1>7. s \in Row /\ s.domain = q.row.domain /\ s.home = q.row.home /\ s.owner = q.row.owner
  BY <1>1, <1>6 DEF Row
<1>8. (\A i \in Ids : table[i] # NoRow => AtHome(table[i]))' /\ AtHome(req'[h].row)
  <2>1. AtHome(s) /\ AtHome(req'[h].row)
    BY <1>1, <1>5, <1>7 DEF AtHome
  <2> SUFFICES ASSUME NEW i \in Ids, table'[i] # NoRow PROVE AtHome(table'[i])
    BY <2>1 DEF AtHome
  <2>2. CASE i = nextId
    BY <1>4, <1>6, <2>1, <2>2
  <2>3. CASE i # nextId
    BY <1>4, <2>3, SerialFacts
  <2> QED BY <2>2, <2>3
<1>9. HasWritten(req[h])'
  BY <1>4, <1>5, <1>6, <1>7, NoRowAssumption DEF HasWritten, Updates
<1>10. HasRead(req[h])' /\ HasDropped(req[h])'
  BY <1>5 DEF HasRead, HasDropped, Deletes
<1>11. AloneInv'
  BY <1>8, <1>9, <1>10, AloneNext
<1> QED BY <1>1, <1>2, <1>3, <1>4, <1>5, <1>11

LEMMA InsertRefused ==
  ASSUME SerialInv, NEW h \in Handlers, InsertRow(h), table' = table
  PROVE  req[h].pc = "insert" /\ req'[h].pc = "failed" /\ req'[h].live = req[h].live
<1>1. TypeOK /\ table \in Table /\ req[h].pc = "insert" /\ req[h].row \in Row
  BY SerialFacts DEF InsertRow, Running, At, Resting
<1>2. nextId \in Ids => table[nextId] = NoRow
  BY SerialFacts DEF IInv, TypeOK, Fresh, Ids
<1>3. [req[h].row EXCEPT !.cert = FALSE] \in Row
  BY <1>1 DEF Row
<1>4. nextId \in Ids => CreateSite(table, nextId, req[h].row) # table
  BY <1>1, <1>2, <1>3, NoRowAssumption DEF CreateSite, Table
<1>5. Answer(h, "failed")
  BY <1>4 DEF InsertRow
<1> QED BY <1>1, <1>5, AnswerFields DEF Resting

(* What each undo writes.                                                  *)
LEMMA Unwound ==
  ASSUME SerialInv, NEW h \in Handlers, Unwind(h)
  PROVE  LET q == req[h] IN
         /\ q.pc = "unwind" /\ q.id \in Ids /\ q.row \in Row
         /\ req'[h].pc = "failed" /\ req'[h].live = q.live
         /\ \/ /\ q.op = "create" /\ table[q.id] # NoRow
               /\ \A i \in Ids : table'[i] = IF i = q.id THEN NoRow ELSE table[i]
            \/ /\ q.op \in Updates /\ q.prev \in Row /\ table[q.id] # NoRow
               /\ \A i \in Ids : table'[i] = IF i = q.id THEN q.prev ELSE table[i]
            \/ /\ q.op \in Deletes /\ nextId \in Ids /\ table[nextId] = NoRow
               /\ table'[nextId] = [q.row EXCEPT !.cert = FALSE]
               /\ \A i \in Ids \ {nextId} : table'[i] = table[i]
            \/ q.op \in Deletes /\ table' = table
<1> DEFINE q == req[h]
<1>1. IInv /\ TypeOK /\ q \in Request /\ InStep(q) /\ HasWritten(q) /\ table \in Table /\ q.pc = "unwind"
  BY SerialFacts DEF Unwind, Running, At
<1>2. q.id \in Ids /\ q.row \in Row /\ (q.op \in Updates => q.prev \in Row)
  BY <1>1 DEF InStep, Resting
<1>3. req'[h].pc = "failed" /\ req'[h].live = q.live
  BY <1>1, AnswerFields DEF Unwind, Resting
<1>4. CASE q.op = "create" /\ table' = DeleteSite(table, q.id)
  <2>1. table[q.id] # NoRow
    BY <1>1, <1>4 DEF HasWritten, Changing
  <2>2. \A i \in Ids : table'[i] = IF i = q.id THEN NoRow ELSE table[i]
    BY <1>1, <1>2, <1>4 DEF DeleteSite, Table
  <2> QED BY <1>1, <1>2, <1>3, <1>4, <2>1, <2>2
<1>5. CASE q.op \in Updates /\ table' = UpdateSite(table, q.id, q.prev)
  <2>1. table[q.id] # NoRow /\ table[q.id].domain = q.prev.domain /\ table[q.id].owner = q.prev.owner
    BY <1>1, <1>5 DEF HasWritten, Changing
  <2>2. [q.prev EXCEPT !.domain = table[q.id].domain, !.owner = table[q.id].owner] = q.prev
    BY <1>2, <1>5, <2>1 DEF Row
  <2>3. table' = [table EXCEPT ![q.id] = q.prev]
    BY <1>5, <2>1, <2>2 DEF UpdateSite
  <2>4. \A i \in Ids : table'[i] = IF i = q.id THEN q.prev ELSE table[i]
    BY <1>1, <2>3 DEF Table
  <2> QED BY <1>1, <1>2, <1>3, <1>5, <2>1, <2>4
<1>6. CASE q.op \in Deletes /\ DomainFree(table, q.row.domain) /\ nextId \in Ids /\ table' = CreateSite(table, nextId, q.row)
  BY <1>1, <1>2, <1>3, <1>6, InsertKeeps
<1>7. CASE q.op \in Deletes /\ table' = table
  BY <1>1, <1>2, <1>3, <1>7
<1> QED BY <1>4, <1>5, <1>6, <1>7 DEF Unwind

LEMMA AloneUnwinds ==
  ASSUME OneHandler, SerialInv, NEW h \in Handlers, Unwind(h)
  PROVE  AloneInv'
<1> DEFINE q == req[h]
<1>1. /\ q.pc = "unwind" /\ q.id \in Ids /\ q.row \in Row /\ req'[h].pc = "failed"
  BY Unwound
<1>2. HasWritten(q) /\ AtHome(q.row) /\ \A i \in Ids : table[i] # NoRow => AtHome(table[i])
  BY <1>1, SerialFacts DEF Resting
<1>3. PICK s : s = [q.row EXCEPT !.cert = FALSE]
  OBVIOUS
<1>4. AtHome(s)
  BY <1>1, <1>2, <1>3 DEF AtHome, Row
<1>5. q.op \in Updates => AtHome(q.prev)
  BY <1>1, <1>2 DEF HasWritten, AtHome, Changing
<1>6. (\A i \in Ids : table[i] # NoRow => AtHome(table[i]))'
  <2> SUFFICES ASSUME NEW i \in Ids, table'[i] # NoRow PROVE AtHome(table'[i])
    BY DEF AtHome
  <2>1. table'[i] = table[i] \/ table'[i] = s \/ (q.op \in Updates /\ table'[i] = q.prev)
    BY <1>3, Unwound
  <2> QED BY <1>2, <1>4, <1>5, <2>1
<1> QED BY <1>1, <1>6, AloneAtRest DEF Resting

LEMMA NextSerial ==
  ASSUME OneHandler, SerialInv, [Next]_vars
  PROVE  SerialInv'
<1>1. ASSUME NEW h \in Handlers, BeginCreate(h) \/ BeginOnRow(h) PROVE AloneInv'
  BY <1>1, AloneBegins
<1>2. ASSUME NEW h \in Handlers, Handle(h) \/ Cancel(h) PROVE AloneInv'
  <2>1. CASE InsertRow(h)
    <3>1. CASE table' = table
      BY <1>2, <2>1, <3>1, InsertRefused, AloneRestSame DEF Resting
    <3> QED BY <1>2, <2>1, <3>1, AloneInserts
  <2> QED BY <1>2, <2>1, AloneChecks, AloneAgent, AloneIssues, AloneWrites, AloneDrops, OwnerSet, AloneUnwinds DEF Handle
<1>3. ASSUME LateApply \/ LateMove \/ UNCHANGED vars PROVE AloneInv'
  <2>1. req' = req /\ table' = table
    BY <1>3 DEF LateApply, LateMove, vars
  <2>2. ASSUME NEW h \in Handlers
        PROVE  (req[h].pc \notin Resting => AtHome(req[h].row))' /\ HasRead(req[h])' /\ HasWritten(req[h])' /\ HasDropped(req[h])'
    BY <2>1 DEF SerialInv, AloneInv, HasRead, HasWritten, HasDropped, DomainFree
  <2>3. (\A i \in Ids : table[i] # NoRow => AtHome(table[i]))'
    BY <2>1 DEF SerialInv, AloneInv
  <2> QED BY <2>2, <2>3 DEF AloneInv, AtHome
<1>4. NamesInv'
  BY NextNames DEF SerialInv
<1> QED BY <1>1, <1>2, <1>3, <1>4 DEF Next, SerialInv

LEMMA InitSerial == Init => SerialInv
<1> SUFFICES ASSUME Init PROVE SerialInv
  OBVIOUS
<1>1. \A i \in Ids : table[i] # NoRow => AtHome(table[i])
  BY FirstTableAssumption DEF Init, RowsOf, AtHome
<1>2. \A h \in Handlers : req[h].pc = "idle"
  BY DEF Init, NoRequest
<1> QED BY <1>1, <1>2, InitNames DEF SerialInv, AloneInv, HasRead, HasWritten, HasDropped, Resting, Reading, Changing

LEMMA SerialInvariance ==
  ASSUME OneHandler
  PROVE  Spec => []SerialInv
<1>1. SerialInv /\ [Next]_vars => SerialInv'
  BY NextSerial
<1> QED BY <1>1, InitSerial, PTL DEF Spec

(* Requests one after the other: a site's suspension is lifted only by a   *)
(* request to resume it, or when a row is put back after a failed apply -  *)
(* an update writes every column, but with what is still there.            *)
THEOREM SuspensionsHold ==
  ASSUME OneHandler
  PROVE  Spec => SuspensionHolds
<1>1. ASSUME SerialInv, [Next]_vars, NEW i \in Ids,
             table[i] # NoRow, table'[i] # NoRow, table[i].suspended, ~ table'[i].suspended
      PROVE  \E h \in Handlers : req[h].id = i /\ (req[h].op = "resume" \/ At(h, "unwind"))
  <2>1. PICK h \in Handlers : RowStepOf(h)
    BY <1>1, TableChanges
  <2> DEFINE q == req[h]
  <2>2. ~ DropRow(h)
    <3>1. DropRow(h) => table'[i] = table[i] \/ table'[i] = NoRow
      BY <1>1, AloneDrops
    <3> QED BY <1>1, <3>1
  <2>3. ~ SetOwner(h)
    <3>1. SetOwner(h) => table'[i].suspended = table[i].suspended
      BY <1>1, OwnerSet
    <3> QED BY <1>1, <3>1
  <2>4. ~ InsertRow(h)
    <3>1. InsertRow(h) => table'[i] = table[i] \/ table[i] = NoRow
      BY <1>1, AloneInserts
    <3> QED BY <1>1, <3>1
  <2>5. CASE WriteRow(h)
    <3>1. q.id = i /\ ~ q.row.suspended
      <4>1. /\ q.id \in Ids /\ table' = [table EXCEPT ![q.id] = q.row]
        BY <1>1, <2>5, RowWritten
      <4> QED BY <1>1, <4>1, SerialFacts DEF Table
    <3>2. HasRead(q) /\ q.op \in Updates \cup {"issue", "attach", "disable"} /\ q.pc = "write"
      BY <1>1, <2>5, RowWritten, SerialFacts
    <3>3. q.op = "resume"
      BY <1>1, <3>1, <3>2 DEF HasRead, Reading, Updates
    <3> QED BY <3>1, <3>3
  <2>6. CASE Unwind(h)
    <3>1. q.pc = "unwind" /\ (q.id = i \/ table'[i] = table[i] \/ table[i] = NoRow)
      BY <1>1, <2>6, Unwound
    <3> QED BY <1>1, <3>1 DEF At
  <2> QED BY <2>1, <2>2, <2>3, <2>4, <2>5, <2>6 DEF RowStepOf
<1>2. SerialInv /\ [Next]_vars =>
        [\A i \in Ids :
           table[i] # NoRow /\ table'[i] # NoRow /\ table[i].suspended /\ ~ table'[i].suspended
             => \E h \in Handlers : req[h].id = i /\ (req[h].op = "resume" \/ At(h, "unwind"))]_vars
  BY <1>1
<1> QED BY <1>2, SerialInvariance, PTL DEF Spec, SuspensionHolds

-----------------------------------------------------------------------------
(* Where no call is given up, a purge takes its site out first.            *)

LEMMA WithdrawnNext ==
  ASSUME OneHandler, NEW h \in Handlers, late' = {}, Withdrawn(req[h])'
  PROVE  WithdrawnInv'
<1>1. \A g \in Handlers : g = h
  BY DEF OneHandler
<1> QED BY <1>1 DEF WithdrawnInv

LEMMA NextWithdrawn ==
  ASSUME OneHandler, GiveUpOn = {}, SerialInv, WithdrawnInv, [Next]_vars
  PROVE  WithdrawnInv'
<1>1. ASSUME NEW h \in Handlers, BeginCreate(h) \/ BeginOnRow(h) PROVE WithdrawnInv'
  <2>1. Starts(req'[h]) /\ late' = {}
    BY <1>1, Begun, SerialFacts DEF WithdrawnInv
  <2>2. Withdrawn(req[h])'
    BY <2>1 DEF Starts, Reading, Withdrawn
  <2> QED BY <2>1, <2>2, WithdrawnNext
<1>2. ASSUME NEW h \in Handlers, Handle(h) PROVE WithdrawnInv'
  <2>0. TypeOK /\ req[h] \in Request /\ InStep(req[h]) /\ Withdrawn(req[h]) /\ HasDropped(req[h])
    BY <1>2, SerialFacts DEF WithdrawnInv
  <2>1. late' = {}
    BY <1>2 DEF Handle, WithdrawnInv, CheckHostnames, CheckSite, Refuse, Reread, InsertRow, DropRow, WriteRow,
                SetOwner, Unwind, Provision, RemoveFiles, IssueCert, MoveFiles, Snapshot, Apply, ApplyFails,
                Interrupted, GiveUp
  <2>2. CASE req'[h].pc \notin {"apply", "remove"}
    <3>1. Withdrawn(req[h])'
      BY <2>2 DEF Withdrawn
    <3> QED BY <1>2, <2>1, <3>1, WithdrawnNext
  <2>3. CASE Snapshot(h)
    <3>1. /\ req'[h].pc = "apply" /\ req'[h].op = req[h].op /\ req'[h].row = req[h].row
          /\ req'[h].specs = RowsOf(table) /\ req[h].pc = "snapshot"
      BY <2>0, <2>3 DEF Snapshot, TypeOK, Request, Running, At
    <3>2. Withdrawn(req[h])'
      BY <2>0, <3>1 DEF Withdrawn, HasDropped, Changing, DomainFree, RowsOf
    <3> QED BY <1>2, <2>1, <3>2, WithdrawnNext
  <2>4. CASE Apply(h) /\ req'[h].pc = "remove"
    <3>1. Leave(h, "remove") /\ served' = req[h].specs /\ req[h].pc = "apply"
      <4>1. Leave(h, "remove") \/ Leave(h, "done")
        BY <2>4 DEF Apply
      <4>2. ~ Leave(h, "done")
        BY <1>2, <2>0, <2>4, LeaveFields DEF Steps, Resting
      <4> QED BY <2>4, <4>1, <4>2 DEF Apply, At
    <3>2. req'[h].op = req[h].op /\ req'[h].row = req[h].row
      BY <1>2, <2>0, <3>1, LeaveFields DEF Steps, Resting
    <3>3. Withdrawn(req[h])'
      BY <2>0, <2>4, <3>1, <3>2 DEF Withdrawn
    <3> QED BY <1>2, <2>1, <3>3, WithdrawnNext
  <2>5. \/ req'[h].pc \notin {"apply", "remove"}
        \/ Snapshot(h) \/ (Apply(h) /\ req'[h].pc = "remove")
    <3> USE <2>0 DEF Steps, Resting
    <3>1. CASE CheckHostnames(h) \/ CheckSite(h) \/ Refuse(h)
      <4>1. CASE CheckHostnames(h)
        BY <1>2, <4>1, GotoFields, AnswerFields DEF CheckHostnames
      <4>2. CASE CheckSite(h)
        BY <1>2, <4>2, GotoFields, AnswerFields DEF CheckSite
      <4>3. CASE Refuse(h)
        BY <1>2, <4>3, AnswerFields DEF Refuse
      <4> QED BY <3>1, <4>1, <4>2, <4>3
    <3>2. CASE Reread(h) \/ InsertRow(h) \/ IssueCert(h)
      <4>1. CASE Reread(h)
        BY <1>2, <4>1, AnswerFields DEF Reread, TypeOK, Request
      <4>2. CASE InsertRow(h)
        BY <1>2, <4>2, AnswerFields DEF InsertRow, TypeOK, Request
      <4>3. CASE IssueCert(h)
        BY <1>2, <4>3, AnswerFields DEF IssueCert, TypeOK, Request
      <4> QED BY <3>2, <4>1, <4>2, <4>3
    <3>3. CASE DropRow(h) \/ WriteRow(h) \/ SetOwner(h) \/ Unwind(h)
      <4>1. CASE DropRow(h)
        BY <1>2, <4>1, GotoFields DEF DropRow
      <4>2. CASE WriteRow(h)
        BY <1>2, <4>2, GotoFields DEF WriteRow
      <4>3. CASE SetOwner(h)
        BY <1>2, <4>3, GotoFields DEF SetOwner
      <4>4. CASE Unwind(h)
        BY <1>2, <4>4, AnswerFields DEF Unwind
      <4> QED BY <3>3, <4>1, <4>2, <4>3, <4>4
    <3>4. CASE Provision(h) \/ RemoveFiles(h) \/ MoveFiles(h)
      <4>1. CASE Provision(h)
        <5>1. Goto(h, "snapshot") \/ Goto(h, "unwind")
          BY <4>1 DEF Provision
        <5> QED BY <1>2, <5>1, GotoFields
      <4>2. CASE RemoveFiles(h)
        BY <1>2, <4>2, AnswerFields DEF RemoveFiles
      <4>3. CASE MoveFiles(h)
        <5>1. Goto(h, "setowner") \/ Answer(h, "failed")
          BY <4>3 DEF MoveFiles
        <5> QED BY <1>2, <5>1, GotoFields, AnswerFields
      <4> QED BY <3>4, <4>1, <4>2, <4>3
    <3>5. CASE ApplyFails(h) \/ Interrupted(h) \/ GiveUp(h)
      <4>1. CASE ApplyFails(h)
        BY <1>2, <4>1, LeaveFields DEF ApplyFails, AfterFailedSync
      <4>2. CASE Interrupted(h)
        BY <1>2, <4>2, LeaveFields, AnswerFields DEF Interrupted, AfterFailedSync
      <4>3. CASE GiveUp(h)
        BY <1>2, <4>3, LeaveFields, AnswerFields DEF GiveUp, AfterFailedSync
      <4> QED BY <3>5, <4>1, <4>2, <4>3
    <3>6. CASE Apply(h)
      BY <1>2, <3>6, LeaveFields DEF Apply
    <3> QED BY <1>2, <3>1, <3>2, <3>3, <3>4, <3>5, <3>6 DEF Handle
  <2> QED BY <2>2, <2>3, <2>4, <2>5
<1>3. ASSUME NEW h \in Handlers, Cancel(h) PROVE WithdrawnInv'
  <2>1. /\ req'[h].op = req[h].op /\ req'[h].pc = req[h].pc /\ req'[h].row = req[h].row
        /\ req'[h].specs = req[h].specs /\ late' = late /\ served' = served
    BY <1>3, SerialFacts DEF Cancel, TypeOK, Request
  <2>2. Withdrawn(req[h])'
    BY <1>3, <2>1 DEF WithdrawnInv, Withdrawn
  <2> QED BY <1>3, <2>1, <2>2, WithdrawnNext DEF WithdrawnInv
<1>4. ~ LateApply /\ ~ LateMove
  BY DEF LateApply, LateMove, WithdrawnInv
<1>5. CASE UNCHANGED vars
  BY <1>5 DEF vars, WithdrawnInv, Withdrawn
<1> QED BY <1>1, <1>2, <1>3, <1>4, <1>5 DEF Next

LEMMA InitWithdrawn == Init => WithdrawnInv
BY DEF Init, NoRequest, WithdrawnInv, Withdrawn, Deletes

LEMMA WithdrawnInvariance ==
  ASSUME OneHandler, GiveUpOn = {}
  PROVE  Spec => []WithdrawnInv
<1>1. SerialInv /\ WithdrawnInv /\ [Next]_vars => WithdrawnInv'
  BY NextWithdrawn
<1> QED BY <1>1, InitWithdrawn, SerialInvariance, PTL DEF Spec

(* Requests one after the other and no call given up at its deadline,      *)
(* whatever fails and whoever leaves: no purge removes a directory that is *)
(* still served.                                                           *)
THEOREM PurgesWithdrawFirst ==
  ASSUME OneHandler, GiveUpOn = {}
  PROVE  Spec => FilesLeaveLast
<1>1. ASSUME SerialInv, WithdrawnInv, [Next]_vars, NEW h \in Handlers, At(h, "remove"),
             NEW dir \in files \ files'
      PROVE  \A r \in served : <<r.home, r.domain>> # dir
  <2>1. Withdrawn(req[h]) /\ req[h].op \in Deletes /\ req[h].pc = "remove"
    BY <1>1, SerialFacts DEF WithdrawnInv, InStep, At
  <2>2. RemoveFiles(h)
    <3>1. ASSUME NEW g \in Handlers, BeginCreate(g) \/ BeginOnRow(g) \/ Cancel(g) PROVE files' = files
      BY <3>1 DEF BeginCreate, BeginOnRow, Begin, Cancel
    <3>2. ASSUME NEW g \in Handlers, Handle(g) PROVE RemoveFiles(h) \/ files' = files
      <4>1. g = h
        BY DEF OneHandler
      <4> QED BY <2>1, <3>2, <4>1 DEF Handle, CheckHostnames, CheckSite, Refuse, Reread, InsertRow, DropRow,
             WriteRow, SetOwner, Unwind, Provision, IssueCert, MoveFiles, Snapshot, Apply, ApplyFails,
             Interrupted, GiveUp, At, Running
    <3>3. ~ LateApply /\ ~ LateMove
      BY <1>1 DEF LateApply, LateMove, WithdrawnInv
    <3> QED BY <1>1, <3>1, <3>2, <3>3 DEF Next, vars
  <2>3. dir = <<req[h].row.home, req[h].row.domain>>
    BY <1>1, <2>2 DEF RemoveFiles
  <2> QED BY <2>1, <2>3 DEF Withdrawn
<1>2. SerialInv /\ WithdrawnInv /\ [Next]_vars =>
        [\A h \in Handlers : At(h, "remove") =>
           \A dir \in files \ files' : \A r \in served : <<r.home, r.domain>> # dir]_vars
  BY <1>1
<1> QED BY <1>2, SerialInvariance, WithdrawnInvariance, PTL DEF Spec, FilesLeaveLast

-----------------------------------------------------------------------------
(* A row's directory follows it, when a client waits for the answers.      *)

LEMMA FilesFacts ==
  ASSUME OneHandler, Staying, SerialInv, FilesInv, NEW h \in Handlers
  PROVE  /\ TypeOK /\ req[h] \in Request /\ InStep(req[h]) /\ table \in Table
         /\ req[h].live
         /\ \A i \in Ids : table[i] # NoRow => Placed(table[i]) \/ Unplaced(req[h], i)
         /\ req[h].pc = "setowner" \/ (req[h].op \in Deletes /\ req[h].pc \in Changing) => Placed(req[h].row)
<1>1. \A g \in Handlers : g = h
  BY DEF OneHandler
<1> QED BY <1>1, SerialFacts DEF FilesInv

LEMMA FilesNext ==
  ASSUME OneHandler, NEW h \in Handlers,
         \A c \in late' : c.kind = "apply",
         req'[h].live,
         (\A i \in Ids : table[i] # NoRow => Placed(table[i]) \/ Unplaced(req[h], i))',
         (req[h].pc = "setowner" \/ (req[h].op \in Deletes /\ req[h].pc \in Changing) => Placed(req[h].row))'
  PROVE  FilesInv'
<1>1. \A g \in Handlers : g = h
  BY DEF OneHandler
<1>2. (\A i \in Ids : table[i] # NoRow => Placed(table[i]) \/ \E g \in Handlers : Unplaced(req[g], i))'
  BY DEF Placed
<1>3. (\A g \in Handlers : /\ req[g].live
                           /\ req[g].pc = "setowner" \/ (req[g].op \in Deletes /\ req[g].pc \in Changing)
                                => Placed(req[g].row))'
  BY <1>1 DEF Placed
<1> QED BY <1>2, <1>3 DEF FilesInv, Placed

(* Between requests, and before a row is written, nothing is on the move.  *)
LEMMA FilesRest ==
  ASSUME OneHandler, Staying, SerialInv, FilesInv, NEW h \in Handlers,
         table' = table, files' = files, \A c \in late' : c.kind = "apply", req'[h].live,
         req[h].pc \notin {"setowner", "provision", "unwind"},
         req'[h].pc \notin Changing \cup {"setowner"}
  PROVE  FilesInv'
<1>1. (\A i \in Ids : table[i] # NoRow => Placed(table[i]) \/ Unplaced(req[h], i))'
  BY FilesFacts DEF Placed, Unplaced
<1> QED BY <1>1, FilesNext

LEMMA FilesKept ==
  ASSUME OneHandler, Staying, SerialInv, FilesInv, NEW h \in Handlers,
         table' = table, files' = files, \A c \in late' : c.kind = "apply", req'[h].live,
         req[h].pc \in {"snapshot", "apply"}, req'[h].pc \in {"apply", "unwind"},
         req'[h].op = req[h].op, req'[h].row = req[h].row
  PROVE  FilesInv'
<1>1. (\A i \in Ids : table[i] # NoRow => Placed(table[i]) \/ Unplaced(req[h], i))'
  BY FilesFacts DEF Placed, Unplaced
<1>2. (req[h].pc = "setowner" \/ (req[h].op \in Deletes /\ req[h].pc \in Changing) => Placed(req[h].row))'
  BY FilesFacts DEF Placed, Changing
<1> QED BY <1>1, <1>2, FilesNext

LEMMA FilesBefore ==
  ASSUME OneHandler, Staying, SerialInv, FilesInv, NEW h \in Handlers,
         \/ BeginCreate(h) \/ BeginOnRow(h)
         \/ CheckHostnames(h) \/ CheckSite(h) \/ Refuse(h) \/ Reread(h) \/ IssueCert(h)
         \/ (InsertRow(h) /\ table' = table)
  PROVE  FilesInv'
<1>0. /\ TypeOK /\ req[h] \in Request /\ req[h].live /\ \A c \in late : c.kind = "apply"
  BY FilesFacts DEF FilesInv
<1>1. CASE BeginCreate(h) \/ BeginOnRow(h)
  <2>1. Starts(req'[h]) /\ UNCHANGED <<table, files, late>> /\ req[h].pc \in Resting
    BY <1>1, Begun, SerialFacts
  <2> QED BY <1>0, <2>1, FilesRest DEF Starts, Reading, Changing, Resting
<1>2. CASE CheckHostnames(h) \/ CheckSite(h) \/ Refuse(h) \/ Reread(h) \/ IssueCert(h)
  <2>1. UNCHANGED <<table, files, late>> /\ req[h].pc \in {"hostnames", "limit", "insert", "move", "reread", "issue"}
    BY <1>2 DEF CheckHostnames, CheckSite, Refuse, Reread, IssueCert, Running, At
  <2>2. CASE Answer(h, "failed")
    BY <1>0, <2>1, <2>2, AnswerFields, FilesRest DEF Resting, Changing
  <2>3. CASE \E pc \in {"limit", "reread", "insert", "move"} : Goto(h, pc)
    <3>1. PICK pc \in {"limit", "reread", "insert", "move"} : Goto(h, pc)
      BY <2>3
    <3>2. req'[h].pc = pc /\ req'[h].live
      BY <1>0, <3>1, GotoFields DEF Steps
    <3> QED BY <1>0, <2>1, <3>2, FilesRest DEF Changing
  <2>4. CASE req' = [req EXCEPT ![h].prev = table[req[h].id], ![h].pc = "write"]
    <3>1. req'[h].pc = "write" /\ req'[h].live
      BY <1>0, <2>4 DEF TypeOK, Request
    <3> QED BY <1>0, <2>1, <3>1, FilesRest DEF Changing
  <2>5. CASE req' = [req EXCEPT ![h].row.ssl = TRUE, ![h].row.cert = TRUE, ![h].pc = "write"]
    <3>1. req'[h].pc = "write" /\ req'[h].live
      BY <1>0, <2>5 DEF TypeOK, Request
    <3> QED BY <1>0, <2>1, <3>1, FilesRest DEF Changing
  <2> QED BY <1>2, <2>2, <2>3, <2>4, <2>5 DEF CheckHostnames, CheckSite, Refuse, Reread, IssueCert
<1>3. CASE InsertRow(h) /\ table' = table
  <2>1. req[h].pc = "insert" /\ req'[h].pc = "failed" /\ req'[h].live /\ UNCHANGED <<files, late>>
    BY <1>0, <1>3, InsertRefused DEF InsertRow
  <2> QED BY <1>0, <1>3, <2>1, FilesRest DEF Changing
<1> QED BY <1>1, <1>2, <1>3

LEMMA FilesOfRows ==
  ASSUME OneHandler, Staying, SerialInv, FilesInv, NEW h \in Handlers, RowStepOf(h)
  PROVE  FilesInv'
<1> DEFINE q == req[h]
<1>0. /\ TypeOK /\ q \in Request /\ q.live /\ files' = files /\ \A c \in late' : c.kind = "apply"
  BY FilesFacts DEF FilesInv, RowStepOf, DropRow, WriteRow, SetOwner, InsertRow, Unwind
<1>1. CASE DropRow(h)
  <2>1. /\ q.op \in Deletes /\ q.id \in Ids /\ table[q.id] # NoRow /\ q.pc = "drop"
        /\ table[q.id].domain = q.row.domain /\ table[q.id].home = q.row.home
        /\ \A i \in Ids : table'[i] = IF i = q.id THEN NoRow ELSE table[i]
    BY <1>1, AloneDrops DEF DropRow, Running, At
  <2>2. req'[h].pc = "snapshot" /\ req'[h].live /\ req'[h].row = q.row
    BY <1>0, <1>1, GotoFields DEF DropRow, Steps
  <2>3. Placed(q.row) /\ \A i \in Ids : table[i] # NoRow => Placed(table[i])
    BY <2>1, FilesFacts DEF Placed, Unplaced
  <2>4. (\A i \in Ids : table[i] # NoRow => Placed(table[i]) \/ Unplaced(req[h], i))'
    BY <1>0, <2>1, <2>3 DEF Placed
  <2>5. Placed(req[h].row)'
    BY <1>0, <2>2, <2>3 DEF Placed
  <2> QED BY <1>0, <2>2, <2>4, <2>5, FilesNext
<1>2. CASE WriteRow(h)
  <2>1. /\ q.id \in Ids /\ table[q.id] \in Row /\ q.row.domain = table[q.id].domain
        /\ q.op \in Updates \cup {"issue", "attach", "disable"} /\ q.pc = "write"
        /\ q.row.home = table[q.id].home
        /\ table' = [table EXCEPT ![q.id] = q.row]
    BY <1>2, RowWritten
  <2>2. req'[h].pc = "snapshot" /\ req'[h].live /\ req'[h].op = q.op
    BY <1>0, <1>2, GotoFields DEF WriteRow, Steps
  <2>3. \A i \in Ids : table'[i] = IF i = q.id THEN q.row ELSE table[i]
    BY <2>1, FilesFacts DEF Table
  <2>4. Placed(q.row) /\ \A i \in Ids : table[i] # NoRow => Placed(table[i])
    <3>1. \A i \in Ids : table[i] # NoRow => Placed(table[i])
      BY <2>1, FilesFacts DEF Unplaced
    <3> QED BY <2>1, <3>1, NoRowAssumption DEF Placed
  <2>5. (\A i \in Ids : table[i] # NoRow => Placed(table[i]) \/ Unplaced(req[h], i))'
    BY <1>0, <2>3, <2>4 DEF Placed
  <2> QED BY <1>0, <2>1, <2>2, <2>5, FilesNext DEF Updates, Deletes
<1>3. CASE SetOwner(h)
  <2>1. /\ q.op = "chown" /\ q.id \in Ids /\ q.pc = "setowner"
        /\ table'[q.id].domain = q.row.domain /\ table'[q.id].home = q.row.home
        /\ \A i \in Ids \ {q.id} : table'[i] = table[i]
    BY <1>3, OwnerSet DEF SetOwner, Running, At
  <2>2. req'[h].pc = "snapshot" /\ req'[h].live /\ req'[h].op = q.op
    BY <1>0, <1>3, GotoFields DEF SetOwner, Steps
  <2>3. Placed(q.row) /\ \A i \in Ids \ {q.id} : table[i] # NoRow => Placed(table[i])
    BY <2>1, FilesFacts DEF Unplaced
  <2>4. (\A i \in Ids : table[i] # NoRow => Placed(table[i]) \/ Unplaced(req[h], i))'
    BY <1>0, <2>1, <2>3 DEF Placed
  <2> QED BY <1>0, <2>1, <2>2, <2>4, FilesNext DEF Deletes
<1>4. CASE InsertRow(h) /\ table' # table
  <2>1. /\ q.pc = "insert" /\ q.op = "create" /\ nextId \in Ids
        /\ \A i \in Ids \ {nextId} : table'[i] = table[i]
        /\ req'[h].pc = "provision" /\ req'[h].id = nextId /\ req'[h].op = "create" /\ req'[h].live
    BY <1>0, <1>4, AloneInserts
  <2>2. \A i \in Ids : table[i] # NoRow => Placed(table[i])
    BY <2>1, FilesFacts DEF Unplaced
  <2>3. (\A i \in Ids : table[i] # NoRow => Placed(table[i]) \/ Unplaced(req[h], i))'
    BY <1>0, <2>1, <2>2 DEF Placed, Unplaced
  <2> QED BY <1>0, <2>1, <2>3, FilesNext DEF Deletes
<1>5. CASE Unwind(h)
  <2>1. /\ q.pc = "unwind" /\ q.id \in Ids /\ q.row \in Row /\ req'[h].pc = "failed" /\ req'[h].live
    BY <1>0, <1>5, Unwound
  <2>2. \A i \in Ids : table'[i] # NoRow => Placed(table'[i])
    <3>1. CASE /\ q.op = "create"
               /\ \A i \in Ids : table'[i] = IF i = q.id THEN NoRow ELSE table[i]
      BY <2>1, <3>1, FilesFacts DEF Unplaced
    <3>2. CASE /\ q.op \in Updates /\ table[q.id] # NoRow
               /\ \A i \in Ids : table'[i] = IF i = q.id THEN q.prev ELSE table[i]
      <4>1. \A i \in Ids : table[i] # NoRow => Placed(table[i])
        BY <2>1, <3>2, FilesFacts DEF Unplaced, Updates
      <4>2. table[q.id].domain = q.prev.domain /\ table[q.id].home = q.prev.home
        BY <2>1, <3>2, SerialFacts DEF HasWritten, Changing
      <4>3. Placed(q.prev)
        BY <2>1, <3>2, <4>1, <4>2 DEF Placed
      <4> QED BY <3>2, <4>1, <4>3
    <3>3. CASE /\ q.op \in Deletes /\ nextId \in Ids
               /\ table'[nextId] = [q.row EXCEPT !.cert = FALSE]
               /\ \A i \in Ids \ {nextId} : table'[i] = table[i]
      <4>1. \A i \in Ids : table[i] # NoRow => Placed(table[i])
        BY <2>1, <3>3, FilesFacts DEF Unplaced, Deletes
      <4>2. Placed(q.row)
        BY <2>1, <3>3, FilesFacts DEF Changing
      <4>3. PICK s : s = [q.row EXCEPT !.cert = FALSE]
        OBVIOUS
      <4>4. Placed(s)
        BY <2>1, <4>2, <4>3 DEF Placed, Row
      <4> QED BY <3>3, <4>1, <4>3, <4>4
    <3>4. CASE q.op \in Deletes /\ table' = table
      BY <2>1, <3>4, <1>0, FilesFacts DEF Unplaced, Deletes
    <3> QED BY <1>5, <3>1, <3>2, <3>3, <3>4, Unwound
  <2>3. (\A i \in Ids : table[i] # NoRow => Placed(table[i]) \/ Unplaced(req[h], i))'
    BY <1>0, <2>2 DEF Placed
  <2> QED BY <1>0, <2>1, <2>3, FilesNext DEF Changing
<1>6. CASE InsertRow(h) /\ table' = table
  BY <1>6, FilesBefore
<1> QED BY <1>1, <1>2, <1>3, <1>4, <1>5, <1>6 DEF RowStepOf

LEMMA FilesOfAgent ==
  ASSUME OneHandler, Staying, SerialInv, FilesInv, NEW h \in Handlers,
         Provision(h) \/ RemoveFiles(h) \/ MoveFiles(h)
  PROVE  FilesInv'
<1> DEFINE q == req[h]
<1>0. /\ TypeOK /\ q \in Request /\ InStep(q) /\ q.live /\ table' = table /\ \A c \in late' : c.kind = "apply"
      /\ q.row \in Row /\ AtHome(q.row) /\ HasRead(q) /\ HasWritten(q) /\ HasDropped(q) /\ DomainsOnce
  BY FilesFacts, SerialFacts DEF FilesInv, Provision, RemoveFiles, MoveFiles, Running, At, Resting
<1>1. CASE Provision(h)
  <2>1. /\ q.pc = "provision" /\ q.op = "create" /\ q.id \in Ids /\ files \subseteq files'
        /\ \/ Goto(h, "snapshot") /\ <<q.row.home, q.row.domain>> \in files'
           \/ Goto(h, "unwind")
    BY <1>0, <1>1 DEF Provision, Running, At, InStep, Resting
  <2>2. /\ req'[h].live /\ req'[h].op = "create" /\ req'[h].id = q.id
        /\ \/ req'[h].pc = "snapshot" /\ <<q.row.home, q.row.domain>> \in files'
           \/ req'[h].pc = "unwind"
    BY <1>0, <2>1, GotoFields DEF Steps
  <2>3. table[q.id].domain = q.row.domain /\ table[q.id].home = q.row.home
    BY <1>0, <2>1 DEF HasWritten, Changing
  <2>4. \A i \in Ids \ {q.id} : table[i] # NoRow => Placed(table[i])
    BY <2>1, FilesFacts DEF Unplaced
  <2>5. (\A i \in Ids : table[i] # NoRow => Placed(table[i]) \/ Unplaced(req[h], i))'
    BY <1>0, <2>1, <2>2, <2>3, <2>4 DEF Placed, Unplaced
  <2> QED BY <1>0, <2>2, <2>5, FilesNext DEF Deletes
<1>2. CASE RemoveFiles(h)
  <2>1. q.pc = "remove" /\ q.op \in Deletes
    BY <1>0, <1>2 DEF RemoveFiles, Running, At, InStep
  <2>2. req'[h].pc \in {"done", "failed"} /\ req'[h].live
    BY <1>0, <1>2, AnswerFields DEF RemoveFiles, Resting
  <2>3. files \ files' \subseteq {<<q.row.home, q.row.domain>>}
    BY <1>2 DEF RemoveFiles
  <2>4. \A i \in Ids : table[i] # NoRow => Placed(table[i]) /\ table[i].domain # q.row.domain
    BY <1>0, <2>1, FilesFacts DEF Unplaced, HasDropped, DomainFree, Deletes
  <2>5. (\A i \in Ids : table[i] # NoRow => Placed(table[i]) \/ Unplaced(req[h], i))'
    BY <1>0, <2>3, <2>4 DEF Placed
  <2> QED BY <1>0, <2>2, <2>5, FilesNext DEF Changing
<1>3. CASE MoveFiles(h)
  <2>0. q.pc = "move" /\ q.op = "chown" /\ q.id \in Ids
    BY <1>0, <1>3 DEF MoveFiles, At, InStep, Resting
  <2>1. CASE Answer(h, "failed") /\ files' = files
    BY <1>0, <2>0, <2>1, AnswerFields, FilesRest DEF Resting, Changing
  <2>2. CASE Goto(h, "setowner") /\ files' = Moved(q.row.domain, q.prev.owner, q.row.owner)
    <3>1. req'[h].pc = "setowner" /\ req'[h].live /\ req'[h].id = q.id /\ req'[h].row = q.row
      BY <1>0, <2>2, GotoFields DEF Steps
    <3>2. \A i \in Ids \ {q.id} : table[i] # NoRow => Placed(table[i]) /\ table[i].domain # q.row.domain
      BY <1>0, <2>0, FilesFacts DEF Unplaced, HasRead, Reading, DomainsOnce
    <3>3. (\A i \in Ids : table[i] # NoRow => Placed(table[i]) \/ Unplaced(req[h], i))'
      BY <1>0, <2>2, <3>1, <3>2 DEF Placed, Unplaced, Moved
    <3>4. Placed(req[h].row)'
      BY <1>0, <2>2, <3>1 DEF Placed, Moved, AtHome
    <3> QED BY <1>0, <3>1, <3>3, <3>4, FilesNext
  <2> QED BY <1>3, <2>1, <2>2 DEF MoveFiles, Staying
<1> QED BY <1>1, <1>2, <1>3

LEMMA FilesOfSync ==
  ASSUME OneHandler, Staying, SerialInv, FilesInv, NEW h \in Handlers,
         Snapshot(h) \/ Apply(h) \/ ApplyFails(h) \/ GiveUp(h)
  PROVE  FilesInv'
<1>0. /\ TypeOK /\ req[h] \in Request /\ req[h].live /\ table' = table /\ files' = files
  BY FilesFacts DEF Snapshot, Apply, ApplyFails, GiveUp
<1>1. \A c \in late' : c.kind = "apply"
  <2>1. \A c \in late : c.kind = "apply"
    BY DEF FilesInv
  <2> QED BY <2>1 DEF Staying, Snapshot, Apply, ApplyFails, GiveUp
<1>2. CASE Snapshot(h)
  <2>1. /\ req'[h].pc = "apply" /\ req'[h].op = req[h].op /\ req'[h].row = req[h].row
        /\ req'[h].live /\ req[h].pc = "snapshot"
    BY <1>0, <1>2 DEF Snapshot, TypeOK, Request, Running, At
  <2> QED BY <1>0, <1>1, <2>1, FilesKept
<1>3. CASE Apply(h) \/ ApplyFails(h) \/ GiveUp(h)
  <2>1. req[h].pc = "apply" /\ \E pc \in {"remove", "done", "failed", "unwind"} : Leave(h, pc)
    BY <1>3 DEF Apply, ApplyFails, GiveUp, AfterFailedSync, At, Staying
  <2>2. PICK pc \in {"remove", "done", "failed", "unwind"} : Leave(h, pc)
    BY <2>1
  <2>3. /\ req'[h].pc = pc /\ req'[h].op = req[h].op /\ req'[h].live
        /\ pc = "unwind" => req'[h].row = req[h].row
    BY <1>0, <2>2, LeaveFields DEF Steps, Resting
  <2>4. CASE pc = "unwind"
    BY <1>0, <1>1, <2>1, <2>3, <2>4, FilesKept
  <2>5. CASE pc # "unwind"
    BY <1>0, <1>1, <2>1, <2>3, <2>5, FilesRest DEF Changing
  <2> QED BY <2>4, <2>5
<1> QED BY <1>2, <1>3

LEMMA NextFiles ==
  ASSUME OneHandler, Staying, SerialInv, FilesInv, [Next]_vars
  PROVE  FilesInv'
<1>1. ASSUME NEW h \in Handlers, BeginCreate(h) \/ BeginOnRow(h) PROVE FilesInv'
  BY <1>1, FilesBefore
<1>2. ASSUME NEW h \in Handlers, Handle(h) \/ Cancel(h) PROVE FilesInv'
  <2>1. ~ Cancel(h) /\ ~ Interrupted(h)
    BY <1>2, FilesFacts DEF Cancel, Interrupted, Staying
  <2> QED BY <1>2, <2>1, FilesBefore, FilesOfRows, FilesOfAgent, FilesOfSync DEF Handle, RowStepOf
<1>3. CASE LateApply \/ LateMove \/ UNCHANGED vars
  <2>1. req' = req /\ table' = table /\ files' = files /\ \A c \in late' : c.kind = "apply"
    BY <1>3 DEF LateApply, LateMove, vars, FilesInv
  <2> QED BY <2>1 DEF FilesInv, Placed, Unplaced
<1> QED BY <1>1, <1>2, <1>3 DEF Next

LEMMA InitFiles == Init => FilesInv
<1> SUFFICES ASSUME Init PROVE FilesInv
  OBVIOUS
<1>1. \A i \in Ids : table[i] # NoRow => Placed(table[i])
  BY DEF Init, RowsOf, Placed
<1>2. \A h \in Handlers : req[h].pc = "idle" /\ req[h].live
  BY DEF Init, NoRequest
<1> QED BY <1>1, <1>2 DEF Init, FilesInv, Changing

(* Requests one after the other, every answer waited for, whatever fails   *)
(* but a move on its way: at rest, each row has its directory where        *)
(* document_root says it is.                                               *)
THEOREM FilesStayInPlace ==
  ASSUME OneHandler, Staying
  PROVE  Spec => []FilesInPlace
<1>1. SerialInv /\ FilesInv /\ [Next]_vars => FilesInv'
  BY NextFiles
<1>2. FilesInv => FilesInPlace
  BY DEF FilesInv, FilesInPlace, Quiet, RowsOf, Placed, Unplaced, Resting
<1> QED BY <1>1, <1>2, InitFiles, SerialInvariance, PTL DEF Spec

-----------------------------------------------------------------------------
(* A site's files are in some home, wherever a failed or late move is.     *)

Somewhere(r) == \E o \in Owners : <<o, r.domain>> \in files

(* Its directory is being made. *)
Making(q, i) == i = q.id /\ q.op = "create" /\ q.pc \in {"provision", "unwind"}

SurviveInv ==
  /\ \A i \in Ids : table[i] # NoRow => Somewhere(table[i]) \/ \E h \in Handlers : Making(req[h], i)
  /\ \A h \in Handlers :
       LET q == req[h] IN
       /\ q.live
       /\ q.op \in Deletes /\ q.pc \in Changing => Somewhere(q.row)

(* However a move ends, no site's directory goes without another of it.    *)
LEMMA MoveLosesNothing ==
  ASSUME NEW d \in Hosts, NEW from \in Owners, NEW to \in Owners,
         files' \in HalfMoved(d, from, to),
         NEW e \in Hosts, NEW o \in Owners, <<o, e>> \in files
  PROVE  \E p \in Owners : <<p, e>> \in files'
BY DEF HalfMoved, Moved

LEMMA SurviveFacts ==
  ASSUME OneHandler, ~ MayCancel, SerialInv, SurviveInv, NEW h \in Handlers
  PROVE  /\ TypeOK /\ req[h] \in Request /\ InStep(req[h]) /\ table \in Table
         /\ req[h].live
         /\ \A i \in Ids : table[i] # NoRow => Somewhere(table[i]) \/ Making(req[h], i)
         /\ req[h].op \in Deletes /\ req[h].pc \in Changing => Somewhere(req[h].row)
<1>1. \A g \in Handlers : g = h
  BY DEF OneHandler
<1> QED BY <1>1, SerialFacts DEF SurviveInv

LEMMA SurviveNext ==
  ASSUME OneHandler, NEW h \in Handlers,
         req'[h].live,
         (\A i \in Ids : table[i] # NoRow => Somewhere(table[i]) \/ Making(req[h], i))',
         (req[h].op \in Deletes /\ req[h].pc \in Changing => Somewhere(req[h].row))'
  PROVE  SurviveInv'
<1>1. \A g \in Handlers : g = h
  BY DEF OneHandler
<1>2. (\A i \in Ids : table[i] # NoRow => Somewhere(table[i]) \/ \E g \in Handlers : Making(req[g], i))'
  BY DEF Somewhere
<1>3. (\A g \in Handlers : /\ req[g].live
                           /\ req[g].op \in Deletes /\ req[g].pc \in Changing
                                => Somewhere(req[g].row))'
  BY <1>1 DEF Somewhere
<1> QED BY <1>2, <1>3 DEF SurviveInv, Somewhere

(* Between requests, and before a row is written, nothing is on the move.  *)
LEMMA SurviveRest ==
  ASSUME OneHandler, ~ MayCancel, SerialInv, SurviveInv, NEW h \in Handlers,
         table' = table, files' = files, req'[h].live,
         req[h].pc \notin {"provision", "unwind"},
         req'[h].pc \notin Changing
  PROVE  SurviveInv'
<1>1. (\A i \in Ids : table[i] # NoRow => Somewhere(table[i]) \/ Making(req[h], i))'
  BY SurviveFacts DEF Somewhere, Making
<1> QED BY <1>1, SurviveNext

LEMMA SurviveKept ==
  ASSUME OneHandler, ~ MayCancel, SerialInv, SurviveInv, NEW h \in Handlers,
         table' = table, files' = files, req'[h].live,
         req[h].pc \in {"snapshot", "apply"}, req'[h].pc \in {"apply", "unwind"},
         req'[h].op = req[h].op, req'[h].row = req[h].row
  PROVE  SurviveInv'
<1>1. (\A i \in Ids : table[i] # NoRow => Somewhere(table[i]) \/ Making(req[h], i))'
  BY SurviveFacts DEF Somewhere, Making
<1>2. (req[h].op \in Deletes /\ req[h].pc \in Changing => Somewhere(req[h].row))'
  BY SurviveFacts DEF Somewhere, Changing
<1> QED BY <1>1, <1>2, SurviveNext

LEMMA SurviveBefore ==
  ASSUME OneHandler, ~ MayCancel, SerialInv, SurviveInv, NEW h \in Handlers,
         \/ BeginCreate(h) \/ BeginOnRow(h)
         \/ CheckHostnames(h) \/ CheckSite(h) \/ Refuse(h) \/ Reread(h) \/ IssueCert(h)
         \/ (InsertRow(h) /\ table' = table)
  PROVE  SurviveInv'
<1>0. /\ TypeOK /\ req[h] \in Request /\ req[h].live
  BY SurviveFacts DEF SurviveInv
<1>1. CASE BeginCreate(h) \/ BeginOnRow(h)
  <2>1. Starts(req'[h]) /\ UNCHANGED <<table, files, late>> /\ req[h].pc \in Resting
    BY <1>1, Begun, SerialFacts
  <2> QED BY <1>0, <2>1, SurviveRest DEF Starts, Reading, Changing, Resting
<1>2. CASE CheckHostnames(h) \/ CheckSite(h) \/ Refuse(h) \/ Reread(h) \/ IssueCert(h)
  <2>1. UNCHANGED <<table, files, late>> /\ req[h].pc \in {"hostnames", "limit", "insert", "move", "reread", "issue"}
    BY <1>2 DEF CheckHostnames, CheckSite, Refuse, Reread, IssueCert, Running, At
  <2>2. CASE Answer(h, "failed")
    BY <1>0, <2>1, <2>2, AnswerFields, SurviveRest DEF Resting, Changing
  <2>3. CASE \E pc \in {"limit", "reread", "insert", "move"} : Goto(h, pc)
    <3>1. PICK pc \in {"limit", "reread", "insert", "move"} : Goto(h, pc)
      BY <2>3
    <3>2. req'[h].pc = pc /\ req'[h].live
      BY <1>0, <3>1, GotoFields DEF Steps
    <3> QED BY <1>0, <2>1, <3>2, SurviveRest DEF Changing
  <2>4. CASE req' = [req EXCEPT ![h].prev = table[req[h].id], ![h].pc = "write"]
    <3>1. req'[h].pc = "write" /\ req'[h].live
      BY <1>0, <2>4 DEF TypeOK, Request
    <3> QED BY <1>0, <2>1, <3>1, SurviveRest DEF Changing
  <2>5. CASE req' = [req EXCEPT ![h].row.ssl = TRUE, ![h].row.cert = TRUE, ![h].pc = "write"]
    <3>1. req'[h].pc = "write" /\ req'[h].live
      BY <1>0, <2>5 DEF TypeOK, Request
    <3> QED BY <1>0, <2>1, <3>1, SurviveRest DEF Changing
  <2> QED BY <1>2, <2>2, <2>3, <2>4, <2>5 DEF CheckHostnames, CheckSite, Refuse, Reread, IssueCert
<1>3. CASE InsertRow(h) /\ table' = table
  <2>1. req[h].pc = "insert" /\ req'[h].pc = "failed" /\ req'[h].live /\ UNCHANGED <<files, late>>
    BY <1>0, <1>3, InsertRefused DEF InsertRow
  <2> QED BY <1>0, <1>3, <2>1, SurviveRest DEF Changing
<1> QED BY <1>1, <1>2, <1>3

LEMMA SurviveOfRows ==
  ASSUME OneHandler, ~ MayCancel, SerialInv, SurviveInv, NEW h \in Handlers, RowStepOf(h)
  PROVE  SurviveInv'
<1> DEFINE q == req[h]
<1>0. /\ TypeOK /\ q \in Request /\ q.live /\ files' = files
  BY SurviveFacts DEF SurviveInv, RowStepOf, DropRow, WriteRow, SetOwner, InsertRow, Unwind
<1>1. CASE DropRow(h)
  <2>1. /\ q.op \in Deletes /\ q.id \in Ids /\ table[q.id] # NoRow /\ q.pc = "drop"
        /\ table[q.id].domain = q.row.domain /\ table[q.id].home = q.row.home
        /\ \A i \in Ids : table'[i] = IF i = q.id THEN NoRow ELSE table[i]
    BY <1>1, AloneDrops DEF DropRow, Running, At
  <2>2. req'[h].pc = "snapshot" /\ req'[h].live /\ req'[h].row = q.row
    BY <1>0, <1>1, GotoFields DEF DropRow, Steps
  <2>3. Somewhere(q.row) /\ \A i \in Ids : table[i] # NoRow => Somewhere(table[i])
    BY <2>1, SurviveFacts DEF Somewhere, Making
  <2>4. (\A i \in Ids : table[i] # NoRow => Somewhere(table[i]) \/ Making(req[h], i))'
    BY <1>0, <2>1, <2>3 DEF Somewhere
  <2>5. Somewhere(req[h].row)'
    BY <1>0, <2>2, <2>3 DEF Somewhere
  <2> QED BY <1>0, <2>2, <2>4, <2>5, SurviveNext
<1>2. CASE WriteRow(h)
  <2>1. /\ q.id \in Ids /\ table[q.id] \in Row /\ q.row.domain = table[q.id].domain
        /\ q.op \in Updates \cup {"issue", "attach", "disable"} /\ q.pc = "write"
        /\ q.row.home = table[q.id].home
        /\ table' = [table EXCEPT ![q.id] = q.row]
    BY <1>2, RowWritten
  <2>2. req'[h].pc = "snapshot" /\ req'[h].live /\ req'[h].op = q.op
    BY <1>0, <1>2, GotoFields DEF WriteRow, Steps
  <2>3. \A i \in Ids : table'[i] = IF i = q.id THEN q.row ELSE table[i]
    BY <2>1, SurviveFacts DEF Table
  <2>4. Somewhere(q.row) /\ \A i \in Ids : table[i] # NoRow => Somewhere(table[i])
    <3>1. \A i \in Ids : table[i] # NoRow => Somewhere(table[i])
      BY <2>1, SurviveFacts DEF Making
    <3> QED BY <2>1, <3>1, NoRowAssumption DEF Somewhere
  <2>5. (\A i \in Ids : table[i] # NoRow => Somewhere(table[i]) \/ Making(req[h], i))'
    BY <1>0, <2>3, <2>4 DEF Somewhere
  <2> QED BY <1>0, <2>1, <2>2, <2>5, SurviveNext DEF Updates, Deletes
<1>3. CASE SetOwner(h)
  <2>1. /\ q.op = "chown" /\ q.id \in Ids /\ q.pc = "setowner"
        /\ table'[q.id].domain = q.row.domain /\ table'[q.id].home = q.row.home
        /\ \A i \in Ids \ {q.id} : table'[i] = table[i]
    BY <1>3, OwnerSet DEF SetOwner, Running, At
  <2>2. req'[h].pc = "snapshot" /\ req'[h].live /\ req'[h].op = q.op
    BY <1>0, <1>3, GotoFields DEF SetOwner, Steps
  <2>3. Somewhere(q.row) /\ \A i \in Ids \ {q.id} : table[i] # NoRow => Somewhere(table[i])
    <3>1. \A i \in Ids : table[i] # NoRow => Somewhere(table[i])
      BY <2>1, SurviveFacts DEF Making
    <3>2. table[q.id] # NoRow /\ table[q.id].domain = q.row.domain
      BY <2>1, SerialFacts DEF HasRead, Reading
    <3> QED BY <2>1, <3>1, <3>2 DEF Somewhere
  <2>4. (\A i \in Ids : table[i] # NoRow => Somewhere(table[i]) \/ Making(req[h], i))'
    BY <1>0, <2>1, <2>3 DEF Somewhere
  <2> QED BY <1>0, <2>1, <2>2, <2>4, SurviveNext DEF Deletes
<1>4. CASE InsertRow(h) /\ table' # table
  <2>1. /\ q.pc = "insert" /\ q.op = "create" /\ nextId \in Ids
        /\ \A i \in Ids \ {nextId} : table'[i] = table[i]
        /\ req'[h].pc = "provision" /\ req'[h].id = nextId /\ req'[h].op = "create" /\ req'[h].live
    BY <1>0, <1>4, AloneInserts
  <2>2. \A i \in Ids : table[i] # NoRow => Somewhere(table[i])
    BY <2>1, SurviveFacts DEF Making
  <2>3. (\A i \in Ids : table[i] # NoRow => Somewhere(table[i]) \/ Making(req[h], i))'
    BY <1>0, <2>1, <2>2 DEF Somewhere, Making
  <2> QED BY <1>0, <2>1, <2>3, SurviveNext DEF Deletes
<1>5. CASE Unwind(h)
  <2>1. /\ q.pc = "unwind" /\ q.id \in Ids /\ q.row \in Row /\ req'[h].pc = "failed" /\ req'[h].live
    BY <1>0, <1>5, Unwound
  <2>2. \A i \in Ids : table'[i] # NoRow => Somewhere(table'[i])
    <3>1. CASE /\ q.op = "create"
               /\ \A i \in Ids : table'[i] = IF i = q.id THEN NoRow ELSE table[i]
      BY <2>1, <3>1, SurviveFacts DEF Making
    <3>2. CASE /\ q.op \in Updates /\ table[q.id] # NoRow
               /\ \A i \in Ids : table'[i] = IF i = q.id THEN q.prev ELSE table[i]
      <4>1. \A i \in Ids : table[i] # NoRow => Somewhere(table[i])
        BY <2>1, <3>2, SurviveFacts DEF Making, Updates
      <4>2. table[q.id].domain = q.prev.domain /\ table[q.id].home = q.prev.home
        BY <2>1, <3>2, SerialFacts DEF HasWritten, Changing
      <4>3. Somewhere(q.prev)
        BY <2>1, <3>2, <4>1, <4>2 DEF Somewhere
      <4> QED BY <3>2, <4>1, <4>3
    <3>3. CASE /\ q.op \in Deletes /\ nextId \in Ids
               /\ table'[nextId] = [q.row EXCEPT !.cert = FALSE]
               /\ \A i \in Ids \ {nextId} : table'[i] = table[i]
      <4>1. \A i \in Ids : table[i] # NoRow => Somewhere(table[i])
        BY <2>1, <3>3, SurviveFacts DEF Making, Deletes
      <4>2. Somewhere(q.row)
        BY <2>1, <3>3, SurviveFacts DEF Changing
      <4>3. PICK s : s = [q.row EXCEPT !.cert = FALSE]
        OBVIOUS
      <4>4. Somewhere(s)
        BY <2>1, <4>2, <4>3 DEF Somewhere, Row
      <4> QED BY <3>3, <4>1, <4>3, <4>4
    <3>4. CASE q.op \in Deletes /\ table' = table
      BY <2>1, <3>4, <1>0, SurviveFacts DEF Making, Deletes
    <3> QED BY <1>5, <3>1, <3>2, <3>3, <3>4, Unwound
  <2>3. (\A i \in Ids : table[i] # NoRow => Somewhere(table[i]) \/ Making(req[h], i))'
    BY <1>0, <2>2 DEF Somewhere
  <2> QED BY <1>0, <2>1, <2>3, SurviveNext DEF Changing
<1>6. CASE InsertRow(h) /\ table' = table
  BY <1>6, SurviveBefore
<1> QED BY <1>1, <1>2, <1>3, <1>4, <1>5, <1>6 DEF RowStepOf

LEMMA SurviveOfAgent ==
  ASSUME OneHandler, ~ MayCancel, SerialInv, SurviveInv, NEW h \in Handlers,
         Provision(h) \/ RemoveFiles(h) \/ MoveFiles(h) \/ (GiveUp(h) /\ At(h, "move"))
  PROVE  SurviveInv'
<1> DEFINE q == req[h]
<1>0. /\ TypeOK /\ q \in Request /\ InStep(q) /\ q.live /\ table' = table
      /\ q.row \in Row /\ AtHome(q.row) /\ HasRead(q) /\ HasWritten(q) /\ HasDropped(q) /\ DomainsOnce
  BY SurviveFacts, SerialFacts DEF SurviveInv, Provision, RemoveFiles, MoveFiles, GiveUp, Running, At, Resting
<1>1. CASE Provision(h)
  <2>1. /\ q.pc = "provision" /\ q.op = "create" /\ q.id \in Ids /\ files \subseteq files'
        /\ \/ Goto(h, "snapshot") /\ <<q.row.home, q.row.domain>> \in files'
           \/ Goto(h, "unwind")
    BY <1>0, <1>1 DEF Provision, Running, At, InStep, Resting
  <2>2. /\ req'[h].live /\ req'[h].op = "create" /\ req'[h].id = q.id
        /\ \/ req'[h].pc = "snapshot" /\ <<q.row.home, q.row.domain>> \in files'
           \/ req'[h].pc = "unwind"
    BY <1>0, <2>1, GotoFields DEF Steps
  <2>3. table[q.id].domain = q.row.domain /\ table[q.id].home = q.row.home
    BY <1>0, <2>1 DEF HasWritten, Changing
  <2>4. \A i \in Ids \ {q.id} : table[i] # NoRow => Somewhere(table[i])
    BY <2>1, SurviveFacts DEF Making
  <2>5. (\A i \in Ids : table[i] # NoRow => Somewhere(table[i]) \/ Making(req[h], i))'
    <3>1. q.row.home \in Owners
      BY <1>0 DEF Row
    <3>2. \A i \in Ids \ {q.id} : table[i] # NoRow => Somewhere(table[i])'
      BY <1>0, <2>1, <2>4 DEF Somewhere
    <3>3. Making(req'[h], q.id) \/ Somewhere(table[q.id])'
      BY <1>0, <2>2, <2>3, <3>1 DEF Somewhere, Making
    <3>4. ASSUME NEW i \in Ids, (table[i] # NoRow)' PROVE (Somewhere(table[i]) \/ Making(req[h], i))'
      <4>1. CASE i = q.id
        BY <2>2, <3>3, <4>1
      <4>2. CASE i # q.id
        BY <1>0, <3>2, <3>4, <4>2
      <4> QED BY <4>1, <4>2
    <3> QED BY <3>4
  <2> QED BY <1>0, <2>2, <2>5, SurviveNext DEF Deletes
<1>2. CASE RemoveFiles(h)
  <2>1. q.pc = "remove" /\ q.op \in Deletes
    BY <1>0, <1>2 DEF RemoveFiles, Running, At, InStep
  <2>2. req'[h].pc \in {"done", "failed"} /\ req'[h].live
    BY <1>0, <1>2, AnswerFields DEF RemoveFiles, Resting
  <2>3. files \ files' \subseteq {<<q.row.home, q.row.domain>>}
    BY <1>2 DEF RemoveFiles
  <2>4. \A i \in Ids : table[i] # NoRow => Somewhere(table[i]) /\ table[i].domain # q.row.domain
    BY <1>0, <2>1, SurviveFacts DEF Making, HasDropped, DomainFree, Deletes
  <2>5. (\A i \in Ids : table[i] # NoRow => Somewhere(table[i]) \/ Making(req[h], i))'
    BY <1>0, <2>3, <2>4 DEF Somewhere
  <2> QED BY <1>0, <2>2, <2>5, SurviveNext DEF Changing
<1>3. CASE MoveFiles(h) \/ (GiveUp(h) /\ At(h, "move"))
  <2>1. q.pc = "move" /\ q.op = "chown" /\ q.prev.owner \in Owners /\ q.row.owner \in Owners
    BY <1>0, <1>3 DEF MoveFiles, At, InStep, Resting, Row
  <2>2. /\ req'[h].pc \in {"setowner", "failed"} /\ req'[h].live
    <3>1. Goto(h, "setowner") \/ Answer(h, "failed")
      BY <1>3 DEF MoveFiles, GiveUp, At
    <3> QED BY <1>0, <3>1, GotoFields, AnswerFields DEF Steps, Resting
  <2>3. files' = files \/ files' \in HalfMoved(q.row.domain, q.prev.owner, q.row.owner)
    BY <1>3 DEF MoveFiles, HalfMoved, GiveUp
  <2>4. \A r \in Row : Somewhere(r) => Somewhere(r)'
    <3> SUFFICES ASSUME NEW r \in Row, Somewhere(r) PROVE Somewhere(r)'
      OBVIOUS
    <3>1. PICK o \in Owners : <<o, r.domain>> \in files
      BY DEF Somewhere
    <3>2. r.domain \in Hosts /\ q.row.domain \in Hosts
      BY <1>0 DEF Row
    <3>3. CASE files' = files
      BY <3>1, <3>3 DEF Somewhere
    <3>4. CASE files' \in HalfMoved(q.row.domain, q.prev.owner, q.row.owner)
      <4>1. \E o2 \in Owners : <<o2, r.domain>> \in files'
        BY <2>1, <3>1, <3>2, <3>4, MoveLosesNothing
      <4> QED BY <4>1 DEF Somewhere
    <3> QED BY <2>3, <3>3, <3>4
  <2>5. (\A i \in Ids : table[i] # NoRow => Somewhere(table[i]) \/ Making(req[h], i))'
    BY <1>0, <2>1, <2>4, SurviveFacts DEF Making, Table
  <2> QED BY <2>2, <2>5, SurviveNext DEF Changing
<1> QED BY <1>1, <1>2, <1>3

LEMMA SurviveOfSync ==
  ASSUME OneHandler, ~ MayCancel, SerialInv, SurviveInv, NEW h \in Handlers,
         Snapshot(h) \/ Apply(h) \/ ApplyFails(h) \/ (GiveUp(h) /\ At(h, "apply"))
  PROVE  SurviveInv'
<1>0. /\ TypeOK /\ req[h] \in Request /\ req[h].live /\ table' = table /\ files' = files
  BY SurviveFacts DEF Snapshot, Apply, ApplyFails, GiveUp
<1>2. CASE Snapshot(h)
  <2>1. /\ req'[h].pc = "apply" /\ req'[h].op = req[h].op /\ req'[h].row = req[h].row
        /\ req'[h].live /\ req[h].pc = "snapshot"
    BY <1>0, <1>2 DEF Snapshot, TypeOK, Request, Running, At
  <2> QED BY <1>0, <2>1, SurviveKept
<1>3. CASE Apply(h) \/ ApplyFails(h) \/ (GiveUp(h) /\ At(h, "apply"))
  <2>1. req[h].pc = "apply" /\ \E pc \in {"remove", "done", "failed", "unwind"} : Leave(h, pc)
    BY <1>3 DEF Apply, ApplyFails, GiveUp, AfterFailedSync, At
  <2>2. PICK pc \in {"remove", "done", "failed", "unwind"} : Leave(h, pc)
    BY <2>1
  <2>3. /\ req'[h].pc = pc /\ req'[h].op = req[h].op /\ req'[h].live
        /\ pc = "unwind" => req'[h].row = req[h].row
    BY <1>0, <2>2, LeaveFields DEF Steps, Resting
  <2>4. CASE pc = "unwind"
    BY <1>0, <2>1, <2>3, <2>4, SurviveKept
  <2>5. CASE pc # "unwind"
    BY <1>0, <2>1, <2>3, <2>5, SurviveRest DEF Changing
  <2> QED BY <2>4, <2>5
<1> QED BY <1>2, <1>3

LEMMA NextSurvive ==
  ASSUME OneHandler, ~ MayCancel, SerialInv, SurviveInv, [Next]_vars
  PROVE  SurviveInv'
<1>1. ASSUME NEW h \in Handlers, BeginCreate(h) \/ BeginOnRow(h) PROVE SurviveInv'
  BY <1>1, SurviveBefore
<1>2. ASSUME NEW h \in Handlers, Handle(h) \/ Cancel(h) PROVE SurviveInv'
  <2>1. ~ Cancel(h) /\ ~ Interrupted(h)
    BY <1>2, SurviveFacts DEF Cancel, Interrupted
  <2> QED BY <1>2, <2>1, SurviveBefore, SurviveOfRows, SurviveOfAgent, SurviveOfSync
         DEF Handle, RowStepOf, GiveUp
<1>3. CASE LateApply \/ LateMove \/ UNCHANGED vars
  <2>1. req' = req /\ table' = table /\ table \in Table /\ late \subseteq LateCall
    BY <1>3 DEF LateApply, LateMove, vars, SerialInv, NamesInv, IInv, TypeOK
  <2>2. \/ files' = files
        \/ \E c \in late : c.kind = "move" /\ files' \in HalfMoved(c.domain, c.from, c.to)
    BY <1>3 DEF LateApply, LateMove, vars, HalfMoved
  <2>3. \A r \in Row : Somewhere(r) => Somewhere(r)'
    <3> SUFFICES ASSUME NEW r \in Row, Somewhere(r) PROVE Somewhere(r)'
      OBVIOUS
    <3>1. PICK o \in Owners : <<o, r.domain>> \in files
      BY DEF Somewhere
    <3>2. r.domain \in Hosts
      BY DEF Row
    <3>3. CASE files' = files
      BY <3>1, <3>3 DEF Somewhere
    <3>4. CASE \E c \in late : c.kind = "move" /\ files' \in HalfMoved(c.domain, c.from, c.to)
      <4>1. PICK c \in late : c.kind = "move" /\ files' \in HalfMoved(c.domain, c.from, c.to)
        BY <3>4
      <4>2. c.domain \in Hosts /\ c.from \in Owners /\ c.to \in Owners
        BY <2>1, <4>1 DEF LateCall
      <4>3. \E o2 \in Owners : <<o2, r.domain>> \in files'
        BY <3>1, <3>2, <4>1, <4>2, MoveLosesNothing
      <4> QED BY <4>3 DEF Somewhere
    <3> QED BY <2>2, <3>3, <3>4
  <2>4. \A h \in Handlers : req[h].op \in Deletes /\ req[h].pc \in Changing => req[h].row \in Row
    BY SerialFacts DEF InStep, Changing, Resting, SerialInv, IInv, AllInStep
  <2> QED BY <2>1, <2>3, <2>4 DEF SurviveInv, Making, Table
<1> QED BY <1>1, <1>2, <1>3 DEF Next

LEMMA InitSurvive == Init => SurviveInv
<1> SUFFICES ASSUME Init PROVE SurviveInv
  OBVIOUS
<1>1. \A i \in Ids : table[i] # NoRow => Somewhere(table[i])
  <2> SUFFICES ASSUME NEW i \in Ids, table[i] # NoRow PROVE Somewhere(table[i])
    OBVIOUS
  <2>1. table[i] \in RowsOf(table) /\ table[i] \in Row
    BY FirstTableAssumption DEF Init, RowsOf, Table
  <2>2. <<table[i].home, table[i].domain>> \in files /\ table[i].home \in Owners
    BY <2>1 DEF Init, Row
  <2> QED BY <2>2 DEF Somewhere
<1>2. \A h \in Handlers : req[h].pc = "idle" /\ req[h].live
  BY DEF Init, NoRequest
<1> QED BY <1>1, <1>2 DEF Init, SurviveInv, Changing

(* Requests one after the other from clients that wait, whatever fails and *)
(* whatever is given up at its deadline: at rest, no row is without files. *)
THEOREM FilesAreSomewhere ==
  ASSUME OneHandler, ~ MayCancel
  PROVE  Spec => []FilesSurvive
<1>1. SerialInv /\ SurviveInv /\ [Next]_vars => SurviveInv'
  BY NextSurvive
<1>2. SurviveInv => FilesSurvive
  BY DEF SurviveInv, FilesSurvive, Quiet, RowsOf, Somewhere, Making, Resting
<1> QED BY <1>1, <1>2, InitSurvive, SerialInvariance, PTL DEF Spec

-----------------------------------------------------------------------------
(* What is served follows the table, when what fails is undone.            *)

LEMMA SaneRenders ==
  ASSUME NEW t \in Table, Sane(t)
  PROVE  Renderable(RowsOf(t))
<1>1. \A r \in RowsOf(t) : \E i \in Ids : r = t[i] /\ t[i] # NoRow
  BY DEF RowsOf
<1>2. NoDuplicates(RowsOf(t))
  <2> SUFFICES ASSUME NEW r \in RowsOf(t), NEW s \in RowsOf(t), r # s
               PROVE  Hostnames(r) \cap Hostnames(s) = {}
    BY DEF NoDuplicates
  <2>1. PICK i \in Ids, j \in Ids : r = t[i] /\ s = t[j] /\ t[i] # NoRow /\ t[j] # NoRow
    BY <1>1
  <2> QED BY <2>1 DEF Sane
<1>3. \A r \in RowsOf(t) : ValidSite(r)
  BY <1>1 DEF Sane
<1> QED BY <1>2, <1>3 DEF Renderable

LEMMA SaneWith ==
  ASSUME Sane(table), NEW i \in Ids, NEW r, ValidSite(r),
         \A j \in Ids \ {i} : table[j] # NoRow => Hostnames(r) \cap Hostnames(table[j]) = {},
         table'[i] = r, \A j \in Ids \ {i} : table'[j] = table[j]
  PROVE  Sane(table')
<1>1. ASSUME NEW a \in Ids, NEW b \in Ids, a # b, table'[a] # NoRow, table'[b] # NoRow
      PROVE  Hostnames(table'[a]) \cap Hostnames(table'[b]) = {}
  <2>1. CASE a = i
    BY <1>1, <2>1
  <2>2. CASE b = i
    <3>1. Hostnames(r) \cap Hostnames(table[a]) = {}
      BY <1>1, <2>2
    <3> QED BY <1>1, <2>2, <3>1
  <2>3. CASE a # i /\ b # i
    BY <1>1, <2>3 DEF Sane
  <2> QED BY <2>1, <2>2, <2>3
<1>2. \A a \in Ids : table'[a] # NoRow => ValidSite(table'[a])
  BY DEF Sane
<1> QED BY <1>1, <1>2 DEF Sane

LEMMA SaneWithout ==
  ASSUME Sane(table), NEW i \in Ids, \A j \in Ids : table'[j] = IF j = i THEN NoRow ELSE table[j]
  PROVE  Sane(table')
BY DEF Sane

LEMMA TakenApart ==
  ASSUME NEW t \in Table, NEW e, NEW r, Hostnames(r) \cap Taken(t, e) = {}
  PROVE  \A j \in Ids \ {e} : t[j] # NoRow => Hostnames(r) \cap Hostnames(t[j]) = {}
BY DEF Taken

LEMMA DriftFacts ==
  ASSUME OneHandler, Steady, SerialInv, DriftInv, NEW h \in Handlers
  PROVE  /\ TypeOK /\ req[h] \in Request /\ InStep(req[h]) /\ table \in Table
         /\ req[h].live /\ late = {} /\ Sane(table) /\ Serves(req[h])
         /\ req[h].pc \notin Changing => served = RowsOf(table)
<1>1. \A g \in Handlers : g = h
  BY DEF OneHandler
<1> QED BY <1>1, SerialFacts DEF DriftInv

LEMMA DriftNext ==
  ASSUME OneHandler, NEW h \in Handlers,
         late' = {}, req'[h].live, Sane(table)',
         (served = RowsOf(table) \/ req[h].pc \in Changing)',
         Serves(req[h])'
  PROVE  DriftInv'
<1>1. \A g \in Handlers : g = h
  BY DEF OneHandler
<1> QED BY <1>1 DEF DriftInv

(* No row changes, and the agent is not asked.                             *)
LEMMA DriftCarries ==
  ASSUME OneHandler, Steady, SerialInv, DriftInv, NEW h \in Handlers,
         table' = table, served' = served, late' = late, req'[h].live,
         req[h].pc \notin Changing, req'[h].pc \notin Changing,
         req'[h].op = "create" /\ req'[h].pc \notin Resting => ~ req'[h].row.ssl,
         req'[h].op = "create" /\ req'[h].pc \in {"limit", "insert"}
           => Hostnames(req'[h].row) \cap Taken(table, 0) = {},
         req'[h].op = "realias" /\ req'[h].pc \in {"reread", "write"}
           => Hostnames(req'[h].row) \cap Taken(table, req'[h].id) = {},
         req'[h].op \in {"issue", "attach"} /\ req'[h].pc = "write" => req'[h].row.cert,
         req'[h].op = "disable" /\ req'[h].pc = "write" => ~ req'[h].row.ssl
  PROVE  DriftInv'
<1>1. late' = {} /\ Sane(table)' /\ (served = RowsOf(table))'
  BY DriftFacts DEF Sane, RowsOf
<1>2. Serves(req[h])'
  BY DEF Serves, Undone, Changing, Taken
<1> QED BY <1>1, <1>2, DriftNext

LEMMA DriftBefore ==
  ASSUME OneHandler, Steady, SerialInv, DriftInv, NEW h \in Handlers,
         \/ BeginCreate(h) \/ BeginOnRow(h)
         \/ CheckHostnames(h) \/ CheckSite(h) \/ Refuse(h) \/ Reread(h) \/ IssueCert(h)
         \/ RemoveFiles(h) \/ MoveFiles(h) \/ (InsertRow(h) /\ table' = table)
  PROVE  DriftInv'
<1> DEFINE q == req[h]
<1>0. TypeOK /\ q \in Request /\ InStep(q) /\ q.live /\ Serves(q)
  BY DriftFacts
<1>1. CASE BeginCreate(h) \/ BeginOnRow(h)
  <2>1. Starts(req'[h]) /\ UNCHANGED <<table, served, late>> /\ q.pc \in Resting
    BY <1>1, Begun, SerialFacts
  <2> QED BY <2>1, DriftCarries DEF Starts, Reading, Changing, Resting
<1>2. CASE /\ CheckHostnames(h) \/ CheckSite(h) \/ Refuse(h) \/ Reread(h) \/ IssueCert(h)
              \/ RemoveFiles(h) \/ MoveFiles(h)
           /\ Answer(h, "failed") \/ Answer(h, "done")
  <2>1. UNCHANGED <<table, served, late>> /\ q.pc \notin Changing
    BY <1>2 DEF CheckHostnames, CheckSite, Refuse, Reread, IssueCert, RemoveFiles, MoveFiles, Running, At, Changing
  <2>2. req'[h].pc \in {"failed", "done"} /\ req'[h].live
    BY <1>0, <1>2, AnswerFields DEF Resting
  <2> QED BY <2>1, <2>2, DriftCarries DEF Resting, Changing
<1>3. CASE CheckHostnames(h) /\ Goto(h, IF q.op = "create" THEN "limit" ELSE "reread")
  <2>1. /\ UNCHANGED <<table, served, late>> /\ q.pc = "hostnames"
        /\ Hostnames(q.row) \cap Taken(table, q.id) = {}
    <3>1. UNCHANGED <<table, served, late>> /\ q.pc = "hostnames"
      BY <1>3 DEF CheckHostnames, Running, At
    <3>2. ~ Answer(h, "failed")
      BY <1>0, <1>3, AnswerFields, GotoFields DEF Steps, Resting
    <3> QED BY <1>3, <3>1, <3>2 DEF CheckHostnames
  <2>2. /\ req'[h].live /\ req'[h].op = q.op /\ req'[h].id = q.id /\ req'[h].row = q.row
        /\ req'[h].pc = IF q.op = "create" THEN "limit" ELSE "reread"
    BY <1>0, <1>3, GotoFields DEF Steps
  <2>3. q.op = "create" => q.id = 0 /\ ~ q.row.ssl
    BY <1>0, <2>1 DEF InStep, Serves, Resting
  <2> QED BY <2>1, <2>2, <2>3, DriftCarries DEF Resting, Changing
<1>4. CASE CheckSite(h) /\ Goto(h, IF q.op = "create" THEN "insert" ELSE "move")
  <2>1. UNCHANGED <<table, served, late>> /\ q.pc = "limit"
    BY <1>4 DEF CheckSite, Running, At
  <2>2. /\ req'[h].live /\ req'[h].op = q.op /\ req'[h].id = q.id /\ req'[h].row = q.row
        /\ req'[h].pc = IF q.op = "create" THEN "insert" ELSE "move"
    BY <1>0, <1>4, GotoFields DEF Steps
  <2> QED BY <1>0, <2>1, <2>2, DriftCarries DEF Serves, Resting, Changing
<1>5. CASE Reread(h) /\ req' = [req EXCEPT ![h].prev = table[req[h].id], ![h].pc = "write"]
  <2>1. UNCHANGED <<table, served, late>> /\ q.pc = "reread" /\ q.op \in Updates
    BY <1>0, <1>5 DEF Reread, Running, At, InStep
  <2>2. /\ req'[h].live /\ req'[h].op = q.op /\ req'[h].id = q.id /\ req'[h].row = q.row
        /\ req'[h].pc = "write"
    BY <1>0, <1>5 DEF TypeOK, Request
  <2> QED BY <1>0, <2>1, <2>2, DriftCarries DEF Serves, Changing, Updates
<1>6. CASE IssueCert(h) /\ req' = [req EXCEPT ![h].row.ssl = TRUE, ![h].row.cert = TRUE, ![h].pc = "write"]
  <2>1. UNCHANGED <<table, served, late>> /\ q.pc = "issue" /\ q.op = "issue" /\ q.row \in Row
    BY <1>0, <1>6 DEF IssueCert, Running, At, InStep, Resting
  <2>2. req'[h].live /\ req'[h].op = "issue" /\ req'[h].row.cert /\ req'[h].pc = "write"
    BY <1>0, <1>6, <2>1 DEF TypeOK, Request, Row
  <2> QED BY <2>1, <2>2, DriftCarries DEF Changing
<1>7. CASE MoveFiles(h) /\ Goto(h, "setowner")
  <2>1. UNCHANGED <<table, served, late>> /\ q.pc = "move" /\ q.op = "chown"
    BY <1>0, <1>7 DEF MoveFiles, At, InStep
  <2>2. req'[h].live /\ req'[h].op = "chown" /\ req'[h].pc = "setowner"
    BY <1>0, <1>7, <2>1, GotoFields DEF Steps
  <2> QED BY <2>1, <2>2, DriftCarries DEF Changing
<1>8. CASE InsertRow(h) /\ table' = table
  <2>1. q.pc = "insert" /\ req'[h].pc = "failed" /\ req'[h].live /\ UNCHANGED <<served, late>>
    BY <1>0, <1>8, InsertRefused, SerialFacts DEF InsertRow
  <2> QED BY <1>8, <2>1, DriftCarries DEF Changing, Resting
<1> QED BY <1>1, <1>2, <1>3, <1>4, <1>5, <1>6, <1>7, <1>8
        DEF CheckHostnames, CheckSite, Refuse, Reread, IssueCert, RemoveFiles, MoveFiles

(* What is undone is the row; the rest of the table is as it was.          *)
LEMMA BeforeIs ==
  ASSUME NEW t, NEW u \in Table, NEW i \in Ids, NEW r, t = [u EXCEPT ![i] = r],
         NEW w \in Table, w[i] = r, \A j \in Ids \ {i} : w[j] = u[j]
  PROVE  t = w
BY DEF Table

LEMMA DriftWrites ==
  ASSUME OneHandler, Steady, SerialInv, DriftInv, NEW h \in Handlers, WriteRow(h)
  PROVE  DriftInv'
<1> DEFINE q == req[h]
<1>1. /\ q.id \in Ids /\ table[q.id] \in Row /\ q.row \in Row /\ q.row.domain = table[q.id].domain
      /\ q.op \in Updates \cup {"issue", "attach", "disable"} /\ q.pc = "write"
      /\ table' = [table EXCEPT ![q.id] = q.row]
  BY RowWritten
<1>2. TypeOK /\ q \in Request /\ table \in Table /\ q.live /\ Sane(table) /\ Serves(q) /\ served = RowsOf(table)
  BY <1>1, DriftFacts DEF Changing
<1>3. HasRead(q) /\ table[q.id] # NoRow
  BY <1>1, SerialFacts, NoRowAssumption
<1>4. \A i \in Ids : table'[i] = IF i = q.id THEN q.row ELSE table[i]
  BY <1>1, <1>2 DEF Table
<1>5. ValidSite(q.row)
  <2>1. ValidSite(table[q.id])
    BY <1>1, <1>2, <1>3 DEF Sane
  <2>2. CASE q.op \in Updates
    BY <1>1, <1>3, <2>1, <2>2 DEF HasRead, Reading, Updates, ValidSite
  <2>3. CASE q.op \in {"issue", "attach", "disable"}
    BY <1>1, <1>2, <2>3 DEF Serves, ValidSite
  <2> QED BY <1>1, <2>2, <2>3
<1>6. \A j \in Ids \ {q.id} : table[j] # NoRow => Hostnames(q.row) \cap Hostnames(table[j]) = {}
  <2>1. CASE q.op = "realias"
    BY <1>1, <1>2, <2>1, TakenApart DEF Serves
  <2>2. CASE q.op # "realias"
    <3>1. Hostnames(q.row) = Hostnames(table[q.id])
      BY <1>1, <1>3, <2>2 DEF HasRead, Reading, Updates, Hostnames
    <3> QED BY <1>1, <1>2, <1>3, <3>1 DEF Sane
  <2> QED BY <2>1, <2>2
<1>7. Sane(table')
  <2>1. table'[q.id] = q.row /\ \A j \in Ids \ {q.id} : table'[j] = table[j]
    BY <1>1, <1>4
  <2>2. q.id \in Ids /\ Sane(table)
    BY <1>1, <1>2
  <2> HIDE DEF q
  <2> QED BY <2>1, <2>2, <1>5, <1>6, SaneWith
<1>8. /\ req'[h].pc = "snapshot" /\ req'[h].op = q.op /\ req'[h].id = q.id
      /\ req'[h].row = q.row /\ req'[h].prev = q.prev /\ req'[h].live
  BY <1>2, GotoFields DEF WriteRow, Steps
<1>9. q.op \in Updates => q.prev = table[q.id]
  BY <1>1, <1>3 DEF HasRead, Reading, Updates
<1>10. q.op \in Updates => [table' EXCEPT ![q.id] = q.prev] = table
  BY <1>1, <1>2, <1>9 DEF Table
<1>11. served' = served /\ late' = {}
  BY DriftFacts DEF WriteRow
<1>12. q.op \in Updates => Before(req[h])' = table
  BY <1>8, <1>10 DEF Before, Updates
<1>13. Serves(req[h])'
  <2>1. Undone(req'[h]) => Before(req[h])' = table
    BY <1>1, <1>8, <1>12 DEF Undone, Updates
  <2>2. (Undone(req[h]) => Sane(Before(req[h])) /\ served = RowsOf(Before(req[h])))'
    BY <1>2, <1>11, <2>1 DEF Undone
  <2> QED BY <1>1, <1>8, <2>2 DEF Serves, Updates
<1> QED BY <1>7, <1>8, <1>11, <1>13, DriftNext DEF Changing

LEMMA DriftOfRows ==
  ASSUME OneHandler, Steady, SerialInv, DriftInv, NEW h \in Handlers,
         DropRow(h) \/ SetOwner(h) \/ (InsertRow(h) /\ table' # table) \/ Unwind(h)
  PROVE  DriftInv'
<1> DEFINE q == req[h]
<1>0. /\ TypeOK /\ q \in Request /\ InStep(q) /\ table \in Table /\ q.live /\ Sane(table) /\ Serves(q)
      /\ q.pc \notin Changing => served = RowsOf(table)
      /\ served' = served /\ late' = {}
  BY DriftFacts DEF DropRow, SetOwner, InsertRow, Unwind
<1>1. CASE DropRow(h)
  <2>1. /\ q.op \in Deletes /\ q.id \in Ids /\ \A i \in Ids : table'[i] = IF i = q.id THEN NoRow ELSE table[i]
    BY <1>1, AloneDrops
  <2>2. req'[h].pc = "snapshot" /\ req'[h].live /\ req'[h].op = q.op
    BY <1>0, <1>1, GotoFields DEF DropRow, Steps
  <2>3. Sane(table')
    BY <1>0, <2>1, SaneWithout
  <2>4. Serves(req[h])'
    BY <2>1, <2>2 DEF Serves, Undone, Deletes, Updates
  <2> QED BY <1>0, <2>2, <2>3, <2>4, DriftNext DEF Changing
<1>2. CASE SetOwner(h)
  <2>1. /\ q.op = "chown" /\ q.id \in Ids /\ table[q.id] \in Row
        /\ table'[q.id].aliases = table[q.id].aliases /\ table'[q.id].ssl = table[q.id].ssl
        /\ table'[q.id].cert = table[q.id].cert /\ table'[q.id].domain = table[q.id].domain
        /\ \A i \in Ids \ {q.id} : table'[i] = table[i]
    BY <1>2, OwnerSet
  <2>2. req'[h].pc = "snapshot" /\ req'[h].live /\ req'[h].op = q.op
    BY <1>0, <1>2, GotoFields DEF SetOwner, Steps
  <2>3. Sane(table')
    <3>1. PICK r : r = table'[q.id]
      OBVIOUS
    <3>2. Hostnames(r) = Hostnames(table[q.id]) /\ (ValidSite(table[q.id]) => ValidSite(r))
      BY <2>1, <3>1 DEF Hostnames, ValidSite
    <3>3. table[q.id] # NoRow
      BY <2>1, NoRowAssumption
    <3>4. ValidSite(r) /\ \A j \in Ids \ {q.id} : table[j] # NoRow => Hostnames(r) \cap Hostnames(table[j]) = {}
      BY <1>0, <2>1, <3>2, <3>3 DEF Sane
    <3> QED BY <1>0, <2>1, <3>1, <3>4, SaneWith
  <2>4. Serves(req[h])'
    BY <2>1, <2>2 DEF Serves, Undone, Updates
  <2> QED BY <1>0, <2>2, <2>3, <2>4, DriftNext DEF Changing
<1>3. CASE InsertRow(h) /\ table' # table
  <2>1. /\ q.pc = "insert" /\ q.op = "create" /\ q.row \in Row /\ nextId \in Ids /\ table[nextId] = NoRow
        /\ table'[nextId] = [q.row EXCEPT !.cert = FALSE]
        /\ \A i \in Ids \ {nextId} : table'[i] = table[i]
        /\ req'[h].pc = "provision" /\ req'[h].id = nextId /\ req'[h].op = "create" /\ req'[h].row = q.row
        /\ req'[h].live
    BY <1>0, <1>3, AloneInserts
  <2>2. ~ q.row.ssl /\ Hostnames(q.row) \cap Taken(table, 0) = {} /\ served = RowsOf(table)
    BY <1>0, <2>1 DEF Serves, Resting, Changing
  <2>3. PICK s : s = [q.row EXCEPT !.cert = FALSE]
    OBVIOUS
  <2>4. ValidSite(s) /\ Hostnames(s) = Hostnames(q.row)
    BY <2>1, <2>2, <2>3 DEF ValidSite, Hostnames, Row
  <2>5. \A j \in Ids \ {nextId} : table[j] # NoRow => Hostnames(s) \cap Hostnames(table[j]) = {}
    <3>1. \A j \in Ids \ {0} : table[j] # NoRow => Hostnames(q.row) \cap Hostnames(table[j]) = {}
      BY <1>0, <2>2, TakenApart
    <3>2. 0 \notin Ids
      BY DEF Ids
    <3> QED BY <2>4, <3>1, <3>2
  <2>6. Sane(table')
    BY <1>0, <2>1, <2>3, <2>4, <2>5, SaneWith
  <2>7. table' \in Table
    <3>1. IInv'
      BY NextIInv, SerialFacts, <1>3 DEF Next, Handle
    <3> QED BY <3>1 DEF IInv, TypeOK
  <2>8. [table' EXCEPT ![nextId] = NoRow] = table
    BY <1>0, <2>1, <2>7 DEF Table
  <2>9. Before(req[h])' = table
    BY <2>1, <2>8 DEF Before
  <2>10. Serves(req[h])'
    <3>1. (Undone(req[h]) => Sane(Before(req[h])) /\ served = RowsOf(Before(req[h])))'
      BY <1>0, <2>2, <2>9
    <3> QED BY <2>1, <2>2, <3>1 DEF Serves
  <2> QED BY <1>0, <2>1, <2>6, <2>10, DriftNext DEF Changing
<1>4. CASE Unwind(h)
  <2>1. /\ q.pc = "unwind" /\ q.id \in Ids /\ req'[h].pc = "failed" /\ req'[h].live /\ req'[h].op = q.op
    BY <1>0, <1>4, Unwound, AnswerFields DEF Unwind, Resting
  <2>2. Undone(q) /\ Sane(Before(q)) /\ served = RowsOf(Before(q))
    BY <1>0, <2>1 DEF Serves
  <2>3. table' \in Table
    <3>1. IInv'
      BY NextIInv, SerialFacts, <1>4 DEF Next, Handle
    <3> QED BY <3>1 DEF IInv, TypeOK
  <2>4. table' = Before(q)
    <3>1. PICK r : r = IF q.op = "create" THEN NoRow ELSE q.prev
      OBVIOUS
    <3>2. \A i \in Ids : table'[i] = IF i = q.id THEN r ELSE table[i]
      BY <1>4, <2>2, <3>1, Unwound DEF Undone, Updates, Deletes
    <3> QED BY <1>0, <2>1, <2>3, <3>1, <3>2 DEF Before, Table
  <2>5. Sane(table') /\ (served = RowsOf(table))'
    BY <1>0, <2>2, <2>4 DEF RowsOf
  <2>6. Serves(req[h])'
    BY <2>1 DEF Serves, Undone, Changing, Resting
  <2> QED BY <1>0, <2>1, <2>5, <2>6, DriftNext
<1> QED BY <1>1, <1>2, <1>3, <1>4

LEMMA DriftOfSync ==
  ASSUME OneHandler, Steady, SerialInv, DriftInv, NEW h \in Handlers,
         Provision(h) \/ Snapshot(h) \/ Apply(h) \/ ApplyFails(h)
  PROVE  DriftInv'
<1> DEFINE q == req[h]
<1>0. /\ TypeOK /\ q \in Request /\ InStep(q) /\ table \in Table /\ q.live /\ Sane(table) /\ Serves(q)
      /\ table' = table /\ late' = {}
  BY DriftFacts DEF Provision, Snapshot, Apply, ApplyFails
<1>1. ASSUME served' = served, q.pc \in Changing, req'[h].pc \in {"snapshot", "apply", "unwind"},
             req'[h].op = q.op, req'[h].id = q.id, req'[h].prev = q.prev, req'[h].live,
             q.op = "create" => req'[h].row = q.row,
             req'[h].pc = "unwind" => Undone(q),
             req'[h].pc = "apply" => req'[h].specs = RowsOf(table)
      PROVE  DriftInv'
  <2>1. Before(req[h])' = Before(q) /\ (Undone(req'[h]) <=> Undone(q))
    BY <1>0, <1>1 DEF Before, Undone, Changing
  <2>2. (Undone(req[h]) => Sane(Before(req[h])) /\ served = RowsOf(Before(req[h])))'
    BY <1>0, <1>1, <2>1 DEF Serves
  <2>3. Serves(req[h])'
    BY <1>0, <1>1, <2>1, <2>2 DEF Serves, Changing, Resting, RowsOf
  <2>4. Sane(table)'
    BY <1>0 DEF Sane
  <2> QED BY <1>0, <1>1, <2>3, <2>4, DriftNext DEF Changing
<1>2. CASE Provision(h)
  <2>1. q.pc = "provision" /\ q.op = "create" /\ served' = served /\ (Goto(h, "snapshot") \/ Goto(h, "unwind"))
    BY <1>0, <1>2 DEF Provision, Running, At, InStep
  <2>2. /\ req'[h].pc \in {"snapshot", "unwind"} /\ req'[h].op = q.op /\ req'[h].id = q.id /\ req'[h].row = q.row
        /\ req'[h].prev = q.prev /\ req'[h].live
    BY <1>0, <2>1, GotoFields DEF Steps
  <2> QED BY <1>1, <2>1, <2>2 DEF Changing, Undone
<1>3. CASE Snapshot(h)
  <2>1. q.pc = "snapshot" /\ served' = served
    BY <1>3 DEF Snapshot, Running, At
  <2>2. /\ req'[h].pc = "apply" /\ req'[h].op = q.op /\ req'[h].id = q.id /\ req'[h].row = q.row
        /\ req'[h].prev = q.prev /\ req'[h].live /\ req'[h].specs = RowsOf(table)
    BY <1>0, <1>3 DEF Snapshot, TypeOK, Request
  <2> QED BY <1>1, <2>1, <2>2 DEF Changing
<1>4. CASE Apply(h)
  <2>1. q.pc = "apply" /\ served' = RowsOf(table) /\ (Leave(h, "remove") \/ Leave(h, "done"))
    BY <1>0, <1>4 DEF Apply, At, Serves
  <2>2. /\ req'[h].pc \in {"remove", "done"} /\ req'[h].op = q.op /\ req'[h].live
        /\ req'[h].pc = "remove" => req'[h].row = q.row
    BY <1>0, <2>1, LeaveFields DEF Steps, Resting
  <2>3. Serves(req[h])'
    BY <1>0, <2>1, <2>2 DEF Serves, Undone, Changing, Resting
  <2>4. Sane(table)' /\ (served = RowsOf(table))'
    BY <1>0, <2>1 DEF Sane, RowsOf
  <2> QED BY <1>0, <2>2, <2>3, <2>4, DriftNext
<1>5. CASE ApplyFails(h)
  <2>1. q.pc = "apply" /\ served' = served /\ q.specs = RowsOf(table)
    BY <1>0, <1>5 DEF ApplyFails, At, Serves
  <2>2. Renderable(q.specs)
    BY <1>0, <2>1, SaneRenders
  <2>3. q.op \in {"create"} \cup Updates
    BY <1>0, <1>5, <2>2 DEF ApplyFails, MayFail, Steady, Request, AllOps, Updates, Deletes
  <2>4. Leave(h, "unwind")
    BY <1>5, <2>3 DEF ApplyFails, AfterFailedSync
  <2>5. /\ req'[h].pc = "unwind" /\ req'[h].op = q.op /\ req'[h].id = q.id /\ req'[h].row = q.row
        /\ req'[h].prev = q.prev /\ req'[h].live
    BY <1>0, <2>4, LeaveFields DEF Steps, Resting
  <2> QED BY <1>1, <2>1, <2>3, <2>5 DEF Changing, Undone
<1> QED BY <1>2, <1>3, <1>4, <1>5

LEMMA NextDrift ==
  ASSUME OneHandler, Steady, SerialInv, DriftInv, [Next]_vars
  PROVE  DriftInv'
<1>1. ASSUME NEW h \in Handlers, BeginCreate(h) \/ BeginOnRow(h) PROVE DriftInv'
  BY <1>1, DriftBefore
<1>2. ASSUME NEW h \in Handlers, Handle(h) \/ Cancel(h) PROVE DriftInv'
  <2>1. ~ Cancel(h) /\ ~ Interrupted(h) /\ ~ GiveUp(h)
    BY <1>2, DriftFacts DEF Cancel, Interrupted, GiveUp, Steady
  <2> QED BY <1>2, <2>1, DriftBefore, DriftWrites, DriftOfRows, DriftOfSync DEF Handle
<1>3. ~ LateApply /\ ~ LateMove
  BY DEF LateApply, LateMove, DriftInv
<1>4. ASSUME UNCHANGED vars PROVE DriftInv'
  <2>1. UNCHANGED <<table, served, late, req>>
    BY <1>4 DEF vars
  <2>2. ASSUME NEW h \in Handlers PROVE req'[h].live /\ Serves(req[h])'
    BY <2>1 DEF DriftInv, Serves, Before
  <2> QED BY <2>1, <2>2 DEF DriftInv
<1> QED BY <1>1, <1>2, <1>3, <1>4 DEF Next

LEMMA InitDrift == Init => DriftInv
<1> SUFFICES ASSUME Init PROVE DriftInv
  OBVIOUS
<1>1. Sane(table)
  <2>1. \A i \in Ids : table[i] # NoRow => table[i] \in RowsOf(table)
    BY DEF RowsOf
  <2>2. \A i, j \in Ids : i # j /\ table[i] # NoRow /\ table[j] # NoRow => table[i] # table[j]
    BY FirstTableAssumption DEF Init
  <2>3. Renderable(RowsOf(table))
    BY FirstTableAssumption DEF Init
  <2> QED BY <2>1, <2>2, <2>3 DEF Sane, Renderable, NoDuplicates
<1>2. \A h \in Handlers : req[h].live /\ Serves(req[h])
  BY DEF Init, NoRequest, Serves, Undone, Changing, Resting
<1> QED BY <1>1, <1>2 DEF Init, DriftInv

(* Requests one after the other, every answer waited for, nothing failing  *)
(* but what the panel undoes: at rest, the configuration served is the one *)
(* the table describes.                                                    *)
THEOREM NothingDrifts ==
  ASSUME OneHandler, Steady
  PROVE  Spec => []NoDrift
<1>1. SerialInv /\ DriftInv /\ [Next]_vars => DriftInv'
  BY NextDrift
<1>2. DriftInv => NoDrift
  BY DEF DriftInv, NoDrift, Quiet, Resting, Changing
<1> QED BY <1>1, <1>2, InitDrift, SerialInvariance, PTL DEF Spec

=============================================================================
