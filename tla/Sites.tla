------------------------------- MODULE Sites --------------------------------
(***************************************************************************)
(* Website lifecycle: internal/sites/service.go run by concurrent requests *)
(* of opanel-api, over the sites table, the site directories and the       *)
(* configuration the webserver serves.                                     *)
(*                                                                         *)
(* No lock is held across a request.  A request is a sequence of database  *)
(* statements and agent calls, each atomic on its own, and any other       *)
(* request may run between two of them.  Every mutation ends in            *)
(* SyncWebserver: read all rows (siteSpecs), then ask the agent to apply   *)
(* exactly those rows.  requirePHP and EnsureAccount change none of the    *)
(* state below; they may fail, and Refuse is that failure.                 *)
(*                                                                         *)
(* Every statement and call takes the request's context.  When the browser *)
(* goes away the context is cancelled: the next statement or dial returns  *)
(* an error, the ones that would undo an earlier step included.  A call    *)
(* the client stops waiting for is not cancelled at the agent; `late'      *)
(* holds the calls that will still take effect.                            *)
(***************************************************************************)
EXTENDS SiteRows

CONSTANTS Handlers,      \* request handlers that may run at the same time
          Ops,           \* the operations offered to them
          SiteLimit,     \* the package's max_sites, the same for each owner
          FirstTable,    \* the table when the panel starts
          MaxRequests,   \* bound: requests begun in one behaviour
          Failing,       \* operations whose agent calls may answer an error, site.move apart
          MayCancel,     \* whether a client may go away mid-request
          GiveUpOn       \* calls whose answer may outlast the 150 s client

Updates == {"realias", "suspend", "resume"}
Deletes == {"delete", "purge"}       \* remove_files=false, =true
AllOps  == {"create", "issue", "attach", "disable", "chown"} \cup Updates \cup Deletes

ASSUME OpsAssumption == Ops \subseteq AllOps
ASSUME BoundAssumption == MaxRequests \in Nat /\ SiteLimit \in Nat
ASSUME SwitchAssumption ==
  /\ Failing \subseteq AllOps \cup {"move"}
  /\ MayCancel \in BOOLEAN
  /\ GiveUpOn \subseteq {"apply", "move"}
(* The panel starts from a table it could have stored: renderable, with    *)
(* the ids handed out so far and every site in its owner's home.           *)
ASSUME FirstTableAssumption ==
  /\ FirstTable \in Table
  /\ Renderable(RowsOf(FirstTable))
  /\ \E n \in 1 .. MaxId + 1 : \A i \in Ids : FirstTable[i] # NoRow <=> i < n
  /\ \A i, j \in Ids : FirstTable[i] # NoRow /\ FirstTable[i] = FirstTable[j] => i = j
  /\ \A r \in RowsOf(FirstTable) : r.home = r.owner /\ r.domain \notin r.aliases

VARIABLES table,    \* the sites table
          nextId,   \* AUTOINCREMENT
          files,    \* <<account, domain>>: site directories that exist
          served,   \* the rows the served configuration was rendered from
          late,     \* agent calls nobody waits for any more
          req,      \* each handler's request
          begun     \* requests begun so far

vars == <<table, nextId, files, served, late, req, begun>>

Resting == {"idle", "done", "failed"}
Steps == Resting \cup
  {"hostnames", "limit", "insert", "provision", "drop", "reread", "issue",
   "write", "move", "setowner", "snapshot", "apply", "remove", "unwind"}

NoRequest == [op |-> "none", pc |-> "idle", id |-> 0, row |-> NoRow,
              prev |-> NoRow, specs |-> {}, live |-> TRUE]

Request == [op: AllOps \cup {"none"}, pc: Steps, id: Ids \cup {0},
            row: Row \cup {NoRow}, prev: Row \cup {NoRow},
            specs: SUBSET Row, live: BOOLEAN]

LateCall == [kind: {"apply"}, specs: SUBSET Row]
       \cup [kind: {"move"}, domain: Hosts, from: Owners, to: Owners]

TypeOK ==
  /\ table \in Table
  /\ nextId \in 1 .. MaxId + 1
  /\ files \subseteq Owners \X Hosts
  /\ served \subseteq Row
  /\ late \subseteq LateCall
  /\ req \in [Handlers -> Request]
  /\ begun \in 0 .. MaxRequests

Init ==
  /\ table = FirstTable
  /\ nextId \in 1 .. MaxId + 1
  /\ \A i \in Ids : FirstTable[i] # NoRow <=> i < nextId
  /\ files = {<<r.home, r.domain>> : r \in RowsOf(FirstTable)}
  /\ served = RowsOf(FirstTable)
  /\ late = {}
  /\ req = [h \in Handlers |-> NoRequest]
  /\ begun = 0

-----------------------------------------------------------------------------
At(h, pc) == req[h].pc = pc
Running(h, pc) == At(h, pc) /\ req[h].live
MayFail(h) == req[h].op \in Failing

Goto(h, pc) == req' = [req EXCEPT ![h].pc = pc]

(* The handler answers; what it keeps is only what the answer was about. *)
Answer(h, pc) ==
  req' = [req EXCEPT ![h] = [NoRequest EXCEPT !.op = req[h].op, !.pc = pc,
                                             !.id = req[h].id, !.live = req[h].live]]

Leave(h, pc) == IF pc \in Resting THEN Answer(h, pc) ELSE Goto(h, pc)

(* (slip) A failed delete or update is not undone. *)
AfterFailedSyncSlip(op) == IF op = "create" THEN "unwind" ELSE "failed"

(* (slip) Neither is a failed create. *)
AfterFailedSyncSlip2(op) == IF op \in Deletes \cup Updates THEN "unwind" ELSE "failed"

(* Create, Delete and Update undo their row when SyncWebserver fails; the  *)
(* certificate operations and ChangeOwner return the error.                *)
AfterFailedSync(op) ==
  IF op \in {"create"} \cup Deletes \cup Updates THEN "unwind" ELSE "failed"

Begin(h, op, pc, id, row, prev) ==
  /\ At(h, "idle") \/ At(h, "done") \/ At(h, "failed")
  /\ op \in Ops
  /\ begun < MaxRequests
  /\ begun' = begun + 1
  /\ req' = [req EXCEPT ![h] = [NoRequest EXCEPT !.op = op, !.pc = pc, !.id = id,
                                                 !.row = row, !.prev = prev]]
  /\ UNCHANGED <<table, nextId, files, served, late>>

NewRow(d, al, o) == [domain |-> d, aliases |-> al, owner |-> o, home |-> o,
                     ssl |-> FALSE, cert |-> FALSE, suspended |-> FALSE]

BeginCreate(h) ==
  \E d \in Hosts, o \in Owners : \E al \in SUBSET (Hosts \ {d}) :
    Begin(h, "create", "hostnames", 0, NewRow(d, al, o), NoRow)

(* (slip) Every column but the aliases takes its default. *)
RealiasedSlip(r, al) == NewRow(r.domain, al, r.owner)

(* An update changes the columns it was asked to. *)
Realiased(r, al) == [r EXCEPT !.aliases = al]

(* The other operations start from the row as they read it. *)
BeginOnRow(h) ==
  \E i \in Ids :
    LET r == table[i] IN
    /\ r # NoRow
    /\ \/ \E op \in Deletes : Begin(h, op, "drop", i, r, NoRow)
       \/ \E al \in SUBSET (Hosts \ {r.domain}) :
            Begin(h, "realias", "hostnames", i, Realiased(r, al), NoRow)
       \/ Begin(h, "suspend", "reread", i, [r EXCEPT !.suspended = TRUE], NoRow)
       \/ Begin(h, "resume", "reread", i, [r EXCEPT !.suspended = FALSE], NoRow)
       \/ Begin(h, "issue", "issue", i, r, NoRow)
       \/ Begin(h, "attach", "write", i, [r EXCEPT !.ssl = TRUE, !.cert = TRUE], NoRow)
       \/ Begin(h, "disable", "write", i, [r EXCEPT !.ssl = FALSE], NoRow)
       \/ \E o \in Owners \ {r.owner} :
            Begin(h, "chown", "limit", i, [r EXCEPT !.owner = o, !.home = o], r)

-----------------------------------------------------------------------------
(* Checks made before anything is changed. *)

(* (slip) A conflict is not answered. *)
CheckHostnamesSlip(h) ==
  /\ Running(h, "hostnames")
  /\ Hostnames(req[h].row) \cap Taken(table, req[h].id) = {}
  /\ Goto(h, IF req[h].op = "create" THEN "limit" ELSE "reread")
  /\ UNCHANGED <<table, nextId, files, served, late, begun>>

CheckHostnames(h) ==
  /\ Running(h, "hostnames")
  /\ IF Hostnames(req[h].row) \cap Taken(table, req[h].id) # {}
     THEN Answer(h, "failed")
     ELSE Goto(h, IF req[h].op = "create" THEN "limit" ELSE "reread")
  /\ UNCHANGED <<table, nextId, files, served, late, begun>>

CheckSite(h) ==
  /\ Running(h, "limit")
  /\ IF CountSitesByOwner(table, req[h].row.owner) >= SiteLimit
     THEN Answer(h, "failed")
     ELSE Goto(h, IF req[h].op = "create" THEN "insert" ELSE "move")
  /\ UNCHANGED <<table, nextId, files, served, late, begun>>

(* requirePHP or EnsureAccount fails. *)
Refuse(h) ==
  /\ MayFail(h)
  /\ Running(h, "insert") \/ Running(h, "move") \/ Running(h, "reread")
  /\ Answer(h, "failed")
  /\ UNCHANGED <<table, nextId, files, served, late, begun>>

(* Update reads the row again, to be able to put it back. *)
Reread(h) ==
  /\ Running(h, "reread")
  /\ IF table[req[h].id] = NoRow
     THEN Answer(h, "failed")
     ELSE req' = [req EXCEPT ![h].prev = table[req[h].id], ![h].pc = "write"]
  /\ UNCHANGED <<table, nextId, files, served, late, begun>>

-----------------------------------------------------------------------------
(* The row changes. *)

InsertRow(h) ==
  /\ Running(h, "insert")
  /\ nextId \in Ids
  /\ IF DomainFree(table, req[h].row.domain)
     THEN /\ table' = CreateSite(table, nextId, req[h].row)
          /\ nextId' = nextId + 1
          /\ req' = [req EXCEPT ![h].id = nextId, ![h].pc = "provision"]
     ELSE Answer(h, "failed") /\ UNCHANGED <<table, nextId>>
  /\ UNCHANGED <<files, served, late, begun>>

(* (slip) The files go first. *)
DropRowSlip(h) ==
  /\ Running(h, "drop")
  /\ table' = DeleteSite(table, req[h].id)
  /\ Goto(h, IF req[h].op = "purge" THEN "remove" ELSE "snapshot")
  /\ UNCHANGED <<nextId, files, served, late, begun>>

DropRow(h) ==
  /\ Running(h, "drop")
  /\ table' = DeleteSite(table, req[h].id)
  /\ Goto(h, "snapshot")
  /\ UNCHANGED <<nextId, files, served, late, begun>>

(* The whole row is written, the columns this request did not ask to change *)
(* included, as they were when it read them.                                *)
WriteRow(h) ==
  /\ Running(h, "write")
  /\ table' = UpdateSite(table, req[h].id, req[h].row)
  /\ Goto(h, "snapshot")
  /\ UNCHANGED <<nextId, files, served, late, begun>>

SetOwner(h) ==
  /\ Running(h, "setowner")
  /\ table' = UpdateSiteOwner(table, req[h].id, req[h].row.owner)
  /\ Goto(h, "snapshot")
  /\ UNCHANGED <<nextId, files, served, late, begun>>

(* Undo after a failed agent call: Create deletes its row, Delete inserts  *)
(* the row it read (under a new id), Update writes the row it read last.   *)
Unwind(h) ==
  /\ Running(h, "unwind")
  /\ \/ /\ req[h].op = "create"
        /\ table' = DeleteSite(table, req[h].id)
        /\ UNCHANGED nextId
     \/ /\ req[h].op \in Updates
        /\ table' = UpdateSite(table, req[h].id, req[h].prev)
        /\ UNCHANGED nextId
     \/ /\ req[h].op \in Deletes
        /\ DomainFree(table, req[h].row.domain)
        /\ nextId \in Ids
        /\ table' = CreateSite(table, nextId, req[h].row)
        /\ nextId' = nextId + 1
     \/ /\ req[h].op \in Deletes
        /\ ~ DomainFree(table, req[h].row.domain)
        /\ UNCHANGED <<table, nextId>>
  /\ Answer(h, "failed")
  /\ UNCHANGED <<files, served, late, begun>>

-----------------------------------------------------------------------------
(* The agent's side: actions on the host, one at a time each. *)

(* (slip) The rows are not read again after the tree is made. *)
ProvisionSlip(h) ==
  /\ Running(h, "provision")
  /\ LET dir == <<req[h].row.home, req[h].row.domain>> IN
     \/ Goto(h, "apply") /\ files' = files \cup {dir}
     \/ MayFail(h) /\ Goto(h, "unwind") /\ files' \in {files, files \cup {dir}}
  /\ UNCHANGED <<table, nextId, served, late, begun>>

(* site.provision makes the directory tree and may fail part way through. *)
Provision(h) ==
  /\ Running(h, "provision")
  /\ LET dir == <<req[h].row.home, req[h].row.domain>> IN
     \/ Goto(h, "snapshot") /\ files' = files \cup {dir}
     \/ MayFail(h) /\ Goto(h, "unwind") /\ files' \in {files, files \cup {dir}}
  /\ UNCHANGED <<table, nextId, served, late, begun>>

(* site.remove refuses a directory outside the owner's home. *)
RemoveFiles(h) ==
  /\ Running(h, "remove")
  /\ LET r == req[h].row IN
     \/ /\ r.home = r.owner
        /\ files' = files \ {<<r.home, r.domain>>}
        /\ Answer(h, "done")
     \/ /\ r.home # r.owner \/ MayFail(h)
        /\ UNCHANGED files
        /\ Answer(h, "failed")
  /\ UNCHANGED <<table, nextId, served, late, begun>>

IssueCert(h) ==
  /\ Running(h, "issue")
  /\ \/ req' = [req EXCEPT ![h].row.ssl = TRUE, ![h].row.cert = TRUE, ![h].pc = "write"]
     \/ MayFail(h) /\ Answer(h, "failed")
  /\ UNCHANGED <<table, nextId, files, served, late, begun>>

CanMove(d, from, to) == <<from, d>> \in files /\ <<to, d>> \notin files
Moved(d, from, to) == (files \ {<<from, d>>}) \cup {<<to, d>>}

(* (slip) A move that fails late removes what it had copied, as one that   *)
(* fails early does.                                                       *)
HalfMovedSlip(d, from, to) == {files, files \ {<<from, d>>}}

(* A move that fails: nothing copied, the copy made but the source not     *)
(* removed, or the tree moved and not handed over or not made servable.    *)
HalfMoved(d, from, to) == {files, files \cup {<<to, d>>}, Moved(d, from, to)}

(* site.move goes from the account the row named to the new one; when it   *)
(* fails the row is not changed, wherever the files are by then.           *)
MoveFiles(h) ==
  /\ At(h, "move")
  /\ LET d == req[h].row.domain from == req[h].prev.owner to == req[h].row.owner IN
     \/ /\ CanMove(d, from, to)
        /\ files' = Moved(d, from, to)
        /\ Goto(h, "setowner")
     \/ /\ ~ CanMove(d, from, to)
        /\ UNCHANGED files
        /\ Answer(h, "failed")
     \/ /\ CanMove(d, from, to) /\ "move" \in Failing
        /\ files' \in HalfMoved(d, from, to)
        /\ Answer(h, "failed")
  /\ UNCHANGED <<table, nextId, served, late, begun>>

(* siteSpecs: every row, read in one statement. *)
Snapshot(h) ==
  /\ Running(h, "snapshot")
  /\ req' = [req EXCEPT ![h].specs = RowsOf(table), ![h].pc = "apply"]
  /\ UNCHANGED <<table, nextId, files, served, late, begun>>

(* webserver.apply: all or nothing.  What was rendered is served, or the   *)
(* previous configuration still is.                                        *)
Apply(h) ==
  /\ At(h, "apply")
  /\ Renderable(req[h].specs)
  /\ served' = req[h].specs
  /\ Leave(h, IF req[h].op = "purge" THEN "remove" ELSE "done")
  /\ UNCHANGED <<table, nextId, files, late, begun>>

ApplyFails(h) ==
  /\ At(h, "apply")
  /\ ~ Renderable(req[h].specs) \/ MayFail(h)
  /\ Leave(h, AfterFailedSync(req[h].op))
  /\ UNCHANGED <<table, nextId, files, served, late, begun>>

-----------------------------------------------------------------------------
(* The client goes away. *)
Cancel(h) ==
  /\ MayCancel
  /\ req[h].pc \notin Resting
  /\ req[h].live
  /\ req' = [req EXCEPT ![h].live = FALSE]
  /\ UNCHANGED <<table, nextId, files, served, late, begun>>

(* The next statement or dial of a cancelled request returns an error, and *)
(* the step that would undo the row is one of those.                       *)
Interrupted(h) ==
  /\ ~ req[h].live
  /\ req[h].pc \notin Resting
  /\ Leave(h, IF At(h, "snapshot") \/ At(h, "apply") \/ At(h, "provision")
              THEN AfterFailedSync(req[h].op) ELSE "failed")
  /\ UNCHANGED <<table, nextId, files, served, late, begun>>

(* The client's deadline passes before the agent's answer; the action goes *)
(* on at the agent.                                                        *)
GiveUp(h) ==
  /\ \/ /\ "apply" \in GiveUpOn /\ At(h, "apply")
        /\ late' = late \cup {[kind |-> "apply", specs |-> req[h].specs]}
        /\ Leave(h, AfterFailedSync(req[h].op))
     \/ /\ "move" \in GiveUpOn /\ At(h, "move")
        /\ late' = late \cup {[kind |-> "move", domain |-> req[h].row.domain,
                               from |-> req[h].prev.owner, to |-> req[h].row.owner]}
        /\ Answer(h, "failed")
  /\ UNCHANGED <<table, nextId, files, served, begun>>

LateApply ==
  /\ \E c \in late :
       /\ c.kind = "apply"
       /\ late' = late \ {c}
       /\ \/ Renderable(c.specs) /\ served' = c.specs
          \/ (~ Renderable(c.specs) \/ Failing # {}) /\ UNCHANGED served
  /\ UNCHANGED <<table, nextId, files, req, begun>>

LateMove ==
  /\ \E c \in late :
       /\ c.kind = "move"
       /\ late' = late \ {c}
       /\ \/ CanMove(c.domain, c.from, c.to) /\ files' = Moved(c.domain, c.from, c.to)
          \/ ~ CanMove(c.domain, c.from, c.to) /\ UNCHANGED files
          \/ /\ CanMove(c.domain, c.from, c.to) /\ "move" \in Failing
             /\ files' \in HalfMoved(c.domain, c.from, c.to)
  /\ UNCHANGED <<table, nextId, served, req, begun>>

-----------------------------------------------------------------------------
Handle(h) ==
  \/ CheckHostnames(h) \/ CheckSite(h) \/ Refuse(h) \/ Reread(h)
  \/ InsertRow(h) \/ DropRow(h) \/ WriteRow(h) \/ SetOwner(h) \/ Unwind(h)
  \/ Provision(h) \/ RemoveFiles(h) \/ IssueCert(h) \/ MoveFiles(h)
  \/ Snapshot(h) \/ Apply(h) \/ ApplyFails(h) \/ Interrupted(h) \/ GiveUp(h)

Next ==
  \/ \E h \in Handlers : BeginCreate(h) \/ BeginOnRow(h) \/ Handle(h) \/ Cancel(h)
  \/ LateApply
  \/ LateMove

Spec == Init /\ [][Next]_vars

(* A goroutine that can take its next step takes it, and the agent answers *)
(* within its budget; no client has to send a request.                     *)
FairSpec == Spec /\ \A h \in Handlers : WF_vars(Handle(h))
-----------------------------------------------------------------------------
(* No request is running and no agent call is outstanding. *)
Quiet == late = {} /\ \A h \in Handlers : req[h].pc \in Resting

(* A create that answers an error, its client still there, has left no row *)
(* behind, at whichever step it failed and whatever else was running.      *)
CreateUnwinds ==
  \A h \in Handlers :
    At(h, "failed") /\ req[h].op = "create" /\ req[h].live /\ req[h].id # 0
      => table[req[h].id] = NoRow

(* A create answers success only in a step after which its site is served, *)
(* unless the site was deleted meanwhile: rows are read after the insert.  *)
CreateAnswersServed ==
  [][\A h \in Handlers :
       At(h, "apply") /\ req[h].op = "create" /\ req'[h].pc = "done"
         => \/ table[req[h].id] = NoRow
            \/ \E r \in served' : r.domain = table[req[h].id].domain]_vars

(* SyncWebserver's promise: once the panel is at rest, the configuration   *)
(* served is the one the table describes.                                  *)
NoDrift == Quiet => served = RowsOf(table)

(* At rest, every row has its directory where document_root says it is,    *)
(* while no change of owner fails in the course of its move.               *)
FilesInPlace == Quiet => \A r \in RowsOf(table) : <<r.home, r.domain>> \in files

(* However a request fails, and however late its move ends, the files of a *)
(* row are in some account's home: no failed move, unwound create or purge *)
(* put back leaves a site in the table whose files are nowhere.            *)
FilesSurvive ==
  Quiet => \A r \in RowsOf(table) : \E o \in Owners : <<o, r.domain>> \in files

(* Delete takes a site out of the configuration before it removes its      *)
(* files: no purge removes a directory that is still served.               *)
FilesLeaveLast ==
  [][\A h \in Handlers : At(h, "remove") =>
       \A dir \in files \ files' : \A r \in served : <<r.home, r.domain>> # dir]_vars

(* An update leaves alone what it was not asked to change: only a request  *)
(* to resume a site lifts its suspension, or one that puts back a row      *)
(* after a failed apply.                                                   *)
SuspensionHolds ==
  [][\A i \in Ids :
       table[i] # NoRow /\ table'[i] # NoRow /\ table[i].suspended /\ ~ table'[i].suspended
         => \E h \in Handlers : req[h].id = i /\ (req[h].op = "resume" \/ At(h, "unwind"))]_vars

(* Every request is answered, whatever fails under it. *)
RequestsEnd == \A h \in Handlers : (req[h].pc \notin Resting) ~> (req[h].pc \in Resting)
=============================================================================
