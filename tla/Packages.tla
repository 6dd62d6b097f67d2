------------------------------ MODULE Packages ------------------------------
(***************************************************************************)
(* What an account may use: packages, the allowance of a reseller who      *)
(* sells them, and the limit the filesystem keeps (internal/plans,         *)
(* internal/panelusers/reseller.go, internal/db/plans.go and scope.go, the *)
(* handlers over them, quota.set in the agent).                            *)
(*                                                                         *)
(* A package is its disk size; 0 is no limit, there and everywhere below.  *)
(* A package belongs to a reseller or to the server, and so does a         *)
(* customer; who may manage whom is in Accounts.  Each statement and each  *)
(* call to the agent is atomic.  An update of a package leaves a job       *)
(* behind, run by one of Jobs, that sets the limits of the accounts then   *)
(* on it; jobs and requests run at the same time.                          *)
(*                                                                         *)
(* A definition marked (slip) is a plausible mistake in the one it         *)
(* precedes and is used nowhere.                                           *)
(***************************************************************************)
EXTENDS Naturals, FiniteSets, FiniteSetsExt

CONSTANTS Customers, Resellers, PlanIds,
          Sizes,         \* what a package may hold
          Limits,        \* allowances an administrator may set
          Server,        \* owner of what is no reseller's
          NoPlan, Gone,  \* an id not given out yet, and one never again
          FirstPlans, FirstUsers, FirstLimit,  \* the tables at the start
          FirstEnforced, \* whether the kernel enforces project quota
          Handlers,      \* request handlers that may run at the same time
          Jobs,          \* bound: background jobs at the same time
          Ops,           \* the operations offered
          MaxRequests,   \* bound
          MayFail        \* whether calls fail and clients go away

Owners == Resellers \cup {Server}
Plan == [size: Sizes, owner: Owners]
User == [made: BOOLEAN, parent: Owners, plan: PlanIds \cup {NoPlan}]
Limit == [accounts: Nat, disk: Nat, oversell: BOOLEAN, sells: BOOLEAN]

AllOps == {"create", "assign", "touch", "new", "update", "delete", "limits", "parent"}

ASSUME SizesAssumption == Sizes \subseteq Nat /\ 0 \in Sizes /\ Limits \subseteq Limit
ASSUME OwnersAssumption ==
  Server \notin Resellers /\ NoPlan # Gone /\ {NoPlan, Gone} \cap (PlanIds \cup Plan) = {}
ASSUME CustomersAssumption == Customers # {} /\ IsFiniteSet(Customers)
ASSUME FirstAssumption ==
  /\ FirstPlans \in [PlanIds -> Plan \cup {NoPlan, Gone}]
  /\ FirstUsers \in [Customers -> User]
  /\ \A u \in Customers : LET p == FirstUsers[u].plan IN
       p # NoPlan => FirstUsers[u].made /\ FirstPlans[p] \notin {NoPlan, Gone}
  /\ FirstLimit \in [Resellers -> Limit]
  /\ FirstEnforced \in BOOLEAN
ASSUME BoundAssumption ==
  Handlers \cap Jobs = {} /\ Ops \subseteq AllOps /\ MaxRequests \in Nat /\ MayFail \in BOOLEAN

VARIABLES plans,     \* the plans table
          users,     \* the users table, what a package needs of it
          limits,    \* the reseller_limits table
          enforced,  \* whether the running kernel enforces project quota
          quota,     \* the hard limit of each account's project
          owed,      \* accounts whose limit was refused, not read or overtaken
          req,       \* what each handler and job is doing
          begun      \* requests begun so far

vars == <<plans, users, limits, enforced, quota, owed, req, begun>>
tables == <<plans, users, limits>>
host == <<enforced, quota>>

Actors == Handlers \cup Jobs

Steps == {"idle", "plan", "before", "check", "allow", "insert", "assign",
          "list", "next", "read", "set", "may", "add", "write", "drop", "limits", "parent"}

Request == [op: AllOps \cup {"none", "reapply"}, pc: Steps, by: Owners, to: Owners,
            who: Customers, plan: PlanIds \cup {NoPlan}, size: Sizes,
            before: Sizes, limit: Sizes, todo: SUBSET Customers,
            overtaken: BOOLEAN]

Exists(p) == p # NoPlan /\ plans[p] \notin {NoPlan, Gone}
SizeOf(p) == IF Exists(p) THEN plans[p].size ELSE 0
OnPlan(p) == {u \in Customers : users[u].made /\ users[u].plan = p}

(* AllocationFor: what is promised to a reseller's customers. *)
CustomersOf(r) == {u \in Customers : users[u].made /\ users[u].parent = r}
Allocated(r) == MapThenSumSet(LAMBDA u : SizeOf(users[u].plan), CustomersOf(r))

TypeOK ==
  /\ plans \in [PlanIds -> Plan \cup {NoPlan, Gone}]
  /\ users \in [Customers -> User]
  /\ \A u \in Customers : users[u].plan # NoPlan => users[u].made /\ Exists(users[u].plan)
  /\ limits \in [Resellers -> Limit]
  /\ enforced \in BOOLEAN /\ quota \in [Customers -> Sizes]
  /\ owed \subseteq Customers
  /\ req \in [Actors -> Request]
  /\ \A j \in Jobs : req[j].op \in {"none", "reapply"}
  /\ begun \in 0 .. MaxRequests

NoRequest == [op |-> "none", pc |-> "idle", by |-> Server, to |-> Server,
              who |-> CHOOSE u \in Customers : TRUE, plan |-> NoPlan, size |-> 0,
              before |-> 0, limit |-> 0, todo |-> {}, overtaken |-> FALSE]

Init ==
  /\ plans = FirstPlans
  /\ users = FirstUsers
  /\ limits = FirstLimit
  /\ enforced = FirstEnforced
  /\ quota = [u \in Customers |->
                IF FirstEnforced /\ FirstUsers[u].plan # NoPlan
                THEN FirstPlans[FirstUsers[u].plan].size ELSE 0]
  /\ owed = IF FirstEnforced THEN {} ELSE Customers
  /\ req = [h \in Actors |-> NoRequest]
  /\ begun = 0

-----------------------------------------------------------------------------
At(h, pc) == req[h].pc = pc
Resting(h) == At(h, "idle")

(* An answered request is forgotten, and what is read no more of one that  *)
(* has come to its limit.                                                  *)
Then(h, pc) ==
  CASE pc = "done" -> NoRequest
    [] pc = "read" -> [NoRequest EXCEPT !.op = "touch", !.pc = "read", !.who = req[h].who]
    [] OTHER       -> [req[h] EXCEPT !.pc = pc]
Goto(h, pc) == req' = [req EXCEPT ![h] = Then(h, pc)]

(* The same, by a step that writes one of the tables: whoever is in the    *)
(* middle of something may be going by what is no longer there.            *)
Wrote(h, pc) ==
  req' = [g \in Actors |-> IF g = h THEN Then(h, pc)
                           ELSE [req[g] EXCEPT !.overtaken = ~ Resting(g)]]

Begin(h, r) ==
  /\ Resting(h)
  /\ r.op \in Ops
  /\ begun < MaxRequests
  /\ begun' = begun + 1
  /\ req' = [req EXCEPT ![h] = r]
  /\ UNCHANGED <<tables, host, owed>>

(* handleUserCreate, handleUserPlanAssign and the new quota of an account  *)
(* whose files were moved.  A reseller's customers are the reseller's own; *)
(* whatever an administrator creates may be handed to a reseller.          *)
BeginAccount(h) ==
  \E u \in Customers, by, to \in Owners, p \in PlanIds \cup {NoPlan} :
    LET base == [NoRequest EXCEPT !.by = by, !.to = to, !.who = u, !.plan = p] IN
    \/ /\ ~ users[u].made
       /\ by \in {Server, to}
       /\ Begin(h, [base EXCEPT !.op = "create", !.pc = "plan"])
    \/ /\ users[u].made
       /\ to = users[u].parent /\ by \in {Server, to}
       /\ Begin(h, [base EXCEPT !.op = "assign", !.pc = "before"])
    \/ /\ users[u].made
       /\ to = Server /\ by = Server /\ p = NoPlan
       /\ Begin(h, [base EXCEPT !.op = "touch", !.pc = "read"])

BeginPackage(h) ==
  \E p \in PlanIds, by \in Owners, n \in Sizes :
    LET base == [NoRequest EXCEPT !.by = by, !.plan = p, !.size = n] IN
    \/ Begin(h, [base EXCEPT !.op = "new", !.pc = "may"])
    \/ Begin(h, [base EXCEPT !.op = "update", !.pc = "plan"])
    \/ n = 0 /\ Begin(h, [base EXCEPT !.op = "delete", !.pc = "plan"])

(* handleResellerLimitsSet and handleUserParentSet, an administrator's. *)
BeginReseller(h) ==
  \E to \in Owners :
    LET base == [NoRequest EXCEPT !.to = to] IN
    \/ to \in Resellers /\ Begin(h, [base EXCEPT !.op = "limits", !.pc = "limits"])
    \/ \E u \in Customers :
         users[u].made /\ Begin(h, [base EXCEPT !.op = "parent", !.pc = "parent", !.who = u])

-----------------------------------------------------------------------------
(* Giving an account a package. *)

(* What the account has now: only the difference is charged.  A package    *)
(* that cannot be read counts as none.                                     *)
ReadBefore(h) ==
  /\ At(h, "before")
  /\ \E n \in {SizeOf(users[req[h].who].plan)} \cup (IF MayFail THEN {0} ELSE {}) :
       req' = [req EXCEPT ![h].before = n, ![h].pc = "plan"]
  /\ UNCHANGED <<tables, host, owed, begun>>

MayEdit(by, p) == by \in {Server, plans[p].owner}

(* PlanByID.  Only a create takes a package of another owner. *)
LoadPlan(h) ==
  /\ At(h, "plan")
  /\ LET r == req[h] p == r.plan IN
     IF p = NoPlan THEN req' = [req EXCEPT ![h].size = 0, ![h].pc = "allow"]
     ELSE IF ~ Exists(p) \/ (r.op # "create" /\ ~ MayEdit(r.by, p)) THEN Goto(h, "done")
     ELSE CASE r.op = "update" -> req' = [req EXCEPT ![h].before = SizeOf(p), ![h].pc = "write"]
            [] r.op = "delete" -> Goto(h, "drop")
            [] OTHER           -> req' = [req EXCEPT ![h].size = SizeOf(p), ![h].pc = "allow"]
  /\ UNCHANGED <<tables, host, owed, begun>>

(* CheckCanCreateAccount and CheckCanAllocate: whether r may hand out n more. *)
RoomFor(r, n) ==
  \/ limits[r].oversell \/ limits[r].disk = 0
  \/ Allocated(r) + n <= limits[r].disk
RoomForAccount(r) ==
  limits[r].accounts = 0 \/ Cardinality(CustomersOf(r)) < limits[r].accounts

(* (slip) A bigger package is charged as if it were the first. *)
AllowSlip(h) ==
  /\ At(h, "allow")
  /\ LET r == req[h] IN
     Goto(h, IF r.by = Server \/ limits[r.by].oversell \/ limits[r.by].disk = 0
                \/ r.size <= limits[r.by].disk
             THEN IF r.op = "create" THEN "insert" ELSE "assign"
             ELSE "done")
  /\ UNCHANGED <<tables, host, owed, begun>>

Allow(h) ==
  /\ At(h, "allow")
  /\ LET r == req[h] IN
     IF r.op = "create"
     THEN Goto(h, IF r.by = Server \/ (RoomForAccount(r.by) /\ RoomFor(r.by, r.size))
                  THEN "insert" ELSE "done")
     ELSE Goto(h, IF r.by = Server \/ r.size <= r.before \/ RoomFor(r.by, r.size - r.before)
                  THEN "assign" ELSE "done")
  /\ UNCHANGED <<tables, host, owed, begun>>

(* panelusers.Create: in the Accounts module; here it is done or refused. *)
CreateUser(h) ==
  /\ At(h, "insert")
  /\ IF users[req[h].who].made THEN Goto(h, "done") /\ UNCHANGED users
     ELSE /\ users' = [users EXCEPT ![req[h].who] =
                          [made |-> TRUE, parent |-> req[h].to, plan |-> NoPlan]]
          /\ Wrote(h, IF req[h].plan = NoPlan THEN "read" ELSE "assign")
  /\ UNCHANGED <<plans, limits, host, owed, begun>>

(* The foreign key refuses a package deleted since; a create goes on       *)
(* without one.                                                            *)
SetUserPlan(h) ==
  /\ At(h, "assign")
  /\ IF req[h].plan = NoPlan \/ Exists(req[h].plan)
     THEN users' = [users EXCEPT ![req[h].who].plan = req[h].plan] /\ Wrote(h, "read")
     ELSE Goto(h, IF req[h].op = "create" THEN "read" ELSE "done") /\ UNCHANGED users
  /\ UNCHANGED <<plans, limits, host, owed, begun>>

(* ApplyQuota, the package first.  One that cannot be read counts as none: *)
(* the account goes without a limit, and nobody is told.                   *)
ReadLimit(h) ==
  /\ At(h, "read")
  /\ \/ req' = [req EXCEPT ![h].limit = SizeOf(users[req[h].who].plan), ![h].pc = "set",
                           ![h].overtaken = FALSE]
     \/ MayFail /\ req' = [req EXCEPT ![h].limit = 0, ![h].pc = "set", ![h].overtaken = TRUE]
  /\ UNCHANGED <<tables, host, owed, begun>>

(* quota.set: a kernel that does not enforce takes no limit, and says so.  *)
SetQuota(h) ==
  /\ At(h, "set")
  /\ LET u == req[h].who IN
     /\ \/ /\ enforced
           /\ quota' = [quota EXCEPT ![u] = req[h].limit]
           /\ owed' = IF req[h].overtaken THEN owed \cup {u} ELSE owed \ {u}
        \/ /\ ~ enforced \/ MayFail
           /\ owed' = owed \cup {u} /\ UNCHANGED quota
     /\ Goto(h, IF req[h].op = "reapply" THEN "next" ELSE "done")
  /\ UNCHANGED <<tables, enforced, begun>>

-----------------------------------------------------------------------------
(* Packages. *)
CheckMayCreate(h) ==
  /\ At(h, "may")
  /\ Goto(h, IF req[h].by = Server \/ limits[req[h].by].sells THEN "add" ELSE "done")
  /\ UNCHANGED <<tables, host, owed, begun>>

CreatePlan(h) ==
  /\ At(h, "add")
  /\ IF plans[req[h].plan] = NoPlan
     THEN /\ plans' = [plans EXCEPT ![req[h].plan] = [size |-> req[h].size, owner |-> req[h].by]]
          /\ Wrote(h, "done")
     ELSE Goto(h, "done") /\ UNCHANGED plans
  /\ UNCHANGED <<users, limits, host, owed, begun>>

(* (slip) Accounts are seen to only when the package shrinks. *)
UpdatePlanSlip(h) ==
  /\ At(h, "write")
  /\ LET p == req[h].plan IN
     /\ plans' = IF Exists(p) THEN [plans EXCEPT ![p].size = req[h].size] ELSE plans
     /\ owed' = IF req[h].overtaken THEN owed \cup OnPlan(p) ELSE owed
     /\ Wrote(h, IF req[h].size < req[h].before THEN "list" ELSE "done")
  /\ UNCHANGED <<users, limits, host, begun>>

(* Whether the size changes is told from the row read before. *)
UpdatePlan(h) ==
  /\ At(h, "write")
  /\ LET p == req[h].plan IN
     /\ plans' = IF Exists(p) THEN [plans EXCEPT ![p].size = req[h].size] ELSE plans
     /\ owed' = IF req[h].overtaken THEN owed \cup OnPlan(p) ELSE owed
     /\ Wrote(h, IF req[h].size # req[h].before THEN "list" ELSE "done")
  /\ UNCHANGED <<users, limits, host, begun>>

(* reapplyQuotas: the accounts on the package now, and a job for them. *)
ReapplyQuotas(h) ==
  /\ At(h, "list")
  /\ \E j \in Jobs :
       /\ Resting(j)
       /\ req' = [req EXCEPT ![h] = Then(h, "done"),
                             ![j] = [NoRequest EXCEPT !.op = "reapply", !.pc = "next",
                                                      !.todo = OnPlan(req[h].plan)]]
  /\ UNCHANGED <<tables, host, owed, begun>>

NextAccount(h) ==
  /\ At(h, "next")
  /\ IF req[h].todo = {} THEN Goto(h, "done")
     ELSE \E u \in req[h].todo :
            req' = [req EXCEPT ![h].who = u, ![h].todo = @ \ {u}, ![h].pc = "read"]
  /\ UNCHANGED <<tables, host, owed, begun>>

(* DeletePlan: its accounts are left without one; their limits are not     *)
(* seen to.                                                                *)
DeletePlan(h) ==
  /\ At(h, "drop")
  /\ LET p == req[h].plan IN
     IF Exists(p)
     THEN /\ plans' = [plans EXCEPT ![p] = Gone]
          /\ users' = [u \in Customers |-> IF users[u].plan = p
                                           THEN [users[u] EXCEPT !.plan = NoPlan] ELSE users[u]]
          /\ owed' = owed \cup OnPlan(p)
     ELSE UNCHANGED <<plans, users, owed>>
  /\ Wrote(h, "done")
  /\ UNCHANGED <<limits, host, begun>>

(* Resellers. *)
SetLimits(h) ==
  /\ At(h, "limits")
  /\ \E l \in Limits : limits' = [limits EXCEPT ![req[h].to] = l]
  /\ Wrote(h, "done")
  /\ UNCHANGED <<plans, users, host, owed, begun>>

AssignParent(h) ==
  /\ At(h, "parent")
  /\ users' = [users EXCEPT ![req[h].who].parent = req[h].to]
  /\ Wrote(h, "done")
  /\ UNCHANGED <<plans, limits, host, owed, begun>>

-----------------------------------------------------------------------------
(* The operator reboots into quota enforcement. *)
Reboot ==
  /\ ~ enforced
  /\ enforced' = TRUE
  /\ UNCHANGED <<tables, quota, owed, req, begun>>

(* The client goes away, or the half hour of a job is over: no statement   *)
(* or call after that, and the limits still to be set stay as they are.    *)
Unfinished(h) ==
  (IF At(h, "read") \/ At(h, "set") THEN {req[h].who} ELSE {})
    \cup (IF At(h, "list") THEN OnPlan(req[h].plan) ELSE req[h].todo)

Cancel(h) ==
  /\ MayFail
  /\ ~ Resting(h)
  /\ owed' = owed \cup Unfinished(h)
  /\ Goto(h, "done")
  /\ UNCHANGED <<tables, host, begun>>

Handle(h) ==
  \/ ReadBefore(h) \/ LoadPlan(h) \/ Allow(h) \/ CreateUser(h) \/ SetUserPlan(h)
  \/ CheckMayCreate(h) \/ CreatePlan(h) \/ UpdatePlan(h) \/ ReapplyQuotas(h)
  \/ DeletePlan(h) \/ SetLimits(h) \/ AssignParent(h)

Next ==
  \/ \E h \in Handlers : BeginAccount(h) \/ BeginPackage(h) \/ BeginReseller(h) \/ Handle(h)
  \/ \E j \in Jobs : NextAccount(j)
  \/ \E h \in Actors : ReadLimit(h) \/ SetQuota(h) \/ Cancel(h)
  \/ Reboot

Spec == Init /\ [][Next]_vars
-----------------------------------------------------------------------------
(* At rest, the filesystem holds every account to its package, whatever    *)
(* was assigned, resized and moved meanwhile, save the accounts whose last *)
(* limit was refused or abandoned, was overtaken by another change, or was *)
(* set without the package being read, or whose package was deleted.       *)
QuotaFollowsPackage ==
  (\A h \in Actors : Resting(h)) =>
    \A u \in Customers \ owed : users[u].made => quota[u] = SizeOf(users[u].plan)

(* A reseller's own create or assignment that was not overtaken never      *)
(* takes them past their allowance: neither one account too many, nor more *)
(* space promised, unless it promises less than before.  Only these two    *)
(* are held to it: enlarging a package in use passes the allowance, which  *)
(* handlePlanUpdate does not look at (plan_handlers.go:145).               *)
GrantsStayWithin ==
  [][\A h \in Handlers, r \in Resellers :
       users' # users /\ req[h].by = r /\ ~ req[h].overtaken /\ req'[h].pc # req[h].pc =>
         /\ At(h, "insert") /\ limits[r].accounts # 0 =>
              Cardinality(CustomersOf(r)') <= limits[r].accounts
         /\ At(h, "assign") =>
              \/ limits[r].oversell \/ limits[r].disk = 0
              \/ Allocated(r)' <= limits[r].disk
              \/ Allocated(r)' <= Allocated(r)]_vars

(* What every state keeps: its types, and quotas that follow the packages. *)
PackagesInv == TypeOK /\ QuotaFollowsPackage
=============================================================================
