------------------------------ MODULE Firewall ------------------------------
(***************************************************************************)
(* The packet filter: rules and subscribed blocklists in the panel         *)
(* database (internal/security/firewall.go, internal/db/firewall.go), the  *)
(* script rendered from all of them (internal/firewall/render.go), and the *)
(* agent that loads it provisionally (internal/agent/actions/firewall.go): *)
(* a timer loads the last good script again unless somebody confirms.      *)
(*                                                                         *)
(* A script is the set of what it was rendered from; the ports that are    *)
(* always open are in every one.  A statement, a command and a file write  *)
(* are atomic each, and the timer, a reboot or another request may come in *)
(* between.  A rule is entered once; what turns one off and on again       *)
(* (SetEnabled) is called by no handler.                                   *)
(*                                                                         *)
(* A definition marked (slip) is a plausible mistake in the one it         *)
(* precedes and is used nowhere.                                           *)
(***************************************************************************)
EXTENDS Naturals, FiniteSets

CONSTANTS Rules, Addresses, Sources,
          Refused,     \* rules nft turns down, say for an address with a zone
          Locking,     \* what cuts the operator off
          KeepsAlive,  \* whether the browser still has a connection open then
          MaxBlocked,  \* addresses a script may have at most
          None,        \* no file, no table, no subscription
          FirstFile,   \* the installer's script
          Handlers,    \* requests that may run at the same time
          Ops,         \* the operations offered
          MaxRequests, MaxFaults, MaxBoots,  \* bounds
          MayCancel    \* whether a client may go away mid-request

AllOps == {"add", "delete", "subscribe", "refresh", "unsubscribe", "confirm"}

Scripts == SUBSET (Rules \cup Addresses)
Feeds == {f \in SUBSET Addresses : Cardinality(f) <= MaxBlocked}

(* What the constants have to be.                                          *)
ConstantsFit ==
  /\ Rules \cap Addresses = {} /\ Refused \subseteq Rules /\ Locking \subseteq Rules \cup Addresses
  /\ (\A f \in Scripts : f # None) /\ FirstFile \in {{}, None}
  /\ Ops \subseteq AllOps /\ KeepsAlive \in BOOLEAN /\ MayCancel \in BOOLEAN
  /\ MaxBlocked \in Nat /\ MaxRequests \in Nat /\ MaxFaults \in Nat /\ MaxBoots \in Nat

VARIABLES rules,     \* the firewall_rules table
          sources,   \* the subscriptions, each with its entries
          file,      \* opanel.nft, which is loaded at boot
          tmp,       \* opanel.nft.new
          lastGood,  \* opanel-last-good.nft
          loaded,    \* the table in the kernel
          timer,     \* whether the rollback is armed
          vouched,   \* scripts confirmed, loaded as confirmed, or at boot
          excused,   \* something failed or was rolled back since the last load
          unarmed,   \* a command of the rollback itself failed
          req, begun, faults, boots

tables == <<rules, sources>>
host == <<file, tmp, lastGood, loaded, timer>>
flags == <<vouched, excused, unarmed>>
vars == <<tables, host, flags, req, begun, faults, boots>>

Resting == {"idle", "done", "failed"}
Asking  == {"insert", "find", "delete", "source", "fetch", "entries", "forget",
            "rules", "blocked", "unwind"}
Working == {"write", "check", "arm", "rename", "load", "restore", "disarm",
            "confirm", "keep"}

Request == [op: AllOps \cup {"none"}, pc: Resting \cup Asking \cup Working,
            rule: Rules \cup {None}, source: Sources \cup {None}, feed: Feeds,
            script: Scripts, live: BOOLEAN]

NoRequest == [op |-> "none", pc |-> "idle", rule |-> None, source |-> None,
              feed |-> {}, script |-> {}, live |-> TRUE]

TypeOK ==
  /\ rules \subseteq Rules
  /\ sources \in [Sources -> {None} \cup Feeds]
  /\ {file, tmp, lastGood, loaded} \subseteq {None} \cup Scripts
  /\ timer \in BOOLEAN
  /\ vouched \subseteq Scripts
  /\ excused \in BOOLEAN /\ unarmed \in BOOLEAN
  /\ req \in [Handlers -> Request]
  /\ begun \in 0 .. MaxRequests /\ faults \in 0 .. MaxFaults /\ boots \in 0 .. MaxBoots

Known(f) == {f} \ {None}

(* stepFirewall of the installer, unless it was told to leave nftables.    *)
Init ==
  /\ rules = {} /\ sources = [s \in Sources |-> None]
  /\ file = FirstFile /\ loaded = FirstFile /\ tmp = None /\ lastGood = None
  /\ timer = FALSE
  /\ vouched = Known(FirstFile) /\ excused = (FirstFile = None) /\ unarmed = FALSE
  /\ req = [h \in Handlers |-> NoRequest]
  /\ begun = 0 /\ faults = 0 /\ boots = 0

-----------------------------------------------------------------------------
At(h, pc) == req[h].pc = pc
Running(h, pc) == At(h, pc) /\ req[h].live
Goto(h, pc) == req' = [req EXCEPT ![h].pc = pc]

Fault == faults < MaxFaults /\ faults' = faults + 1 /\ UNCHANGED <<begun, boots>>
NoFault == UNCHANGED <<begun, faults, boots>>

Blocked == UNION (({sources[s] : s \in Sources}) \ {None})
Rendered == rules \cup Blocked

Accepted(f) == f # None /\ f \cap Refused = {}
Locks(f) == f # None /\ f \cap Locking # {}

Confirmed(h) == req[h].op \in {"subscribe", "refresh", "unsubscribe"}

(* Who is cut off sends nothing, except over a connection that is open:    *)
(* the script accepts established ones before anything else.               *)
Begin(h, r) ==
  /\ req[h].pc \in Resting
  /\ r.op \in Ops
  /\ r.op # "refresh" => ~ Locks(loaded) \/ KeepsAlive
  /\ begun < MaxRequests
  /\ begun' = begun + 1
  /\ req' = [req EXCEPT ![h] = r]
  /\ UNCHANGED <<tables, host, flags, faults, boots>>

BeginRule(h) ==
  \E r \in Rules :
    \/ r \notin rules /\ Begin(h, [NoRequest EXCEPT !.op = "add", !.pc = "insert", !.rule = r])
    \/ Begin(h, [NoRequest EXCEPT !.op = "delete", !.pc = "find", !.rule = r])

(* A source is fetched when it is added, when asked and by the hourly loop.*)
BeginSource(h) ==
  \E s \in Sources :
    \/ Begin(h, [NoRequest EXCEPT !.op = "subscribe", !.pc = "source", !.source = s])
    \/ Begin(h, [NoRequest EXCEPT !.op = "refresh", !.pc = "fetch", !.source = s])
    \/ Begin(h, [NoRequest EXCEPT !.op = "unsubscribe", !.pc = "forget", !.source = s])

BeginConfirm(h) == Begin(h, [NoRequest EXCEPT !.op = "confirm", !.pc = "confirm"])

-----------------------------------------------------------------------------
(* In the panel. *)

CreateRule(h) ==
  /\ Running(h, "insert") /\ NoFault
  /\ rules' = rules \cup {req[h].rule} /\ Goto(h, "rules")
  /\ UNCHANGED <<sources, host, flags>>

FindRule(h) ==
  /\ Running(h, "find") /\ NoFault
  /\ Goto(h, IF req[h].rule \in rules THEN "delete" ELSE "failed")
  /\ UNCHANGED <<tables, host, flags>>

DeleteRule(h) ==
  /\ Running(h, "delete") /\ NoFault
  /\ rules' = rules \ {req[h].rule} /\ Goto(h, "rules")
  /\ UNCHANGED <<sources, host, flags>>

CreateSource(h) ==
  /\ Running(h, "source") /\ NoFault
  /\ IF sources[req[h].source] = None
     THEN sources' = [sources EXCEPT ![req[h].source] = {}] /\ Goto(h, "fetch")
     ELSE UNCHANGED sources /\ Goto(h, "failed")
  /\ UNCHANGED <<rules, host, flags>>

(* firewall.fetch: what the list has by now, cut at the maximum, or        *)
(* nothing, and then the entries stay as they were.                        *)
Fetch(h) ==
  /\ Running(h, "fetch") /\ NoFault
  /\ \/ /\ sources[req[h].source] # None
        /\ \E f \in Feeds : req' = [req EXCEPT ![h].feed = f, ![h].pc = "entries"]
     \/ Goto(h, "failed")
  /\ UNCHANGED <<tables, host, flags>>

(* The entries refer to their source: one that was removed takes none.     *)
ReplaceEntries(h) ==
  /\ Running(h, "entries") /\ NoFault
  /\ IF sources[req[h].source] # None
     THEN sources' = [sources EXCEPT ![req[h].source] = req[h].feed] /\ Goto(h, "rules")
     ELSE UNCHANGED sources /\ Goto(h, IF req[h].feed = {} THEN "rules" ELSE "failed")
  /\ UNCHANGED <<rules, host, flags>>

DeleteSource(h) ==
  /\ Running(h, "forget") /\ NoFault
  /\ sources' = [sources EXCEPT ![req[h].source] = None] /\ Goto(h, "rules")
  /\ UNCHANGED <<rules, host, flags>>

(* Apply reads the rules, then the entries, and renders. *)
ReadRules(h) ==
  /\ Running(h, "rules") /\ NoFault
  /\ req' = [req EXCEPT ![h].script = rules, ![h].pc = "blocked"]
  /\ UNCHANGED <<tables, host, flags>>

(* (slip) A rule the kernel refused stays in the table. *)
AfterFailureSlip(r) == IF r.op = "unsubscribe" THEN "done" ELSE "failed"

(* What a request does about an Apply that failed, if anybody is waiting.  *)
AfterFailure(r) ==
  CASE r.live /\ r.op = "add"         -> "unwind"
    [] r.live /\ r.op = "unsubscribe" -> "done"
    [] OTHER                          -> "failed"

ApplyFails(h) ==
  /\ Goto(h, AfterFailure(req[h]))
  /\ excused' = (excused \/ AfterFailure(req[h]) # "unwind")

(* (slip) The entries are not looked at. *)
RenderSlip(h) ==
  /\ Running(h, "blocked") /\ NoFault
  /\ Goto(h, "write")
  /\ UNCHANGED <<tables, host, flags>>

Render(h) ==
  /\ Running(h, "blocked") /\ NoFault
  /\ IF Cardinality(Blocked) > MaxBlocked
     THEN ApplyFails(h)
     ELSE /\ req' = [req EXCEPT ![h].script = req[h].script \cup Blocked, ![h].pc = "write"]
          /\ UNCHANGED excused
  /\ UNCHANGED <<tables, host, vouched, unarmed>>

Unwind(h) ==
  /\ Running(h, "unwind") /\ NoFault
  /\ rules' = rules \ {req[h].rule} /\ Goto(h, "failed")
  /\ UNCHANGED <<sources, host, flags>>

Cancel(h) ==
  /\ MayCancel /\ req[h].pc \notin Resting /\ req[h].live /\ NoFault
  /\ req' = [req EXCEPT ![h].live = FALSE]
  /\ UNCHANGED <<tables, host, flags>>

(* The next statement or call of a cancelled request is refused, the one   *)
(* that would undo an earlier step included; the agent finishes its own.   *)
Interrupted(h) ==
  /\ req[h].pc \in Asking /\ ~ req[h].live /\ NoFault
  /\ excused' = TRUE /\ Goto(h, "failed")
  /\ UNCHANGED <<tables, host, vouched, unarmed>>

-----------------------------------------------------------------------------
(* In the agent: firewall.apply. *)

(* What was there first is kept to go back to.  Whether that was written   *)
(* is not looked at; a write that fails leaves nothing to go back to.      *)
WriteTmp(h) ==
  /\ At(h, "write")
  /\ \/ lastGood' = (IF lastGood = None THEN file ELSE lastGood) /\ UNCHANGED unarmed /\ NoFault
     \/ lastGood = None /\ UNCHANGED lastGood /\ unarmed' = TRUE /\ Fault
  /\ tmp' = req[h].script /\ Goto(h, "check")
  /\ UNCHANGED <<tables, file, loaded, timer, vouched, excused>>

(* nft --check *)
Check(h) ==
  /\ At(h, "check")
  /\ \/ /\ Accepted(tmp) /\ NoFault
        /\ Goto(h, IF Confirmed(h) THEN "rename" ELSE "arm")
        /\ UNCHANGED <<tmp, excused>>
     \/ ~ Accepted(tmp) /\ NoFault /\ tmp' = None /\ ApplyFails(h)
     \/ Fault /\ tmp' = None /\ ApplyFails(h)
  /\ UNCHANGED <<tables, file, lastGood, loaded, timer, vouched, unarmed>>

(* Whether systemd-run succeeds is not looked at. *)
ArmRollback(h) ==
  /\ At(h, "arm") /\ Goto(h, "rename")
  /\ \/ timer' = TRUE /\ NoFault /\ UNCHANGED unarmed
     \/ timer' = FALSE /\ unarmed' = TRUE /\ Fault
  /\ UNCHANGED <<tables, file, tmp, lastGood, loaded, vouched, excused>>

(* A rename that fails leaves the timer running. *)
Rename(h) ==
  /\ At(h, "rename")
  /\ \/ /\ tmp # None /\ NoFault
        /\ file' = tmp /\ tmp' = None /\ Goto(h, "load") /\ UNCHANGED excused
     \/ /\ IF tmp = None THEN NoFault ELSE Fault
        /\ tmp' = None /\ UNCHANGED file /\ ApplyFails(h)
  /\ UNCHANGED <<tables, lastGood, loaded, timer, vouched, unarmed>>

(* nft --file.  What is loaded as confirmed is good from then on, and      *)
(* written down as such, if that succeeds.  When the action's time is      *)
(* over, nothing that comes after is done either.                          *)
Load(h) ==
  /\ At(h, "load")
  /\ \/ /\ Accepted(file)
        /\ loaded' = file /\ excused' = FALSE /\ Goto(h, "done")
        /\ vouched' = (IF Confirmed(h) THEN vouched \cup {req[h].script} ELSE vouched)
        /\ \/ lastGood' = (IF Confirmed(h) THEN req[h].script ELSE lastGood) /\ NoFault
           \/ Confirmed(h) /\ UNCHANGED lastGood /\ Fault
     \/ /\ IF Accepted(file) THEN Fault ELSE NoFault
        /\ Goto(h, "restore") /\ UNCHANGED <<loaded, excused, lastGood, vouched>>
     \/ /\ Accepted(file) /\ Fault
        /\ loaded' \in {loaded, file} /\ excused' = TRUE /\ Goto(h, AfterFailure(req[h]))
        /\ vouched' = (IF Confirmed(h) THEN vouched \cup {req[h].script} ELSE vouched)
        /\ UNCHANGED lastGood
  /\ UNCHANGED <<tables, file, tmp, timer, unarmed>>

RestoreLastGood(h) ==
  /\ At(h, "restore") /\ Goto(h, "disarm")
  /\ \/ loaded' = (IF lastGood = None THEN loaded ELSE lastGood) /\ NoFault /\ UNCHANGED unarmed
     \/ UNCHANGED loaded /\ unarmed' = TRUE /\ Fault
  /\ UNCHANGED <<tables, file, tmp, lastGood, timer, vouched, excused>>

CancelRollback(h) ==
  /\ At(h, "disarm")
  /\ \/ timer' = FALSE /\ NoFault
     \/ UNCHANGED timer /\ Fault
  /\ excused' = TRUE /\ Goto(h, AfterFailure(req[h]))
  /\ UNCHANGED <<tables, file, tmp, lastGood, loaded, vouched, unarmed>>

(* firewall.confirm: the timer stops, and the file is kept, though what    *)
(* the operator found working is what is loaded.                           *)
Confirm(h) ==
  /\ At(h, "confirm") /\ NoFault
  /\ timer' = FALSE /\ Goto(h, "keep")
  /\ UNCHANGED <<tables, file, tmp, lastGood, loaded, flags>>

KeepFile(h) ==
  /\ At(h, "keep") /\ Goto(h, "done")
  /\ vouched' = vouched \cup Known(file) \cup Known(loaded)
  /\ \/ lastGood' = (IF file = None THEN lastGood ELSE file) /\ NoFault
     \/ UNCHANGED lastGood /\ Fault
  /\ UNCHANGED <<tables, file, tmp, loaded, timer, excused, unarmed>>

-----------------------------------------------------------------------------
(* (slip) The timer stops by itself and loads nothing. *)
RollBackSlip ==
  /\ timer /\ timer' = FALSE /\ NoFault
  /\ UNCHANGED <<tables, file, tmp, lastGood, loaded, flags, req>>

(* Two minutes after the rollback was armed; the action that armed it has  *)
(* two minutes in all, and is over before.                                 *)
RollBack ==
  /\ timer /\ timer' = FALSE
  /\ \A h \in Handlers : req[h].pc \in {"rename", "load", "restore", "disarm"} => Confirmed(h)
  /\ \/ /\ NoFault /\ UNCHANGED unarmed
        /\ loaded' = (IF lastGood = None THEN loaded ELSE lastGood)
        /\ excused' = (excused \/ loaded' # loaded)
     \/ Fault /\ unarmed' = TRUE /\ UNCHANGED <<loaded, excused>>
  /\ UNCHANGED <<tables, file, tmp, lastGood, vouched, req>>

(* nftables.service loads the file; the timer was transient. *)
Reboot ==
  /\ boots < MaxBoots /\ boots' = boots + 1 /\ UNCHANGED <<begun, faults>>
  /\ loaded' = (IF Accepted(file) THEN file ELSE None)
  /\ timer' = FALSE
  /\ vouched' = vouched \cup Known(loaded')
  /\ excused' = (excused \/ loaded' # loaded \/ \E h \in Handlers : req[h].pc \notin Resting)
  /\ req' = [h \in Handlers |-> NoRequest]
  /\ UNCHANGED <<tables, file, tmp, lastGood, unarmed>>

Handle(h) ==
  \/ CreateRule(h) \/ FindRule(h) \/ DeleteRule(h) \/ CreateSource(h) \/ Fetch(h)
  \/ ReplaceEntries(h) \/ DeleteSource(h) \/ ReadRules(h) \/ Render(h) \/ Unwind(h)
  \/ Interrupted(h)
  \/ WriteTmp(h) \/ Check(h) \/ ArmRollback(h) \/ Rename(h) \/ Load(h)
  \/ RestoreLastGood(h) \/ CancelRollback(h) \/ Confirm(h) \/ KeepFile(h)

Next ==
  \/ \E h \in Handlers : BeginRule(h) \/ BeginSource(h) \/ BeginConfirm(h) \/ Handle(h) \/ Cancel(h)
  \/ RollBack
  \/ Reboot

Spec == Init /\ [][Next]_vars

(* A request that can take its next step takes it, and the timer runs out; *)
(* nobody has to ask for anything, or confirm it.                          *)
FairSpec == Spec /\ WF_vars(RollBack) /\ \A h \in Handlers : WF_vars(Handle(h))

-----------------------------------------------------------------------------
Quiet == ~ timer /\ \A h \in Handlers : req[h].pc \in Resting

(* A script nobody vouched for does not stay: it is confirmed or gone,     *)
(* whatever fails or changes meanwhile, short of the rollback's own        *)
(* commands (firewall.go:32, 157).                                         *)
ProvisionalEnds ==
  (loaded # None /\ loaded \notin vouched) ~> (loaded = None \/ loaded \in vouched \/ unarmed)

(* What a rule that was refused leaves in the table is applied silently at *)
(* the next change (service.go:151): it leaves nothing, though the kernel  *)
(* refused it at any of four steps.                                        *)
RefusedRuleIsGone ==
  \A h \in Handlers : At(h, "failed") /\ req[h].op = "add" /\ req[h].live => req[h].rule \notin rules

(* The database is the truth and the kernel a projection of it             *)
(* (render.go:3), and the file that is loaded at boot another: at rest,    *)
(* unless something failed or was rolled back since the last load.         *)
KernelIsProjection == Quiet /\ ~ excused => loaded = Rendered /\ file = Rendered

(* Every reboot finds a script that loads, whatever was tried before it.   *)
FileLoads == file # None => Accepted(file)

(* What is loaded provisionally is loaded under a timer: whatever is in    *)
(* the kernel was vouched for, or a rollback is armed, or somebody is      *)
(* confirming it.  Without a file to go back to there is nothing to load.  *)
ProvisionalIsWatched ==
  FirstFile # None /\ ~ unarmed
    => loaded \in vouched \cup {None} \/ timer \/ \E h \in Handlers : At(h, "keep")

(* What every state keeps, whatever failed: its types, a file that loads,  *)
(* nothing of a rule that was refused, and no script left without a timer. *)
FirewallInv == TypeOK /\ FileLoads /\ RefusedRuleIsGone /\ ProvisionalIsWatched

(* What the comment at firewall.go:32 says: who is locked out by new rules *)
(* has them taken back.  Refuted: they are taken from the kernel and stay  *)
(* in the database, and the next refresh of a blocklist, which nobody has  *)
(* to ask for, loads them as confirmed, without a timer.                   *)
NobodyLockedOut == Locks(loaded) => timer
=============================================================================
