----------------------------- MODULE Webserver -----------------------------
(***************************************************************************)
(* How the agent changes what the host serves: webserver.apply,            *)
(* webserver.switch and php.set_provider (internal/agent/actions/sites.go, *)
(* webserver.go, phpprovider.go), the two-file transaction beneath them    *)
(* (internal/webserver/apache/apply.go), the PHP pools (internal/phpfpm)   *)
(* and what the agent puts right when it starts (cmd/opanel-agent).        *)
(*                                                                         *)
(* The panel sends the whole estate each time.  A page is what an estate   *)
(* renders to under one provider of PHP; the panel's main file and its     *)
(* directory of vhosts are written one after the other, so the disk may    *)
(* hold two halves of different pages.  Apache and LiteSpeed read the same *)
(* files, and share their snapshot.  A server is what it has loaded, or    *)
(* Stopped; only one can hold the ports.                                   *)
(*                                                                         *)
(* A definition marked (slip) is a plausible mistake in the one it         *)
(* precedes and is used nowhere.                                           *)
(***************************************************************************)
EXTENDS Naturals, FiniteSets

CONSTANTS Estates, Versions, Providers, Backends,
          Broken,      \* estates httpd -t rejects, say for a lost certificate
          Needs,       \* the versions of PHP whose pools an estate needs
          Offers,      \* the versions each provider has installed here
          Handled,     \* the versions LiteSpeed has an interpreter for
          LiteSpeed,   \* the backend that is particular about it
          FirstEstate, FirstPHP, FirstBackend,
          Stopped, Nothing,
          Handlers,    \* actions the agent may be running at the same time
          Ops,         \* the operations offered
          MaxRequests, MaxFaults, MaxCrashes  \* bounds

AllOps == {"apply", "switch", "migrate"}

Page == [estate: Estates, php: Providers]
Half == Page \cup {Nothing}
Files == [main: Half, vhosts: Half]
Whole(p) == [main |-> p, vhosts |-> p]
Empty == Whole(Nothing)
Pools == Providers \X Versions

ASSUME EstatesAssumption ==
  /\ Broken \subseteq Estates /\ Handled \subseteq Versions
  /\ Needs \in [Estates -> SUBSET Versions] /\ Offers \in [Providers -> SUBSET Versions]
ASSUME NothingAssumption == Stopped \notin Files /\ Nothing \notin Page
ASSUME FirstAssumption ==
  /\ FirstEstate \in Estates \ Broken /\ FirstPHP \in Providers /\ FirstBackend \in Backends
  /\ Needs[FirstEstate] \subseteq Offers[FirstPHP]
ASSUME BoundAssumption ==
  Ops \subseteq AllOps /\ MaxRequests \in Nat /\ MaxFaults \in Nat /\ MaxCrashes \in Nat

VARIABLES disk,       \* opanel.conf and the vhosts directory
          backup,     \* the snapshot of them, one for all
          running,    \* what each server has loaded
          enabled,    \* servers systemd starts at boot
          active,     \* the backend on record
          php,        \* the provider on record
          pools,      \* sockets with an interpreter behind them
          req,        \* what each handler is doing
          torn,       \* a change of disk was interrupted since one was accepted
          adrift,     \* a handover was begun and not ended
          unmended,   \* and the last start of the agent could not put it right
          unsettled,  \* pools in use were changed and their page not yet accepted
          begun, faults, crashes

files == <<disk, backup>>
servers == <<running, enabled>>
records == <<active, php>>
flags == <<torn, adrift, unmended, unsettled>>
counts == <<begun, faults, crashes>>
vars == <<files, servers, records, pools, req, flags, counts>>

Steps == {"idle", "pools", "stop", "ports", "fallback", "clear", "copy", "main",
          "vhosts", "test", "reload", "undo", "putback", "again", "enable",
          "record", "prune", "ok", "refused"}

Request == [op: AllOps \cup {"none"}, pc: Steps, page: Page,
            on: Backends, prev: Backends, was: Providers, mend: BOOLEAN]

TypeOK ==
  /\ disk \in Files /\ backup \in Files
  /\ running \in [Backends -> Files \cup {Stopped}]
  /\ Cardinality({b \in Backends : running[b] # Stopped}) <= 1
  /\ enabled \subseteq Backends /\ active \in Backends /\ php \in Providers
  /\ pools \subseteq Pools
  /\ req \in [Handlers -> Request]
  /\ {torn, adrift, unmended, unsettled} \subseteq BOOLEAN
  /\ begun \in 0 .. MaxRequests /\ faults \in 0 .. MaxFaults /\ crashes \in 0 .. MaxCrashes

FirstPage == [estate |-> FirstEstate, php |-> FirstPHP]

NoRequest == [op |-> "none", pc |-> "idle", page |-> FirstPage, on |-> FirstBackend,
              prev |-> FirstBackend, was |-> FirstPHP, mend |-> FALSE]

(* resolve gives each site the socket of its version under the provider;   *)
(* PoolsFor asks for a pool behind each.                                   *)
Sockets(p) == IF p = Nothing THEN {} ELSE {<<p.php, v>> : v \in Needs[p.estate]}
PoolsOf(w) == {s \in Pools : s[1] = w}

Init ==
  /\ disk = Whole(FirstPage) /\ backup = Empty
  /\ running = [b \in Backends |-> IF b = FirstBackend THEN disk ELSE Stopped]
  /\ enabled = {FirstBackend} /\ active = FirstBackend /\ php = FirstPHP
  /\ pools = Sockets(FirstPage)
  /\ req = [h \in Handlers |-> NoRequest]
  /\ torn = FALSE /\ adrift = FALSE /\ unmended = FALSE /\ unsettled = FALSE
  /\ begun = 0 /\ faults = 0 /\ crashes = 0

-----------------------------------------------------------------------------
At(h, pc) == req[h].pc = pc
Resting(h) == req[h].pc \in {"idle", "ok", "refused"}
Goto(h, pc) == req' = [req EXCEPT ![h].pc = pc]

Fault == faults < MaxFaults /\ faults' = faults + 1 /\ UNCHANGED <<begun, crashes>>
NoFault == UNCHANGED counts

(* What httpd -t says of the files, and what a server says that is given   *)
(* them to start with or to reload.                                        *)
Accepted(f) ==
  /\ f.main # Nothing /\ f.main.estate \notin Broken
  /\ f.vhosts # Nothing => f.vhosts.estate \notin Broken

Up(b) == running[b] # Stopped
CanStart(b) == Accepted(disk) /\ \A o \in Backends \ {b} : ~Up(o)

(* One step of a handover is made only between two servers.                *)
HandsOver(h) == req[h].op = "switch" /\ req[h].prev # req[h].on

-----------------------------------------------------------------------------
(* canServePHP                                                             *)
CanServe(b, p) == b = LiteSpeed => Needs[p.estate] \subseteq Handled

Take(h, op, b, p) ==
  /\ op \in Ops /\ Resting(h) /\ begun < MaxRequests /\ begun' = begun + 1
  /\ CanServe(b, p)
  /\ req' = [req EXCEPT ![h] = [op |-> op, pc |-> "pools", page |-> p, on |-> b,
                                prev |-> active, was |-> php, mend |-> FALSE]]
  /\ UNCHANGED <<files, servers, records, pools, flags, faults, crashes>>

BeginApply(h) == \E e \in Estates : Take(h, "apply", active, [estate |-> e, php |-> php])

BeginSwitch(h) ==
  \E e \in Estates, b \in Backends : Take(h, "switch", b, [estate |-> e, php |-> php])

BeginMigrate(h) ==
  \E e \in Estates, w \in Providers :
    Needs[e] \subseteq Offers[w] /\ Take(h, "migrate", active, [estate |-> e, php |-> w])

(* Where phpfpm.Apply has done its work in part: files are synced, and     *)
(* then the services restarted, so any socket of that provider may be gone.*)
Toward(w, wanted) == {q \in SUBSET (pools \cup wanted) : pools \ PoolsOf(w) \subseteq q}

(* (slip) The provider being left loses its pools along with the move.     *)
SyncPoolsSlip(w, wanted) == wanted
SyncPools(w, wanted) == (pools \ PoolsOf(w)) \cup wanted

(* Served from now, or as soon as a server is started.                     *)
InUse(w) == \E s \in PoolsOf(w) :
              \/ s \in Sockets(disk.vhosts)
              \/ \E b \in Backends : Up(b) /\ s \in Sockets(running[b].vhosts)

(* phpfpm.Apply: every version of one provider, one after the other.       *)
ApplyPools(h) ==
  LET p == req[h].page IN
  /\ At(h, "pools")
  /\ unsettled' = (unsettled \/ InUse(p.php))
  /\ \/ /\ Needs[p.estate] \subseteq Offers[p.php]
        /\ pools' = SyncPools(p.php, Sockets(p))
        /\ Goto(h, IF HandsOver(h) THEN "stop" ELSE "clear") /\ NoFault
     \/ /\ ~(Needs[p.estate] \subseteq Offers[p.php])
        /\ pools' \in Toward(p.php, Sockets(p)) /\ Goto(h, "refused") /\ NoFault
     \/ pools' \in Toward(p.php, Sockets(p)) /\ Goto(h, "refused") /\ Fault
  /\ UNCHANGED <<files, servers, records, torn, adrift, unmended>>

-----------------------------------------------------------------------------
(* The handover.  Disabling what was stopped may fail on its own.          *)
StopOld(h) ==
  LET old == req[h].prev IN
  /\ At(h, "stop")
  /\ \/ running' = [running EXCEPT ![old] = Stopped] /\ enabled' = enabled \ {old}
        /\ adrift' = TRUE /\ Goto(h, "ports") /\ NoFault
     \/ running' = [running EXCEPT ![old] = Stopped] /\ UNCHANGED enabled
        /\ adrift' = TRUE /\ Goto(h, "refused") /\ Fault
     \/ UNCHANGED <<servers, adrift>> /\ Goto(h, "refused") /\ Fault
  /\ UNCHANGED <<files, records, pools, torn, unsettled, unmended>>

WaitForPorts(h) ==
  /\ At(h, "ports")
  /\ \/ (\A b \in Backends : ~Up(b)) /\ Goto(h, "clear") /\ NoFault
     \/ (\E b \in Backends : Up(b)) /\ Goto(h, "fallback") /\ NoFault
     \/ Goto(h, "fallback") /\ Fault
  /\ UNCHANGED <<files, servers, records, pools, flags>>

(* systemctl enable --now, its answer ignored: a server that cannot start  *)
(* is enabled all the same.                                                *)
FallBack(h) ==
  LET old == req[h].prev
      up == Up(old) \/ CanStart(old) IN
  /\ At(h, "fallback") /\ Goto(h, "refused")
  /\ \/ /\ enabled' = enabled \cup {old} /\ NoFault
        /\ running' = IF up /\ ~Up(old) THEN [running EXCEPT ![old] = disk] ELSE running
        /\ adrift' = (adrift /\ ~up)
     \/ UNCHANGED <<servers, adrift>> /\ Fault
  /\ UNCHANGED <<files, records, pools, torn, unsettled, unmended>>

-----------------------------------------------------------------------------
(* Apply in apply.go, with its error path to whoever called it.            *)
Fails(h) == Goto(h, IF HandsOver(h) THEN "fallback" ELSE "refused")

ClearSnapshot(h) ==
  /\ At(h, "clear")
  /\ \/ backup' = Empty /\ Goto(h, "copy") /\ NoFault
     \/ UNCHANGED backup /\ Fails(h) /\ Fault
  /\ UNCHANGED <<disk, servers, records, pools, flags>>

CopySnapshot(h) ==
  /\ At(h, "copy")
  /\ \/ backup' = disk /\ Goto(h, "main") /\ NoFault
     \/ UNCHANGED backup /\ Fails(h) /\ Fault
  /\ UNCHANGED <<disk, servers, records, pools, flags>>

(* write: the main file, then the vhosts and the removal of those that are *)
(* no more.  A failure here is mended without a reload.                    *)
WriteMain(h) ==
  /\ At(h, "main")
  /\ \/ disk' = [disk EXCEPT !.main = req[h].page] /\ Goto(h, "vhosts") /\ NoFault
     \/ UNCHANGED disk /\ req' = [req EXCEPT ![h].pc = "undo", ![h].mend = TRUE] /\ Fault
  /\ UNCHANGED <<backup, servers, records, pools, flags>>

WriteVhosts(h) ==
  /\ At(h, "vhosts")
  /\ \/ disk' = [disk EXCEPT !.vhosts = req[h].page] /\ Goto(h, "test") /\ NoFault
     \/ UNCHANGED disk /\ req' = [req EXCEPT ![h].pc = "undo", ![h].mend = TRUE] /\ Fault
  /\ UNCHANGED <<backup, servers, records, pools, flags>>

TestConfig(h) ==
  /\ At(h, "test")
  /\ \/ Accepted(disk) /\ Goto(h, "reload") /\ NoFault
     \/ ~Accepted(disk) /\ Goto(h, "undo") /\ NoFault
     \/ Goto(h, "undo") /\ Fault
  /\ UNCHANGED <<files, servers, records, pools, flags>>

Loads(b) == IF Up(b) THEN Accepted(disk) ELSE CanStart(b)
Load(b) == running' = [running EXCEPT ![b] = disk] /\ UNCHANGED enabled

Reload(h) ==
  /\ At(h, "reload")
  /\ \/ /\ Loads(req[h].on) /\ Load(req[h].on)
        /\ Goto(h, CASE req[h].op = "apply"  -> "ok"
                     [] req[h].op = "switch" -> "enable"
                     [] OTHER                -> "record")
        /\ torn' = FALSE /\ unsettled' = FALSE /\ NoFault
     \/ ~Loads(req[h].on) /\ Goto(h, "undo") /\ UNCHANGED <<servers, torn, unsettled>> /\ NoFault
     \/ Goto(h, "undo") /\ UNCHANGED <<servers, torn, unsettled>> /\ Fault
  /\ UNCHANGED <<files, records, pools, adrift, unmended>>

(* restore: the main file, then the directory of vhosts.                   *)
RestoreMain(h) ==
  /\ At(h, "undo")
  /\ \/ /\ backup.main # Nothing
        /\ disk' = [disk EXCEPT !.main = backup.main] /\ Goto(h, "putback")
        /\ UNCHANGED torn /\ NoFault
     \/ backup.main = Nothing /\ UNCHANGED disk /\ torn' = TRUE /\ Fails(h) /\ NoFault
     \/ UNCHANGED disk /\ torn' = TRUE /\ Fails(h) /\ Fault
  /\ UNCHANGED <<backup, servers, records, pools, adrift, unsettled, unmended>>

(* (slip) The vhosts are left as they were written.                        *)
RestoreVhostsSlip(h) ==
  /\ At(h, "putback") /\ UNCHANGED <<disk, torn>> /\ NoFault
  /\ IF req[h].mend THEN Fails(h) ELSE Goto(h, "again")
  /\ UNCHANGED <<backup, servers, records, pools, adrift, unsettled, unmended>>
RestoreVhosts(h) ==
  /\ At(h, "putback")
  /\ \/ /\ disk' = [disk EXCEPT !.vhosts = backup.vhosts] /\ UNCHANGED torn /\ NoFault
        /\ IF req[h].mend THEN Fails(h) ELSE Goto(h, "again")
     \/ disk' \in {disk, [disk EXCEPT !.vhosts = Nothing]} /\ torn' = TRUE /\ Fails(h) /\ Fault
  /\ UNCHANGED <<backup, servers, records, pools, adrift, unsettled, unmended>>

(* rollback reloads, which starts a server that was not running.           *)
ReloadAgain(h) ==
  /\ At(h, "again") /\ Fails(h)
  /\ \/ Loads(req[h].on) /\ Load(req[h].on) /\ NoFault
     \/ ~Loads(req[h].on) /\ UNCHANGED servers /\ NoFault
     \/ UNCHANGED servers /\ Fault
  /\ UNCHANGED <<files, records, pools, flags>>

-----------------------------------------------------------------------------
(* What a switch and a migration do once their page is served.             *)
EnableTarget(h) ==
  /\ At(h, "enable") /\ UNCHANGED running
  /\ \/ enabled' = enabled \cup {req[h].on} /\ Goto(h, "record") /\ NoFault
     \/ UNCHANGED enabled /\ Goto(h, "refused") /\ Fault
  /\ UNCHANGED <<files, records, pools, flags>>

Record(h) ==
  /\ At(h, "record")
  /\ \/ /\ req[h].op = "switch" /\ active' = req[h].on /\ UNCHANGED php
        /\ adrift' = (adrift /\ ~HandsOver(h)) /\ Goto(h, "ok") /\ NoFault
     \/ /\ req[h].op = "migrate" /\ php' = req[h].page.php /\ UNCHANGED <<active, adrift>>
        /\ Goto(h, IF req[h].was = php' THEN "ok" ELSE "prune") /\ NoFault
     \/ UNCHANGED <<records, adrift>> /\ Goto(h, "refused") /\ Fault
  /\ UNCHANGED <<files, servers, pools, torn, unsettled, unmended>>

(* phpfpm.Apply for the provider that was left, with no pools at all.      *)
PrunePools(h) ==
  /\ At(h, "prune")
  /\ \/ pools' = SyncPools(req[h].was, {}) /\ Goto(h, "ok") /\ NoFault
     \/ pools' \in Toward(req[h].was, {}) /\ Goto(h, "refused") /\ Fault
  /\ UNCHANGED <<files, servers, records, flags>>

-----------------------------------------------------------------------------
Writing(h) == req[h].pc \in {"vhosts", "test", "reload", "undo", "putback"}

(* The agent starts, and with it reconcileBootState: the recorded backend  *)
(* is enabled, the others stopped and disabled.  A command that fails is   *)
(* logged and the next one made: stop are the servers that could not be    *)
(* stopped, enable those that could not be enabled or disabled.            *)

(* (slip) What is not on record is stopped but comes back at the next boot.*)
ReconcileSlip(was) ==
  \E stop, enable \in SUBSET Backends :
    /\ running' = [b \in Backends |-> IF b \in stop \cup {active} THEN was[b] ELSE Stopped]
    /\ enabled' = enabled \cup ({active} \ enable)
    /\ \/ stop \cup enable = {} /\ unmended' = FALSE /\ UNCHANGED faults
       \/ /\ stop \cup enable # {} /\ unmended' = (adrift \/ unmended)
          /\ faults < MaxFaults /\ faults' = faults + 1
Reconcile(was) ==
  \E stop, enable \in SUBSET Backends :
    /\ running' = [b \in Backends |-> IF b \in stop \cup {active} THEN was[b] ELSE Stopped]
    /\ enabled' = (enabled \cap enable) \cup ({active} \ enable)
    /\ \/ stop \cup enable = {} /\ unmended' = FALSE /\ UNCHANGED faults
       \/ /\ stop \cup enable # {} /\ unmended' = (adrift \/ unmended)
          /\ faults < MaxFaults /\ faults' = faults + 1

Restarted ==
  /\ crashes < MaxCrashes /\ crashes' = crashes + 1
  /\ req' = [h \in Handlers |-> NoRequest]
  /\ torn' = (torn \/ \E h \in Handlers : Writing(h))
  /\ adrift' = FALSE
  /\ UNCHANGED <<files, records, pools, unsettled, begun>>

AgentRestart == Reconcile(running) /\ Restarted

(* Of the servers enabled, one that can start gets the ports.              *)
Boots(was) ==
  \/ \E b \in enabled : Accepted(disk) /\ was = [o \in Backends |-> IF o = b THEN disk ELSE Stopped]
  \/ (enabled = {} \/ ~Accepted(disk)) /\ was = [o \in Backends |-> Stopped]

Reboot ==
  /\ Restarted
  /\ \E was \in [Backends -> {disk, Stopped}] : Boots(was) /\ Reconcile(was)

Step(h) ==
  \/ BeginApply(h) \/ BeginSwitch(h) \/ BeginMigrate(h) \/ ApplyPools(h)
  \/ StopOld(h) \/ WaitForPorts(h) \/ FallBack(h)
  \/ ClearSnapshot(h) \/ CopySnapshot(h) \/ WriteMain(h) \/ WriteVhosts(h)
  \/ TestConfig(h) \/ Reload(h) \/ RestoreMain(h) \/ RestoreVhosts(h) \/ ReloadAgain(h)
  \/ EnableTarget(h) \/ Record(h) \/ PrunePools(h)

Next == (\E h \in Handlers : Step(h)) \/ AgentRestart \/ Reboot

Spec == Init /\ [][Next]_vars

-----------------------------------------------------------------------------
(* While a handler is changing the files, what is on disk for the host is  *)
(* what it would put back.                                                 *)
Stored == IF \E h \in Handlers : Writing(h) THEN backup ELSE disk
Served == IF \E b \in Backends : Up(b)
          THEN running[CHOOSE b \in Backends : Up(b)] ELSE Stopped

Host == INSTANCE HostConfig
          WITH Configs <- Files, Acceptable <- {f \in Files : Accepted(f)}, Dark <- Stopped,
               stored <- Stored, served <- Served, torn <- torn

(* One Apply at a time is atomic for whoever looks at the host: accepted   *)
(* whole, or undone, even when commands fail and the rollback does not; it *)
(* is only an interrupted one that leaves the disk torn (apply.go:23).     *)
ApplyIsAtomic == Host!Spec

(* A request that was answered with success is served as asked: by the     *)
(* backend on record, whole, with a pool behind every socket it names and  *)
(* none of the provider that was left (sites.go:381, webserver.go:98,      *)
(* phpprovider.go:82).                                                     *)
SuccessIsServed ==
  \A h \in Handlers : At(h, "ok") =>
    LET r == req[h] IN
    /\ active = r.on /\ running[r.on] = Whole(r.page) /\ disk = Whole(r.page)
    /\ Sockets(r.page) \subseteq pools
    /\ r.op = "migrate" => php = r.page.php /\ (r.was # php => pools \cap PoolsOf(r.was) = {})

(* The server on record is the one that comes back at the next boot, and   *)
(* no other is running, unless a handover was left halfway and the agent   *)
(* has not been restarted since, or could not put it right when it was     *)
(* (webserver.go:98, main.go:231): it logs what fails there and goes on.   *)
RecordedServerBoots ==
  ~adrift /\ ~unmended => enabled = {active} /\ \A b \in Backends \ {active} : ~Up(b)

Listening == \A b \in Backends : Up(b) => Sockets(running[b].vhosts) \subseteq pools

(* A site is not proxied to a socket nobody listens on: pools that a       *)
(* migration brings or leaves never matter to what is served, and a        *)
(* refused migration disturbs nothing (phpprovider.go:82).                 *)
ServedPoolsListen == ~unsettled => Listening

(* The comment on switchBackend (webserver.go:96): after a refused switch  *)
(* the old server runs again.  Refuted: the rollback of the configuration  *)
(* starts the new server, and the old one cannot have the ports.           *)
RefusedSwitchFallsBack ==
  \A h \in Handlers : At(h, "refused") /\ req[h].op = "switch" => Up(active)

(* What every state keeps: its types, answers of success that are served,  *)
(* and a server on record that is the one to boot.                         *)
WebserverInv == TypeOK /\ SuccessIsServed /\ RecordedServerBoots
=============================================================================
