----------------------------- MODULE HostProofs -----------------------------
(***************************************************************************)
(* What the agent's webserver actions guarantee for every set of estates,  *)
(* versions, providers and backends, any command failing, the agent and    *)
(* the host restarting at any step: the types and one server at a time     *)
(* however many actions overlap; and, when they come one after the other,  *)
(* that Apply is the atomic step HostConfig describes, that an answer of   *)
(* success is served, that the server on record is the one to boot, and    *)
(* that every socket served has a pool behind it.                          *)
(*                                                                         *)
(* Shape says which operation may be at which step; Knows what an action   *)
(* that is alone may take for granted of the host at each of its steps.    *)
(*                                                                         *)
(* The second part does the same for the packet filter, an instance of     *)
(* Firewall: InStep is its Shape, and OnItsWay, NewRule, Agree and Guarded *)
(* what a request that is alone may take for granted.                      *)
(***************************************************************************)
EXTENDS MCHost, FiniteSetTheorems, TLAPS

OneHandler == \A g, h \in Handlers : g = h

Rest == {"idle", "ok", "refused"}

(* The steps from the snapshot to its last use.                            *)
Snapped == {"main", "vhosts", "test", "reload", "undo", "putback"}

Hands(q) == q.op = "switch" /\ q.prev # q.on

Shape(q) ==
  /\ q.pc # "idle" => q.op \in AllOps
  /\ q.pc \in {"stop", "ports", "fallback"} => Hands(q)
  /\ q.pc = "enable" => q.op = "switch"
  /\ q.pc = "record" => q.op \in {"switch", "migrate"}
  /\ q.pc = "prune" => q.op = "migrate"

OneUp == \A a, b \in Backends : Up(a) /\ Up(b) => a = b

Knows(q) ==
  /\ q.pc \notin Rest => q.prev = active /\ (q.op # "switch" => q.on = active)
  /\ q.pc \notin Rest \cup {"pools", "stop"} /\ Hands(q) => adrift /\ q.prev \notin enabled
  /\ q.pc \notin Rest \cup {"pools"} => Sockets(q.page) \subseteq pools
  /\ q.pc \in Snapped /\ ~ unsettled => Sockets(backup.vhosts) \subseteq pools
  /\ q.pc = "main" => backup = disk
  /\ q.pc = "vhosts" => disk.main = q.page
  /\ q.pc \in {"test", "reload"} => disk = Whole(q.page)
  /\ q.pc = "putback" => disk.main = backup.main
  /\ q.pc \in {"enable", "record", "prune", "ok"} => disk = Whole(q.page) /\ running[q.on] = disk
  /\ q.pc = "record" /\ q.op = "switch" => q.on \in enabled
  /\ q.pc = "prune" => php = q.page.php /\ q.was # php
  /\ q.pc = "ok" =>
       /\ active = q.on /\ Sockets(q.page) \subseteq pools
       /\ q.op = "migrate" => php = q.page.php /\ (q.was # php => pools \cap PoolsOf(q.was) = {})

(* A server that is not on record boots only while it runs.                *)
Booting == ~ unmended => \A b \in enabled \ {active} : Up(b)

Provided == ~ unsettled => Listening /\ Sockets(disk.vhosts) \subseteq pools

AloneInv ==
  /\ RecordedServerBoots
  /\ Booting
  /\ Provided
  /\ \A h \in Handlers : Knows(req[h])

IInv ==
  /\ TypeOK
  /\ OneUp
  /\ \A h \in Handlers : Shape(req[h])
  /\ OneHandler => AloneInv

-----------------------------------------------------------------------------
(* Pages, halves and sockets. *)

LEMMA FilesEqual ==
  ASSUME NEW f \in Files, NEW g \in Files, f.main = g.main, f.vhosts = g.vhosts
  PROVE  f = g
BY DEF Files

LEMMA WholeFacts ==
  ASSUME NEW p \in Half
  PROVE  Whole(p) \in Files /\ Whole(p).main = p /\ Whole(p).vhosts = p
BY DEF Whole, Files

LEMMA MainWritten ==
  ASSUME NEW f \in Files, NEW p \in Half
  PROVE  /\ [f EXCEPT !.main = p] \in Files
         /\ [f EXCEPT !.main = p].main = p /\ [f EXCEPT !.main = p].vhosts = f.vhosts
BY DEF Files

LEMMA VhostsWritten ==
  ASSUME NEW f \in Files, NEW p \in Half
  PROVE  /\ [f EXCEPT !.vhosts = p] \in Files
         /\ [f EXCEPT !.vhosts = p].vhosts = p /\ [f EXCEPT !.vhosts = p].main = f.main
BY DEF Files

LEMMA SocketFacts ==
  ASSUME NEW p \in Page
  PROVE  Sockets(p) \subseteq PoolsOf(p.php)
<1>1. p # Nothing /\ p.php \in Providers /\ Needs[p.estate] \subseteq Versions
  BY NothingAssumption, EstatesAssumption DEF Page
<1>2. ASSUME NEW v \in Needs[p.estate] PROVE <<p.php, v>> \in PoolsOf(p.php)
  BY <1>1, <1>2 DEF PoolsOf, Pools
<1> QED BY <1>1, <1>2 DEF Sockets

LEMMA PoolsApart ==
  ASSUME NEW v, NEW w, v # w
  PROVE  PoolsOf(v) \cap PoolsOf(w) = {} /\ PoolsOf(v) \subseteq Pools
BY DEF PoolsOf

(* phpfpm.Apply touches the pools of one provider.                         *)
LEMMA SyncFacts ==
  ASSUME NEW w, NEW wanted, wanted \subseteq PoolsOf(w), pools \subseteq Pools
  PROVE  /\ SyncPools(w, wanted) \subseteq Pools /\ pools \ PoolsOf(w) \subseteq SyncPools(w, wanted)
         /\ wanted \subseteq SyncPools(w, wanted) /\ SyncPools(w, wanted) \cap PoolsOf(w) = wanted
         /\ \A q \in Toward(w, wanted) : q \subseteq Pools /\ pools \ PoolsOf(w) \subseteq q
BY DEF SyncPools, Toward, PoolsOf

-----------------------------------------------------------------------------
(* The parts of the invariant. *)

(* What TypeOK says of everything but the requests and the ports.          *)
Typed ==
  /\ disk \in Files /\ backup \in Files
  /\ running \in [Backends -> Files \cup {Stopped}]
  /\ enabled \subseteq Backends /\ active \in Backends /\ php \in Providers
  /\ pools \subseteq Pools
  /\ torn \in BOOLEAN /\ adrift \in BOOLEAN /\ unmended \in BOOLEAN /\ unsettled \in BOOLEAN

Counted == begun \in 0 .. MaxRequests /\ faults \in 0 .. MaxFaults /\ crashes \in 0 .. MaxCrashes

LEMMA OneUpCounted == OneUp => Cardinality({b \in Backends : running[b] # Stopped}) <= 1
<1> SUFFICES ASSUME OneUp PROVE Cardinality({b \in Backends : running[b] # Stopped}) <= 1
  OBVIOUS
<1>1. PICK S : S = {b \in Backends : running[b] # Stopped}
  OBVIOUS
<1>2. CASE S = {}
  <2>1. Cardinality(S) = 0
    BY <1>2, FS_EmptySet
  <2> QED BY <1>1, <2>1
<1>3. CASE S # {}
  <2>1. PICK b : S = {b}
    BY <1>1, <1>3 DEF OneUp, Up
  <2>2. Cardinality(S) = 1
    BY <2>1, FS_Singleton
  <2> QED BY <1>1, <2>2
<1> QED BY <1>2, <1>3

LEMMA OneUpCountedNext == OneUp' => (Cardinality({b \in Backends : running[b] # Stopped}) <= 1)'
BY OneUpCounted, PTL

LEMMA StateFacts ==
  ASSUME IInv
  PROVE  /\ Typed /\ Counted /\ OneUp /\ req \in [Handlers -> Request]
         /\ disk \in Files /\ backup \in Files /\ running \in [Backends -> Files \cup {Stopped}]
         /\ enabled \subseteq Backends /\ active \in Backends /\ php \in Providers /\ pools \subseteq Pools
         /\ \A h \in Handlers : /\ req[h] \in Request /\ Shape(req[h]) /\ (OneHandler => Knows(req[h]))
                                /\ req[h].op \in AllOps \cup {"none"} /\ req[h].pc \in Steps
                                /\ req[h].page \in Page /\ req[h].page \in Half /\ req[h].page.php \in Providers
                                /\ req[h].on \in Backends /\ req[h].prev \in Backends /\ req[h].was \in Providers
         /\ OneHandler => RecordedServerBoots /\ Booting /\ Provided
<1>1. TypeOK /\ OneUp /\ (\A h \in Handlers : Shape(req[h])) /\ (OneHandler => AloneInv)
  BY DEF IInv
<1>2. Typed /\ Counted /\ req \in [Handlers -> Request]
  BY <1>1 DEF TypeOK, Typed, Counted
<1>3. ASSUME NEW h \in Handlers
      PROVE  /\ req[h].op \in AllOps \cup {"none"} /\ req[h].pc \in Steps
             /\ req[h].page \in Page /\ req[h].page.php \in Providers
             /\ req[h].on \in Backends /\ req[h].prev \in Backends /\ req[h].was \in Providers
  <2>1. req[h] \in Request
    BY <1>2
  <2>2. /\ req[h].op \in AllOps \cup {"none"} /\ req[h].pc \in Steps /\ req[h].page \in Page
        /\ req[h].on \in Backends /\ req[h].prev \in Backends /\ req[h].was \in Providers
    BY <2>1 DEF Request
  <2> QED BY <2>2 DEF Page
<1> QED BY <1>1, <1>2, <1>3 DEF AloneInv, Typed, Half

(* What a request's record becomes. *)
LEMMA GotoStep ==
  ASSUME req \in [Handlers -> Request], NEW h \in Handlers, NEW pc \in Steps, Goto(h, pc)
  PROVE  \E q \in Request : /\ req' = [req EXCEPT ![h] = q]
                            /\ q.pc = pc /\ q.op = req[h].op /\ q.page = req[h].page /\ q.on = req[h].on
                            /\ q.prev = req[h].prev /\ q.was = req[h].was /\ q.mend = req[h].mend
<1>1. PICK q : q = [req[h] EXCEPT !.pc = pc]
  OBVIOUS
<1>2. req[h] \in Request
  OBVIOUS
<1>3. /\ q \in Request /\ q.pc = pc /\ q.op = req[h].op /\ q.page = req[h].page /\ q.on = req[h].on
      /\ q.prev = req[h].prev /\ q.was = req[h].was /\ q.mend = req[h].mend
  BY <1>1, <1>2 DEF Request
<1>4. req' = [req EXCEPT ![h] = q]
  BY <1>1 DEF Goto
<1> QED BY <1>3, <1>4

LEMMA FaultFacts ==
  ASSUME Counted, Fault \/ NoFault
  PROVE  Counted'
<1>1. CASE NoFault
  BY <1>1 DEF NoFault, counts, Counted
<1>2. CASE Fault
  <2>1. faults' \in 0 .. MaxFaults
    <3>1. faults \in Nat /\ faults < MaxFaults /\ faults' = faults + 1 /\ MaxFaults \in Nat
      BY <1>2, BoundAssumption DEF Fault, Counted
    <3> QED BY ONLY <3>1
  <2> QED BY <1>2, <2>1 DEF Fault, Counted
<1> QED BY <1>1, <1>2

(* A step of one action. *)
LEMMA StepKeeps ==
  ASSUME IInv, NEW h \in Handlers, NEW q \in Request, req' = [req EXCEPT ![h] = q], Typed', Counted', OneUp',
         Shape(q), OneHandler => (RecordedServerBoots /\ Booting /\ Provided /\ Knows(q))'
  PROVE  IInv'
<1>1. req' \in [Handlers -> Request] /\ req'[h] = q /\ \A g \in Handlers : g # h => req'[g] = req[g]
  BY StateFacts
<1>2. TypeOK'
  BY <1>1, OneUpCountedNext DEF TypeOK, Typed, Counted
<1>3. \A g \in Handlers : Shape(req[g])'
  BY <1>1, StateFacts DEF Shape, Hands
<1>4. ASSUME OneHandler PROVE AloneInv'
  <2>1. \A g \in Handlers : g = h
    BY <1>4 DEF OneHandler
  <2>2. \A g \in Handlers : Knows(req[g])'
    BY <1>1, <1>4, <2>1
  <2> QED BY <1>4, <2>2 DEF AloneInv
<1> QED BY <1>2, <1>3, <1>4 DEF IInv

(* A step that leaves the host as it is.                                   *)
LEMMA SameHost ==
  ASSUME IInv, UNCHANGED <<files, servers, records, pools, flags>>
  PROVE  /\ Typed' /\ OneUp'
         /\ OneHandler => (RecordedServerBoots /\ Booting /\ Provided)'
         /\ \A q : Knows(q)' <=> Knows(q)
<1>1. UNCHANGED <<disk, backup, running, enabled, active, php, pools, torn, adrift, unmended, unsettled>>
  BY DEF files, servers, records, flags
<1>2. Typed' /\ OneUp'
  BY <1>1, StateFacts DEF Typed, OneUp, Up
<1>3. OneHandler => (RecordedServerBoots /\ Booting /\ Provided)'
  BY <1>1, StateFacts DEF RecordedServerBoots, Booting, Provided, Listening, Up
<1>4. \A q : Knows(q)' <=> Knows(q)
  BY <1>1 DEF Knows
<1> QED BY <1>2, <1>3, <1>4

LEMMA StaysKeeps ==
  ASSUME IInv, NEW h \in Handlers, NEW q \in Request, req' = [req EXCEPT ![h] = q], Counted',
         UNCHANGED <<files, servers, records, pools, flags>>, Shape(q), OneHandler => Knows(q)
  PROVE  IInv'
BY SameHost, StepKeeps

-----------------------------------------------------------------------------
(* An action begins, and the steps that change no server. *)

LEMMA TakeKeeps ==
  ASSUME IInv, NEW h \in Handlers, NEW op \in AllOps, NEW b \in Backends, NEW p \in Page,
         op # "switch" => b = active, Take(h, op, b, p)
  PROVE  IInv'
<1>1. PICK q : q = [op |-> op, pc |-> "pools", page |-> p, on |-> b,
                    prev |-> active, was |-> php, mend |-> FALSE]
  OBVIOUS
<1>2. "pools" \in Steps
  BY DEF Steps
<1>3. /\ q \in Request /\ q.op = op /\ q.pc = "pools" /\ q.page = p /\ q.on = b /\ q.prev = active /\ q.was = php
  BY <1>1, <1>2, StateFacts DEF Request
<1>4. /\ req' = [req EXCEPT ![h] = q] /\ UNCHANGED <<files, servers, records, pools, flags>>
      /\ begun < MaxRequests /\ begun' = begun + 1 /\ UNCHANGED <<faults, crashes>>
  BY <1>1 DEF Take
<1>5. Counted'
  <2>1. begun' \in 0 .. MaxRequests
    <3>1. begun \in Nat /\ begun < MaxRequests /\ begun' = begun + 1 /\ MaxRequests \in Nat
      BY <1>4, StateFacts, BoundAssumption DEF Counted
    <3> QED BY ONLY <3>1
  <2> QED BY <1>4, <2>1, StateFacts DEF Counted
<1>6. Shape(q) /\ Knows(q)
  BY <1>3 DEF Shape, Knows, Rest, Snapped
<1> QED BY <1>3, <1>4, <1>5, <1>6, StaysKeeps

LEMMA BeginKeeps ==
  ASSUME IInv, NEW h \in Handlers, BeginApply(h) \/ BeginSwitch(h) \/ BeginMigrate(h)
  PROVE  IInv'
<1>1. /\ "apply" \in AllOps /\ "switch" \in AllOps /\ "migrate" \in AllOps
      /\ \A e \in Estates, w \in Providers : [estate |-> e, php |-> w] \in Page
  BY DEF AllOps, Page
<1> QED BY <1>1, StateFacts, TakeKeeps DEF BeginApply, BeginSwitch, BeginMigrate

(* The error path: whoever called falls back, or answers.                  *)
LEMMA FailsStep ==
  ASSUME IInv, NEW h \in Handlers, Fails(h), req[h].pc \notin Rest \cup {"pools", "stop"}
  PROVE  \E q \in Request : /\ req' = [req EXCEPT ![h] = q] /\ Shape(q)
                            /\ OneHandler /\ UNCHANGED <<active, adrift, enabled, pools>> => Knows(q)'
<1>1. PICK pc : pc = IF HandsOver(h) THEN "fallback" ELSE "refused"
  OBVIOUS
<1>2. pc \in Steps /\ Goto(h, pc)
  BY <1>1 DEF Steps, Fails
<1>3. PICK q \in Request : /\ req' = [req EXCEPT ![h] = q]
                           /\ q.pc = pc /\ q.op = req[h].op /\ q.page = req[h].page /\ q.on = req[h].on
                           /\ q.prev = req[h].prev /\ q.was = req[h].was
  BY <1>2, StateFacts, GotoStep
<1>4. HandsOver(h) <=> Hands(q)
  BY <1>3 DEF HandsOver, Hands
<1>5. Shape(q)
  BY <1>1, <1>3, <1>4, StateFacts DEF Shape, Rest, Hands
<1>6. ASSUME OneHandler, UNCHANGED <<active, adrift, enabled, pools>> PROVE Knows(q)'
  <2>1. Knows(req[h])
    BY <1>6, StateFacts
  <2>2. CASE pc = "refused"
    BY <1>3, <2>2 DEF Knows, Rest, Snapped
  <2>3. CASE pc = "fallback"
    <3>1. Hands(req[h]) /\ q.op = "switch"
      BY <1>1, <1>3, <2>3 DEF HandsOver, Hands
    <3>2. q.prev = active' /\ adrift' /\ q.prev \notin enabled' /\ Sockets(q.page) \subseteq pools'
      BY <1>3, <1>6, <2>1, <3>1 DEF Knows
    <3> QED BY <1>3, <2>3, <3>1, <3>2 DEF Knows, Rest, Snapped
  <2> QED BY <1>1, <2>2, <2>3
<1> QED BY <1>3, <1>5, <1>6

LEMMA FailsKeeps ==
  ASSUME IInv, NEW h \in Handlers, Fails(h), req[h].pc \notin Rest \cup {"pools", "stop"}, Counted',
         UNCHANGED <<files, servers, records, pools, flags>>
  PROVE  IInv'
<1>1. PICK q \in Request : /\ req' = [req EXCEPT ![h] = q] /\ Shape(q)
                           /\ OneHandler /\ UNCHANGED <<active, adrift, enabled, pools>> => Knows(q)'
  BY FailsStep
<1>2. UNCHANGED <<active, adrift, enabled, pools>>
  BY DEF servers, records, flags
<1> QED BY <1>1, <1>2, SameHost, StepKeeps

LEMMA RefusedKeeps ==
  ASSUME IInv, NEW h \in Handlers, Goto(h, "refused"), req[h].op \in AllOps, Counted',
         UNCHANGED <<files, servers, records, pools, flags>>
  PROVE  IInv'
<1>1. "refused" \in Steps
  BY DEF Steps
<1>2. PICK q \in Request : req' = [req EXCEPT ![h] = q] /\ q.pc = "refused" /\ q.op = req[h].op
  BY <1>1, StateFacts, GotoStep
<1>3. Shape(q) /\ Knows(q)
  BY <1>2 DEF Shape, Knows, Rest, Snapped
<1> QED BY <1>2, <1>3, StaysKeeps

LEMMA WaitForPortsKeeps ==
  ASSUME IInv, NEW h \in Handlers, WaitForPorts(h)
  PROVE  IInv'
<1>1. At(h, "ports") /\ UNCHANGED <<files, servers, records, pools, flags>> /\ (Fault \/ NoFault)
  BY DEF WaitForPorts
<1>2. Counted'
  BY <1>1, StateFacts, FaultFacts
<1>3. Hands(req[h]) /\ req[h].op \in AllOps
  BY <1>1, StateFacts DEF Shape, At
<1>4. ASSUME NEW pc \in {"clear", "fallback"}, Goto(h, pc) PROVE IInv'
  <2>1. pc \in Steps
    BY DEF Steps
  <2>2. PICK q \in Request : /\ req' = [req EXCEPT ![h] = q]
                             /\ q.pc = pc /\ q.op = req[h].op /\ q.page = req[h].page /\ q.on = req[h].on
                             /\ q.prev = req[h].prev
    BY <1>4, <2>1, StateFacts, GotoStep
  <2>3. Shape(q)
    BY <1>3, <2>2 DEF Shape, Hands
  <2>4. OneHandler => Knows(q)
    <3>1. OneHandler => Knows(req[h])
      BY StateFacts
    <3> QED BY <1>1, <1>3, <2>2, <3>1 DEF Knows, Hands, At, Rest, Snapped
  <2> QED BY <1>1, <1>2, <2>2, <2>3, <2>4, StaysKeeps
<1> QED BY <1>4 DEF WaitForPorts

LEMMA ClearSnapshotKeeps ==
  ASSUME IInv, NEW h \in Handlers, ClearSnapshot(h)
  PROVE  IInv'
<1>1. /\ At(h, "clear") /\ UNCHANGED <<disk, servers, records, pools, flags>> /\ (Fault \/ NoFault)
  BY DEF ClearSnapshot
<1>2. Counted'
  BY <1>1, StateFacts, FaultFacts
<1>3. CASE backup' = backup /\ Fails(h)
  BY <1>1, <1>2, <1>3, FailsKeeps DEF At, Rest, files
<1>4. CASE backup' = Empty /\ Goto(h, "copy")
  <2>1. "copy" \in Steps
    BY DEF Steps
  <2>2. PICK q \in Request : /\ req' = [req EXCEPT ![h] = q]
                             /\ q.pc = "copy" /\ q.op = req[h].op /\ q.page = req[h].page /\ q.on = req[h].on
                             /\ q.prev = req[h].prev
    BY <1>4, <2>1, StateFacts, GotoStep
  <2>3. Shape(q)
    BY <1>1, <2>2, StateFacts DEF Shape, At
  <2>4. UNCHANGED <<disk, running, enabled, active, php, pools, torn, adrift, unmended, unsettled>>
    BY <1>1 DEF servers, records, flags
  <2>5. Empty \in Files
    BY WholeFacts DEF Empty, Half
  <2>6. Typed' /\ OneUp'
    BY <1>4, <2>4, <2>5, StateFacts DEF Typed, OneUp, Up
  <2>7. ASSUME OneHandler PROVE (RecordedServerBoots /\ Booting /\ Provided /\ Knows(q))'
    <3>1. Knows(req[h])
      BY <2>7, StateFacts
    <3>2. (RecordedServerBoots /\ Booting /\ Provided)'
      BY <2>4, <2>7, StateFacts DEF RecordedServerBoots, Booting, Provided, Listening, Up
    <3>3. Knows(q)'
      BY <1>1, <2>2, <2>4, <3>1 DEF Knows, Hands, At, Rest, Snapped
    <3> QED BY <3>2, <3>3
  <2> QED BY <1>2, <2>2, <2>3, <2>6, <2>7, StepKeeps
<1> QED BY <1>3, <1>4 DEF ClearSnapshot

LEMMA CopySnapshotKeeps ==
  ASSUME IInv, NEW h \in Handlers, CopySnapshot(h)
  PROVE  IInv'
<1>1. /\ At(h, "copy") /\ UNCHANGED <<disk, servers, records, pools, flags>> /\ (Fault \/ NoFault)
  BY DEF CopySnapshot
<1>2. Counted'
  BY <1>1, StateFacts, FaultFacts
<1>3. CASE backup' = backup /\ Fails(h)
  BY <1>1, <1>2, <1>3, FailsKeeps DEF At, Rest, files
<1>4. CASE backup' = disk /\ Goto(h, "main")
  <2>1. "main" \in Steps
    BY DEF Steps
  <2>2. PICK q \in Request : /\ req' = [req EXCEPT ![h] = q]
                             /\ q.pc = "main" /\ q.op = req[h].op /\ q.page = req[h].page /\ q.on = req[h].on
                             /\ q.prev = req[h].prev
    BY <1>4, <2>1, StateFacts, GotoStep
  <2>3. Shape(q)
    BY <1>1, <2>2, StateFacts DEF Shape, At
  <2>4. UNCHANGED <<disk, running, enabled, active, php, pools, torn, adrift, unmended, unsettled>>
    BY <1>1 DEF servers, records, flags
  <2>5. Typed' /\ OneUp'
    BY <1>4, <2>4, StateFacts DEF Typed, OneUp, Up
  <2>6. ASSUME OneHandler PROVE (RecordedServerBoots /\ Booting /\ Provided /\ Knows(q))'
    <3>1. Knows(req[h]) /\ Provided
      BY <2>6, StateFacts
    <3>2. (RecordedServerBoots /\ Booting /\ Provided)'
      BY <2>4, <2>6, StateFacts DEF RecordedServerBoots, Booting, Provided, Listening, Up
    <3>3. Knows(q)'
      BY <1>1, <1>4, <2>2, <2>4, <3>1 DEF Knows, Provided, Hands, At, Rest, Snapped
    <3> QED BY <3>2, <3>3
  <2> QED BY <1>2, <2>2, <2>3, <2>5, <2>6, StepKeeps
<1> QED BY <1>3, <1>4 DEF CopySnapshot

-----------------------------------------------------------------------------
(* The steps that write the files. *)

LEMMA DiskStep ==
  ASSUME IInv, NEW h \in Handlers, NEW q \in Request, req' = [req EXCEPT ![h] = q], Counted', Shape(q),
         disk' \in Files, torn' \in BOOLEAN,
         UNCHANGED <<backup, running, enabled, active, php, pools, adrift, unmended, unsettled>>,
         OneHandler => (~ unsettled => Sockets(disk'.vhosts) \subseteq pools) /\ Knows(q)'
  PROVE  IInv'
<1>1. Typed' /\ OneUp'
  BY StateFacts DEF Typed, OneUp, Up
<1>2. OneHandler => (RecordedServerBoots /\ Booting /\ Provided)'
  BY StateFacts DEF RecordedServerBoots, Booting, Provided, Listening, Up
<1> QED BY <1>1, <1>2, StepKeeps

(* write and the check before the reload: undone when they fail.           *)
LEMMA UndoKeeps ==
  ASSUME IInv, NEW h \in Handlers, NEW mend \in BOOLEAN, req[h].pc \in {"main", "vhosts", "test", "reload"},
         req' = [req EXCEPT ![h] = [[req[h] EXCEPT !.pc = "undo"] EXCEPT !.mend = mend]],
         UNCHANGED <<files, servers, records, pools, flags>>, Counted'
  PROVE  IInv'
<1>1. PICK q : q = [[req[h] EXCEPT !.pc = "undo"] EXCEPT !.mend = mend]
  OBVIOUS
<1>2. "undo" \in Steps /\ req[h] \in Request
  BY StateFacts DEF Steps
<1>3. /\ q \in Request /\ q.pc = "undo" /\ q.op = req[h].op /\ q.page = req[h].page /\ q.on = req[h].on
      /\ q.prev = req[h].prev
  BY <1>1, <1>2 DEF Request
<1>4. Shape(q)
  BY <1>3, StateFacts DEF Shape
<1>5. OneHandler => Knows(q)
  <2>1. OneHandler => Knows(req[h])
    BY StateFacts
  <2> QED BY <1>3, <2>1 DEF Knows, Hands, Rest, Snapped
<1> QED BY <1>1, <1>3, <1>4, <1>5, StaysKeeps

LEMMA MendStep ==
  ASSUME NEW h \in Handlers, req \in [Handlers -> Request], req' = [req EXCEPT ![h].pc = "undo", ![h].mend = TRUE]
  PROVE  req' = [req EXCEPT ![h] = [[req[h] EXCEPT !.pc = "undo"] EXCEPT !.mend = TRUE]]
OBVIOUS

LEMMA WriteMainKeeps ==
  ASSUME IInv, NEW h \in Handlers, WriteMain(h)
  PROVE  IInv'
<1>1. /\ At(h, "main") /\ UNCHANGED <<backup, servers, records, pools, flags>> /\ (Fault \/ NoFault)
  BY DEF WriteMain
<1>2. Counted'
  BY <1>1, StateFacts, FaultFacts
<1>3. CASE disk' = disk /\ req' = [req EXCEPT ![h].pc = "undo", ![h].mend = TRUE]
  <2>1. UNCHANGED files
    BY <1>1, <1>3 DEF files
  <2> QED BY <1>1, <1>2, <1>3, <2>1, StateFacts, MendStep, UndoKeeps DEF At
<1>4. CASE disk' = [disk EXCEPT !.main = req[h].page] /\ Goto(h, "vhosts")
  <2>1. "vhosts" \in Steps
    BY DEF Steps
  <2>2. PICK q \in Request : /\ req' = [req EXCEPT ![h] = q]
                             /\ q.pc = "vhosts" /\ q.op = req[h].op /\ q.page = req[h].page /\ q.on = req[h].on
                             /\ q.prev = req[h].prev
    BY <1>4, <2>1, StateFacts, GotoStep
  <2>3. Shape(q)
    BY <1>1, <2>2, StateFacts DEF Shape, At
  <2>4. disk' \in Files /\ disk'.main = req[h].page /\ disk'.vhosts = disk.vhosts
    BY <1>4, StateFacts, MainWritten
  <2>5. UNCHANGED <<backup, running, enabled, active, php, pools, torn, adrift, unmended, unsettled>>
    BY <1>1 DEF servers, records, flags
  <2>6. OneHandler => (~ unsettled => Sockets(disk'.vhosts) \subseteq pools) /\ Knows(q)'
    <3>1. OneHandler => Knows(req[h]) /\ Provided
      BY StateFacts
    <3>2. OneHandler => (~ unsettled => Sockets(disk'.vhosts) \subseteq pools)
      BY <2>4, <3>1 DEF Provided
    <3>3. OneHandler => Knows(q)'
      BY <1>1, <2>2, <2>4, <2>5, <3>1 DEF Knows, Hands, At, Rest, Snapped
    <3> QED BY <3>2, <3>3
  <2>7. torn' \in BOOLEAN
    BY <2>5, StateFacts DEF Typed
  <2> QED BY <1>2, <2>2, <2>3, <2>4, <2>5, <2>6, <2>7, DiskStep
<1> QED BY <1>3, <1>4 DEF WriteMain

LEMMA WriteVhostsKeeps ==
  ASSUME IInv, NEW h \in Handlers, WriteVhosts(h)
  PROVE  IInv'
<1>1. /\ At(h, "vhosts") /\ UNCHANGED <<backup, servers, records, pools, flags>> /\ (Fault \/ NoFault)
  BY DEF WriteVhosts
<1>2. Counted'
  BY <1>1, StateFacts, FaultFacts
<1>3. CASE disk' = disk /\ req' = [req EXCEPT ![h].pc = "undo", ![h].mend = TRUE]
  <2>1. UNCHANGED files
    BY <1>1, <1>3 DEF files
  <2> QED BY <1>1, <1>2, <1>3, <2>1, StateFacts, MendStep, UndoKeeps DEF At
<1>4. CASE disk' = [disk EXCEPT !.vhosts = req[h].page] /\ Goto(h, "test")
  <2>1. "test" \in Steps
    BY DEF Steps
  <2>2. PICK q \in Request : /\ req' = [req EXCEPT ![h] = q]
                             /\ q.pc = "test" /\ q.op = req[h].op /\ q.page = req[h].page /\ q.on = req[h].on
                             /\ q.prev = req[h].prev
    BY <1>4, <2>1, StateFacts, GotoStep
  <2>3. Shape(q)
    BY <1>1, <2>2, StateFacts DEF Shape, At
  <2>4. disk' \in Files /\ disk'.vhosts = req[h].page /\ disk'.main = disk.main
    BY <1>4, StateFacts, VhostsWritten
  <2>5. UNCHANGED <<backup, running, enabled, active, php, pools, torn, adrift, unmended, unsettled>>
    BY <1>1 DEF servers, records, flags
  <2>6. OneHandler => (~ unsettled => Sockets(disk'.vhosts) \subseteq pools) /\ Knows(q)'
    <3>1. OneHandler => Knows(req[h])
      BY StateFacts
    <3>2. OneHandler => Sockets(req[h].page) \subseteq pools /\ disk.main = req[h].page
      BY <1>1, <3>1 DEF Knows, At, Rest
    <3>3. Whole(req[h].page) \in Files /\ Whole(req[h].page).main = req[h].page /\ Whole(req[h].page).vhosts = req[h].page
      BY StateFacts, WholeFacts
    <3>4. OneHandler => disk' = Whole(req[h].page)
      BY <2>4, <3>2, <3>3, FilesEqual
    <3>5. OneHandler => Knows(q)'
      BY <1>1, <2>2, <2>5, <3>1, <3>4 DEF Knows, Hands, At, Rest, Snapped
    <3> QED BY <2>4, <3>2, <3>5
  <2>7. torn' \in BOOLEAN
    BY <2>5, StateFacts DEF Typed
  <2> QED BY <1>2, <2>2, <2>3, <2>4, <2>5, <2>6, <2>7, DiskStep
<1> QED BY <1>3, <1>4 DEF WriteVhosts

LEMMA GoUndoStep ==
  ASSUME NEW h \in Handlers, req \in [Handlers -> Request], Goto(h, "undo")
  PROVE  /\ req[h].mend \in BOOLEAN
         /\ req' = [req EXCEPT ![h] = [[req[h] EXCEPT !.pc = "undo"] EXCEPT !.mend = req[h].mend]]
<1>1. req[h] \in Request
  OBVIOUS
<1>2. req[h].mend \in BOOLEAN
  BY <1>1 DEF Request
<1>3. [req[h] EXCEPT !.pc = "undo"] = [[req[h] EXCEPT !.pc = "undo"] EXCEPT !.mend = req[h].mend]
  BY <1>1 DEF Request
<1>4. req' = [req EXCEPT ![h] = [req[h] EXCEPT !.pc = "undo"]]
  BY DEF Goto
<1> QED BY <1>2, <1>3, <1>4

LEMMA TestConfigKeeps ==
  ASSUME IInv, NEW h \in Handlers, TestConfig(h)
  PROVE  IInv'
<1>1. /\ At(h, "test") /\ UNCHANGED <<files, servers, records, pools, flags>> /\ (Fault \/ NoFault)
  BY DEF TestConfig
<1>2. Counted'
  BY <1>1, StateFacts, FaultFacts
<1>3. CASE Goto(h, "undo")
  BY <1>1, <1>2, <1>3, StateFacts, GoUndoStep, UndoKeeps DEF At
<1>4. CASE Goto(h, "reload")
  <2>1. "reload" \in Steps
    BY DEF Steps
  <2>2. PICK q \in Request : /\ req' = [req EXCEPT ![h] = q]
                             /\ q.pc = "reload" /\ q.op = req[h].op /\ q.page = req[h].page /\ q.on = req[h].on
                             /\ q.prev = req[h].prev
    BY <1>4, <2>1, StateFacts, GotoStep
  <2>3. Shape(q)
    BY <1>1, <2>2, StateFacts DEF Shape, At
  <2>4. OneHandler => Knows(q)
    <3>1. OneHandler => Knows(req[h])
      BY StateFacts
    <3> QED BY <1>1, <2>2, <3>1 DEF Knows, Hands, At, Rest, Snapped
  <2> QED BY <1>1, <1>2, <2>2, <2>3, <2>4, StaysKeeps
<1> QED BY <1>3, <1>4 DEF TestConfig

LEMMA RestoreMainKeeps ==
  ASSUME IInv, NEW h \in Handlers, RestoreMain(h)
  PROVE  IInv'
<1>1. /\ At(h, "undo") /\ UNCHANGED <<backup, servers, records, pools, adrift, unmended, unsettled>> /\ (Fault \/ NoFault)
  BY DEF RestoreMain
<1>2. Counted'
  BY <1>1, StateFacts, FaultFacts
<1>3. UNCHANGED <<backup, running, enabled, active, php, pools, adrift, unmended, unsettled>>
  BY <1>1 DEF servers, records
<1>4. CASE disk' = disk /\ torn' = TRUE /\ Fails(h)
  <2>1. PICK q \in Request : /\ req' = [req EXCEPT ![h] = q] /\ Shape(q)
                             /\ OneHandler /\ UNCHANGED <<active, adrift, enabled, pools>> => Knows(q)'
    BY <1>1, <1>4, FailsStep DEF At, Rest
  <2>2. OneHandler => (~ unsettled => Sockets(disk'.vhosts) \subseteq pools)
    BY <1>4, StateFacts DEF Provided
  <2> QED BY <1>2, <1>3, <1>4, <2>1, <2>2, StateFacts, DiskStep
<1>5. CASE disk' = [disk EXCEPT !.main = backup.main] /\ Goto(h, "putback") /\ torn' = torn
  <2>1. "putback" \in Steps
    BY DEF Steps
  <2>2. PICK q \in Request : /\ req' = [req EXCEPT ![h] = q]
                             /\ q.pc = "putback" /\ q.op = req[h].op /\ q.page = req[h].page /\ q.on = req[h].on
                             /\ q.prev = req[h].prev
    BY <1>5, <2>1, StateFacts, GotoStep
  <2>3. Shape(q)
    BY <1>1, <2>2, StateFacts DEF Shape, At
  <2>4. disk' \in Files /\ disk'.main = backup.main /\ disk'.vhosts = disk.vhosts
    <3>1. backup.main \in Half
      BY StateFacts DEF Files
    <3> QED BY <1>5, <3>1, StateFacts, MainWritten
  <2>5. OneHandler => (~ unsettled => Sockets(disk'.vhosts) \subseteq pools) /\ Knows(q)'
    <3>1. OneHandler => Knows(req[h]) /\ Provided
      BY StateFacts
    <3>2. OneHandler => (~ unsettled => Sockets(disk'.vhosts) \subseteq pools)
      BY <2>4, <3>1 DEF Provided
    <3>3. OneHandler => Knows(q)'
      BY <1>1, <1>3, <2>2, <2>4, <3>1 DEF Knows, Hands, At, Rest, Snapped
    <3> QED BY <3>2, <3>3
  <2>6. torn' \in BOOLEAN
    BY <1>5, StateFacts DEF Typed
  <2> QED BY <1>2, <1>3, <2>2, <2>3, <2>4, <2>5, <2>6, DiskStep
<1> QED BY <1>4, <1>5 DEF RestoreMain

LEMMA RestoreVhostsKeeps ==
  ASSUME IInv, NEW h \in Handlers, RestoreVhosts(h)
  PROVE  IInv'
<1>1. /\ At(h, "putback") /\ UNCHANGED <<backup, servers, records, pools, adrift, unmended, unsettled>> /\ (Fault \/ NoFault)
  BY DEF RestoreVhosts
<1>2. Counted'
  BY <1>1, StateFacts, FaultFacts
<1>3. UNCHANGED <<backup, running, enabled, active, php, pools, adrift, unmended, unsettled>>
  BY <1>1 DEF servers, records
<1>4. backup.vhosts \in Half /\ Nothing \in Half
  BY StateFacts DEF Files, Half
<1>5. OneHandler /\ ~ unsettled => Sockets(disk.vhosts) \subseteq pools /\ Sockets(backup.vhosts) \subseteq pools
  BY <1>1, StateFacts DEF Provided, Knows, At, Snapped
<1>6. \/ disk' = [disk EXCEPT !.vhosts = backup.vhosts] /\ torn' = torn
      \/ disk' = disk /\ torn' = TRUE
      \/ disk' = [disk EXCEPT !.vhosts = Nothing] /\ torn' = TRUE
  BY DEF RestoreVhosts
<1>7. disk' \in Files /\ disk'.vhosts \in {disk.vhosts, backup.vhosts, Nothing} /\ torn' \in BOOLEAN
  <2>1. /\ [disk EXCEPT !.vhosts = backup.vhosts] \in Files
        /\ [disk EXCEPT !.vhosts = backup.vhosts].vhosts = backup.vhosts
    BY <1>4, StateFacts, VhostsWritten
  <2>2. [disk EXCEPT !.vhosts = Nothing] \in Files /\ [disk EXCEPT !.vhosts = Nothing].vhosts = Nothing
    BY <1>4, StateFacts, VhostsWritten
  <2>3. torn \in BOOLEAN /\ disk \in Files
    BY StateFacts DEF Typed
  <2> QED BY <1>6, <2>1, <2>2, <2>3
<1>8. OneHandler => (~ unsettled => Sockets(disk'.vhosts) \subseteq pools)
  BY <1>5, <1>7 DEF Sockets
<1>9. CASE Fails(h)
  <2>1. PICK q \in Request : /\ req' = [req EXCEPT ![h] = q] /\ Shape(q)
                             /\ OneHandler /\ UNCHANGED <<active, adrift, enabled, pools>> => Knows(q)'
    BY <1>1, <1>9, FailsStep DEF At, Rest
  <2> QED BY <1>2, <1>3, <1>7, <1>8, <2>1, DiskStep
<1>10. CASE Goto(h, "again")
  <2>1. "again" \in Steps
    BY DEF Steps
  <2>2. PICK q \in Request : /\ req' = [req EXCEPT ![h] = q]
                             /\ q.pc = "again" /\ q.op = req[h].op /\ q.page = req[h].page /\ q.on = req[h].on
                             /\ q.prev = req[h].prev
    BY <1>10, <2>1, StateFacts, GotoStep
  <2>3. Shape(q)
    BY <1>1, <2>2, StateFacts DEF Shape, At
  <2>4. OneHandler => Knows(q)'
    <3>1. OneHandler => Knows(req[h])
      BY StateFacts
    <3> QED BY <1>1, <1>3, <2>2, <3>1 DEF Knows, Hands, At, Rest, Snapped
  <2> QED BY <1>2, <1>3, <1>7, <1>8, <2>2, <2>3, <2>4, DiskStep
<1> QED BY <1>9, <1>10 DEF RestoreVhosts

-----------------------------------------------------------------------------
(* The steps that change pools, servers or records. *)

(* A server that loads what is on disk is the only one up.                 *)
LEMMA LoadFacts ==
  ASSUME IInv, NEW b \in Backends, Up(b) \/ CanStart(b), running' = [running EXCEPT ![b] = disk]
  PROVE  /\ running' \in [Backends -> Files \cup {Stopped}]
         /\ running'[b] = disk /\ Up(b)' /\ OneUp'
         /\ \A o \in Backends : o # b => ~ Up(o) /\ ~ Up(o)'
<1>1. disk \in Files /\ disk # Stopped /\ running' \in [Backends -> Files \cup {Stopped}]
  BY StateFacts, NothingAssumption
<1>2. running'[b] = disk /\ \A o \in Backends : o # b => running'[o] = running[o]
  BY StateFacts
<1>3. \A o \in Backends : o # b => ~ Up(o)
  BY StateFacts DEF OneUp, CanStart
<1> QED BY <1>1, <1>2, <1>3 DEF OneUp, Up

LEMMA LoadKeepsHost ==
  ASSUME IInv, OneHandler, NEW b \in Backends, Up(b) \/ CanStart(b), running' = [running EXCEPT ![b] = disk],
         UNCHANGED <<disk, enabled, active, pools, adrift, unmended>>, adrift \/ b = active,
         ~ unsettled' => Sockets(disk.vhosts) \subseteq pools
  PROVE  (RecordedServerBoots /\ Booting /\ Provided)'
<1>1. RecordedServerBoots /\ Booting
  BY StateFacts
<1>2. /\ running'[b] = disk /\ Up(b)'
      /\ \A o \in Backends : o # b => ~ Up(o) /\ ~ Up(o)'
  BY LoadFacts
<1>3. enabled \subseteq Backends
  BY StateFacts
<1>4. Booting'
  BY <1>1, <1>2, <1>3 DEF Booting
<1>5. RecordedServerBoots'
  BY <1>1, <1>2 DEF RecordedServerBoots
<1>6. Provided'
  BY <1>2 DEF Provided, Listening
<1> QED BY <1>4, <1>5, <1>6

LEMMA ApplyPoolsKeeps ==
  ASSUME IInv, NEW h \in Handlers, ApplyPools(h)
  PROVE  IInv'
<1>1. /\ At(h, "pools") /\ UNCHANGED <<files, servers, records, torn, adrift, unmended>> /\ (Fault \/ NoFault)
      /\ unsettled' = (unsettled \/ InUse(req[h].page.php))
  BY DEF ApplyPools
<1>2. Counted'
  BY <1>1, StateFacts, FaultFacts
<1>3. UNCHANGED <<disk, backup, running, enabled, active, php, torn, adrift, unmended>>
  BY <1>1 DEF files, servers, records
<1>4. PICK p, w, wanted : p = req[h].page /\ w = p.php /\ wanted = Sockets(p)
  OBVIOUS
<1>5. p \in Page /\ wanted \subseteq PoolsOf(w) /\ req[h].op \in AllOps
  BY <1>1, <1>4, StateFacts, SocketFacts DEF Shape, At
<1>6. /\ pools' \subseteq Pools /\ pools \ PoolsOf(w) \subseteq pools'
      /\ pools' = SyncPools(w, wanted) => wanted \subseteq pools'
  BY <1>4, <1>5, StateFacts, SyncFacts DEF ApplyPools
<1>7. Typed' /\ OneUp'
  <2>1. unsettled' \in BOOLEAN
    BY <1>1, StateFacts DEF Typed, InUse
  <2> QED BY <1>3, <1>6, <2>1, StateFacts DEF Typed, OneUp, Up
<1>8. ASSUME OneHandler PROVE (RecordedServerBoots /\ Booting /\ Provided)'
  <2>1. (RecordedServerBoots /\ Booting)'
    BY <1>3, <1>8, StateFacts DEF RecordedServerBoots, Booting, Up
  <2>2. ASSUME ~ unsettled' PROVE (Listening /\ Sockets(disk.vhosts) \subseteq pools)'
    <3>1. Listening /\ Sockets(disk.vhosts) \subseteq pools /\ ~ InUse(w)
      BY <1>1, <1>4, <1>8, <2>2, StateFacts DEF Provided
    <3>2. /\ Sockets(disk.vhosts) \cap PoolsOf(w) = {}
          /\ \A b \in Backends : Up(b) => Sockets(running[b].vhosts) \cap PoolsOf(w) = {}
      BY <3>1 DEF InUse
    <3> QED BY <1>3, <1>6, <3>1, <3>2 DEF Listening, Up
  <2> QED BY <2>1, <2>2 DEF Provided
<1>9. CASE Goto(h, "refused")
  <2>1. "refused" \in Steps
    BY DEF Steps
  <2>2. PICK q \in Request : req' = [req EXCEPT ![h] = q] /\ q.pc = "refused" /\ q.op = req[h].op
    BY <1>9, <2>1, StateFacts, GotoStep
  <2>3. Shape(q) /\ Knows(q)'
    BY <1>5, <2>2 DEF Shape, Knows, Rest, Snapped
  <2> QED BY <1>2, <1>7, <1>8, <2>2, <2>3, StepKeeps
<1>10. ASSUME NEW pc, pc = (IF HandsOver(h) THEN "stop" ELSE "clear"), Goto(h, pc),
              pools' = SyncPools(w, wanted)
       PROVE  IInv'
  <2>1. pc \in Steps
    BY <1>10 DEF Steps
  <2>2. PICK q \in Request : /\ req' = [req EXCEPT ![h] = q]
                             /\ q.pc = pc /\ q.op = req[h].op /\ q.page = req[h].page /\ q.on = req[h].on
                             /\ q.prev = req[h].prev
    BY <1>10, <2>1, StateFacts, GotoStep
  <2>3. Shape(q)
    BY <1>5, <1>10, <2>2 DEF Shape, HandsOver, Hands
  <2>4. OneHandler => Knows(q)'
    <3>1. OneHandler => Knows(req[h])
      BY StateFacts
    <3>2. Sockets(q.page) \subseteq pools'
      BY <1>4, <1>6, <1>10, <2>2
    <3>3. pc = "clear" => ~ Hands(q)
      BY <1>10, <2>2 DEF HandsOver, Hands
    <3> QED BY <1>1, <1>3, <1>10, <2>2, <3>1, <3>2, <3>3 DEF Knows, At, Rest, Snapped
  <2> QED BY <1>2, <1>7, <1>8, <2>2, <2>3, <2>4, StepKeeps
<1> QED BY <1>4, <1>9, <1>10 DEF ApplyPools

LEMMA StopOldKeeps ==
  ASSUME IInv, NEW h \in Handlers, StopOld(h)
  PROVE  IInv'
<1>1. At(h, "stop") /\ UNCHANGED <<files, records, pools, torn, unsettled, unmended>> /\ (Fault \/ NoFault)
  BY DEF StopOld
<1>2. Counted'
  BY <1>1, StateFacts, FaultFacts
<1>3. UNCHANGED <<disk, backup, active, php, pools, torn, unsettled, unmended>>
  BY <1>1 DEF files, records
<1>4. PICK old : old = req[h].prev
  OBVIOUS
<1>5. old \in Backends /\ Hands(req[h]) /\ req[h].op \in AllOps /\ (OneHandler => old = active)
  BY <1>1, <1>4, StateFacts DEF Shape, Knows, At, Rest
<1>6. CASE UNCHANGED <<servers, adrift>> /\ Goto(h, "refused")
  <2>1. UNCHANGED <<files, servers, records, pools, flags>>
    BY <1>1, <1>6 DEF flags
  <2> QED BY <1>2, <1>5, <1>6, <2>1, RefusedKeeps
<1>7. ASSUME running' = [running EXCEPT ![old] = Stopped], enabled' \in {enabled, enabled \ {old}}, adrift' = TRUE,
             NEW q \in Request, req' = [req EXCEPT ![h] = q], Shape(q), OneHandler => Knows(q)'
      PROVE  IInv'
  <2>1. /\ running' \in [Backends -> Files \cup {Stopped}] /\ running'[old] = Stopped
        /\ \A b \in Backends : b # old => running'[b] = running[b]
    BY <1>5, <1>7, StateFacts
  <2>2. Typed' /\ OneUp'
    BY <1>3, <1>7, <2>1, StateFacts DEF Typed, OneUp, Up
  <2>3. ASSUME OneHandler PROVE (RecordedServerBoots /\ Booting /\ Provided)'
    <3>1. old = active /\ Booting /\ Provided /\ enabled \subseteq Backends
      BY <1>5, <2>3, StateFacts
    <3>2. Booting'
      BY <1>3, <1>7, <2>1, <3>1 DEF Booting, Up
    <3>3. RecordedServerBoots'
      BY <1>7 DEF RecordedServerBoots
    <3>4. Provided'
      BY <1>3, <2>1, <3>1 DEF Provided, Listening, Up
    <3> QED BY <3>2, <3>3, <3>4
  <2> QED BY <1>2, <1>7, <2>2, <2>3, StepKeeps
<1>8. CASE running' = [running EXCEPT ![old] = Stopped] /\ enabled' = enabled \ {old} /\ adrift' = TRUE
           /\ Goto(h, "ports")
  <2>1. "ports" \in Steps
    BY DEF Steps
  <2>2. PICK q \in Request : /\ req' = [req EXCEPT ![h] = q]
                             /\ q.pc = "ports" /\ q.op = req[h].op /\ q.page = req[h].page /\ q.on = req[h].on
                             /\ q.prev = req[h].prev
    BY <1>8, <2>1, StateFacts, GotoStep
  <2>3. Shape(q)
    BY <1>5, <2>2 DEF Shape, Hands
  <2>4. OneHandler => Knows(q)'
    <3>1. OneHandler => Knows(req[h])
      BY StateFacts
    <3> QED BY <1>1, <1>3, <1>4, <1>5, <1>8, <2>2, <3>1 DEF Knows, Hands, At, Rest, Snapped
  <2> QED BY <1>7, <1>8, <2>2, <2>3, <2>4
<1>9. CASE running' = [running EXCEPT ![old] = Stopped] /\ enabled' = enabled /\ adrift' = TRUE
           /\ Goto(h, "refused")
  <2>1. "refused" \in Steps
    BY DEF Steps
  <2>2. PICK q \in Request : req' = [req EXCEPT ![h] = q] /\ q.pc = "refused" /\ q.op = req[h].op
    BY <1>9, <2>1, StateFacts, GotoStep
  <2>3. Shape(q) /\ Knows(q)'
    BY <1>5, <2>2 DEF Shape, Knows, Rest, Snapped
  <2> QED BY <1>7, <1>9, <2>2, <2>3
<1> QED BY <1>4, <1>6, <1>8, <1>9 DEF StopOld

LEMMA FallBackKeeps ==
  ASSUME IInv, NEW h \in Handlers, FallBack(h)
  PROVE  IInv'
<1>1. /\ At(h, "fallback") /\ UNCHANGED <<files, records, pools, torn, unsettled, unmended>> /\ (Fault \/ NoFault)
      /\ Goto(h, "refused")
  BY DEF FallBack
<1>2. Counted'
  BY <1>1, StateFacts, FaultFacts
<1>3. UNCHANGED <<disk, backup, active, php, pools, torn, unsettled, unmended>>
  BY <1>1 DEF files, records
<1>4. PICK old, up : old = req[h].prev /\ up = (Up(old) \/ CanStart(old))
  OBVIOUS
<1>5. /\ old \in Backends /\ req[h].op \in AllOps /\ up \in BOOLEAN
      /\ OneHandler => old = active /\ adrift
  BY <1>1, <1>4, StateFacts DEF Shape, Knows, At, Rest, Up, CanStart
<1>6. CASE UNCHANGED <<servers, adrift>>
  <2>1. UNCHANGED <<files, servers, records, pools, flags>>
    BY <1>1, <1>6 DEF flags
  <2> QED BY <1>1, <1>2, <1>5, <2>1, RefusedKeeps
<1>7. CASE /\ enabled' = enabled \cup {old}
           /\ running' = IF up /\ ~ Up(old) THEN [running EXCEPT ![old] = disk] ELSE running
           /\ adrift' = (adrift /\ ~ up)
  <2>1. "refused" \in Steps
    BY DEF Steps
  <2>2. PICK q \in Request : req' = [req EXCEPT ![h] = q] /\ q.pc = "refused" /\ q.op = req[h].op
    BY <1>1, <2>1, StateFacts, GotoStep
  <2>3. Shape(q) /\ Knows(q)'
    BY <1>5, <2>2 DEF Shape, Knows, Rest, Snapped
  <2>4. /\ running' \in [Backends -> Files \cup {Stopped}] /\ OneUp'
        /\ \A b \in Backends : running'[b] = running[b] \/ (b = old /\ running'[b] = disk)
        /\ \A b \in Backends : Up(b) => Up(b)'
        /\ up => \A b \in Backends : b # old => ~ Up(b) /\ ~ Up(b)'
    <3>1. CASE up /\ ~ Up(old)
      BY <1>4, <1>5, <1>7, <3>1, StateFacts, LoadFacts
    <3>2. CASE ~ (up /\ ~ Up(old))
      BY <1>4, <1>5, <1>7, <3>2, StateFacts DEF OneUp, Up
    <3> QED BY <3>1, <3>2
  <2>5. Typed'
    BY <1>3, <1>5, <1>7, <2>4, StateFacts DEF Typed
  <2>6. ASSUME OneHandler PROVE (RecordedServerBoots /\ Booting /\ Provided)'
    <3>1. old = active /\ adrift /\ Booting /\ Provided /\ enabled \subseteq Backends
      BY <1>5, <2>6, StateFacts
    <3>2. Booting'
      BY <1>3, <1>7, <2>4, <3>1 DEF Booting
    <3>3. RecordedServerBoots'
      BY <1>3, <1>7, <2>4, <3>1 DEF Booting, RecordedServerBoots
    <3>4. Provided'
      BY <1>3, <2>4, <3>1 DEF Provided, Listening, Up
    <3> QED BY <3>2, <3>3, <3>4
  <2> QED BY <1>2, <2>2, <2>3, <2>4, <2>5, <2>6, StepKeeps
<1> QED BY <1>4, <1>6, <1>7 DEF FallBack

LEMMA ReloadKeeps ==
  ASSUME IInv, NEW h \in Handlers, Reload(h)
  PROVE  IInv'
<1>1. At(h, "reload") /\ UNCHANGED <<files, records, pools, adrift, unmended>> /\ (Fault \/ NoFault)
  BY DEF Reload
<1>2. Counted'
  BY <1>1, StateFacts, FaultFacts
<1>3. UNCHANGED <<disk, backup, active, php, pools, adrift, unmended>>
  BY <1>1 DEF files, records
<1>4. CASE Goto(h, "undo") /\ UNCHANGED <<servers, torn, unsettled>>
  <2>1. UNCHANGED <<files, servers, records, pools, flags>>
    BY <1>1, <1>4 DEF flags
  <2> QED BY <1>1, <1>2, <1>4, <2>1, StateFacts, GoUndoStep, UndoKeeps DEF At
<1>5. ASSUME NEW pc, pc = (CASE req[h].op = "apply" -> "ok" [] req[h].op = "switch" -> "enable" [] OTHER -> "record"),
             Goto(h, pc), Loads(req[h].on), Load(req[h].on), torn' = FALSE, unsettled' = FALSE
      PROVE  IInv'
  <2>1. req[h].op \in AllOps
    BY <1>1, StateFacts DEF Shape, At
  <2>2. /\ pc \in {"ok", "enable", "record"}
        /\ pc = "ok" => req[h].op = "apply"
        /\ pc = "enable" => req[h].op = "switch"
        /\ pc = "record" => req[h].op = "migrate"
    BY <1>5, <2>1 DEF AllOps
  <2>3. pc \in Steps
    BY <2>2 DEF Steps
  <2>4. PICK q \in Request : /\ req' = [req EXCEPT ![h] = q]
                             /\ q.pc = pc /\ q.op = req[h].op /\ q.page = req[h].page /\ q.on = req[h].on
                             /\ q.prev = req[h].prev
    BY <1>5, <2>3, StateFacts, GotoStep
  <2>5. Shape(q)
    BY <2>1, <2>2, <2>4 DEF Shape
  <2>6. PICK b : b = req[h].on
    OBVIOUS
  <2>7. b \in Backends /\ (Up(b) \/ CanStart(b)) /\ running' = [running EXCEPT ![b] = disk] /\ enabled' = enabled
    BY <1>5, <2>6, StateFacts DEF Loads, Load
  <2>8. running' \in [Backends -> Files \cup {Stopped}] /\ running'[b] = disk /\ OneUp'
    BY <2>7, LoadFacts
  <2>9. Typed'
    BY <1>3, <1>5, <2>7, <2>8, StateFacts DEF Typed
  <2>10. ASSUME OneHandler PROVE (RecordedServerBoots /\ Booting /\ Provided /\ Knows(q))'
    <3>1. Knows(req[h])
      BY <2>10, StateFacts
    <3>2. /\ disk = Whole(req[h].page) /\ Sockets(req[h].page) \subseteq pools
          /\ req[h].prev = active /\ (req[h].op # "switch" => b = active)
          /\ Hands(req[h]) => adrift /\ req[h].prev \notin enabled
      BY <1>1, <2>6, <3>1 DEF Knows, At, Rest
    <3>3. adrift \/ b = active
      BY <2>6, <3>2 DEF Hands
    <3>4. Sockets(disk.vhosts) \subseteq pools
      BY <3>2, StateFacts, WholeFacts
    <3>5. (RecordedServerBoots /\ Booting /\ Provided)'
      BY <1>3, <2>7, <2>10, <3>3, <3>4, LoadKeepsHost
    <3>6. Knows(q)'
      BY <1>3, <2>2, <2>4, <2>6, <2>7, <2>8, <3>2 DEF Knows, Hands, Rest, Snapped
    <3> QED BY <3>5, <3>6
  <2> QED BY <1>2, <2>4, <2>5, <2>8, <2>9, <2>10, StepKeeps
<1> QED BY <1>4, <1>5 DEF Reload

LEMMA ReloadAgainKeeps ==
  ASSUME IInv, NEW h \in Handlers, ReloadAgain(h)
  PROVE  IInv'
<1>1. At(h, "again") /\ UNCHANGED <<files, records, pools, flags>> /\ (Fault \/ NoFault) /\ Fails(h)
  BY DEF ReloadAgain
<1>2. Counted'
  BY <1>1, StateFacts, FaultFacts
<1>3. UNCHANGED <<disk, backup, active, php, pools, torn, adrift, unmended, unsettled>>
  BY <1>1 DEF files, records, flags
<1>4. CASE UNCHANGED servers
  BY <1>1, <1>2, <1>4, FailsKeeps DEF At, Rest
<1>5. CASE Loads(req[h].on) /\ Load(req[h].on)
  <2>1. PICK b : b = req[h].on
    OBVIOUS
  <2>2. b \in Backends /\ (Up(b) \/ CanStart(b)) /\ running' = [running EXCEPT ![b] = disk] /\ enabled' = enabled
    BY <1>5, <2>1, StateFacts DEF Loads, Load
  <2>3. PICK q \in Request : /\ req' = [req EXCEPT ![h] = q] /\ Shape(q)
                             /\ OneHandler /\ UNCHANGED <<active, adrift, enabled, pools>> => Knows(q)'
    BY <1>1, FailsStep DEF At, Rest
  <2>4. running' \in [Backends -> Files \cup {Stopped}] /\ OneUp'
    BY <2>2, LoadFacts
  <2>5. Typed'
    BY <1>3, <2>2, <2>4, StateFacts DEF Typed
  <2>6. ASSUME OneHandler PROVE (RecordedServerBoots /\ Booting /\ Provided /\ Knows(q))'
    <3>1. Knows(req[h]) /\ Provided
      BY <2>6, StateFacts
    <3>2. adrift \/ b = active
      BY <1>1, <2>1, <3>1 DEF Knows, Hands, At, Rest
    <3>3. ~ unsettled => Sockets(disk.vhosts) \subseteq pools
      BY <3>1 DEF Provided
    <3>4. (RecordedServerBoots /\ Booting /\ Provided)'
      BY <1>3, <2>2, <2>6, <3>2, <3>3, LoadKeepsHost
    <3> QED BY <1>3, <2>2, <2>3, <2>6, <3>4
  <2> QED BY <1>2, <2>3, <2>4, <2>5, <2>6, StepKeeps
<1> QED BY <1>4, <1>5 DEF ReloadAgain

LEMMA EnableTargetKeeps ==
  ASSUME IInv, NEW h \in Handlers, EnableTarget(h)
  PROVE  IInv'
<1>1. At(h, "enable") /\ UNCHANGED <<files, records, pools, flags, running>> /\ (Fault \/ NoFault)
  BY DEF EnableTarget
<1>2. Counted'
  BY <1>1, StateFacts, FaultFacts
<1>3. UNCHANGED <<disk, backup, running, active, php, pools, torn, adrift, unmended, unsettled>>
  BY <1>1 DEF files, records, flags
<1>4. req[h].op = "switch" /\ req[h].op \in AllOps
  BY <1>1, StateFacts DEF Shape, At
<1>5. CASE enabled' = enabled /\ Goto(h, "refused")
  <2>1. UNCHANGED servers
    BY <1>1, <1>5 DEF servers
  <2> QED BY <1>1, <1>2, <1>4, <1>5, <2>1, RefusedKeeps
<1>6. CASE enabled' = enabled \cup {req[h].on} /\ Goto(h, "record")
  <2>1. "record" \in Steps
    BY DEF Steps
  <2>2. PICK q \in Request : /\ req' = [req EXCEPT ![h] = q]
                             /\ q.pc = "record" /\ q.op = req[h].op /\ q.page = req[h].page /\ q.on = req[h].on
                             /\ q.prev = req[h].prev
    BY <1>6, <2>1, StateFacts, GotoStep
  <2>3. Shape(q)
    BY <1>4, <2>2 DEF Shape
  <2>4. PICK b : b = req[h].on
    OBVIOUS
  <2>5. Typed' /\ OneUp'
    BY <1>3, <1>6, StateFacts DEF Typed, OneUp, Up
  <2>6. ASSUME OneHandler PROVE (RecordedServerBoots /\ Booting /\ Provided /\ Knows(q))'
    <3>1. Knows(req[h]) /\ RecordedServerBoots /\ Booting /\ Provided
      BY <2>6, StateFacts
    <3>2. /\ running[b] = disk /\ disk = Whole(req[h].page) /\ Sockets(req[h].page) \subseteq pools /\ req[h].prev = active
          /\ Hands(req[h]) => adrift /\ req[h].prev \notin enabled
      BY <1>1, <2>4, <3>1 DEF Knows, At, Rest
    <3>3. Up(b)
      BY <3>2, StateFacts, NothingAssumption DEF Up
    <3>4. Booting'
      BY <1>3, <1>6, <2>4, <3>1, <3>3 DEF Booting, Up
    <3>5. RecordedServerBoots'
      BY <1>3, <1>4, <1>6, <2>4, <3>1, <3>2 DEF RecordedServerBoots, Hands, Up
    <3>6. Provided'
      BY <1>3, <3>1 DEF Provided, Listening, Up
    <3>7. Knows(q)'
      BY <1>3, <1>4, <1>6, <2>2, <2>4, <3>2 DEF Knows, Hands, Rest, Snapped
    <3> QED BY <3>4, <3>5, <3>6, <3>7
  <2> QED BY <1>2, <2>2, <2>3, <2>5, <2>6, StepKeeps
<1> QED BY <1>5, <1>6 DEF EnableTarget

LEMMA RecordKeeps ==
  ASSUME IInv, NEW h \in Handlers, Record(h)
  PROVE  IInv'
<1>1. At(h, "record") /\ UNCHANGED <<files, servers, pools, torn, unsettled, unmended>> /\ (Fault \/ NoFault)
  BY DEF Record
<1>2. Counted'
  BY <1>1, StateFacts, FaultFacts
<1>3. UNCHANGED <<disk, backup, running, enabled, pools, torn, unsettled, unmended>>
  BY <1>1 DEF files, servers
<1>4. /\ req[h].op \in {"switch", "migrate"} /\ req[h].op \in AllOps
      /\ req[h].on \in Backends /\ req[h].page.php \in Providers
  BY <1>1, StateFacts DEF Shape, At
<1>5. OneHandler => /\ req[h].prev = active /\ (req[h].op # "switch" => req[h].on = active)
                    /\ Sockets(req[h].page) \subseteq pools
                    /\ disk = Whole(req[h].page) /\ running[req[h].on] = disk
                    /\ (Hands(req[h]) => adrift /\ req[h].prev \notin enabled)
                    /\ (req[h].op = "switch" => req[h].on \in enabled)
  BY <1>1, StateFacts DEF Knows, At, Rest
<1>6. CASE UNCHANGED <<records, adrift>> /\ Goto(h, "refused")
  <2>1. UNCHANGED <<files, servers, records, pools, flags>>
    BY <1>1, <1>6 DEF flags
  <2> QED BY <1>2, <1>4, <1>6, <2>1, RefusedKeeps
<1>7. CASE req[h].op = "switch" /\ active' = req[h].on /\ php' = php /\ adrift' = (adrift /\ ~ HandsOver(h))
           /\ Goto(h, "ok")
  <2>1. "ok" \in Steps
    BY DEF Steps
  <2>2. PICK q \in Request : /\ req' = [req EXCEPT ![h] = q]
                             /\ q.pc = "ok" /\ q.op = req[h].op /\ q.page = req[h].page /\ q.on = req[h].on
                             /\ q.prev = req[h].prev
    BY <1>7, <2>1, StateFacts, GotoStep
  <2>3. Shape(q)
    BY <1>4, <2>2 DEF Shape
  <2>4. HandsOver(h) <=> Hands(req[h])
    BY DEF HandsOver, Hands
  <2>5. Typed' /\ OneUp'
    <3>1. adrift' \in BOOLEAN
      BY <1>7 DEF HandsOver
    <3> QED BY <1>3, <1>4, <1>7, <3>1, StateFacts DEF Typed, OneUp, Up
  <2>6. PICK b : b = req[h].on
    OBVIOUS
  <2>7. ASSUME OneHandler PROVE (RecordedServerBoots /\ Booting /\ Provided /\ Knows(q))'
    <3>1. RecordedServerBoots /\ Booting /\ Provided /\ OneUp /\ enabled \subseteq Backends /\ active \in Backends
      BY <2>7, StateFacts
    <3>2. b \in Backends /\ Up(b) /\ \A o \in Backends : o # b => ~ Up(o)
      <4>1. b \in Backends /\ Up(b)
        BY <1>4, <1>5, <2>6, <2>7, StateFacts, NothingAssumption DEF Up
      <4> QED BY <3>1, <4>1 DEF OneUp
    <3>3. CASE Hands(req[h])
      <4>1. ASSUME ~ unmended PROVE enabled = {b}
        <5>1. active \notin enabled /\ b \in enabled
          BY <1>5, <1>7, <2>6, <2>7, <3>3
        <5>2. \A o \in enabled : Up(o)
          BY <3>1, <4>1, <5>1 DEF Booting
        <5> QED BY <3>1, <3>2, <5>1, <5>2
      <4>2. (RecordedServerBoots /\ Booting)'
        BY <1>3, <1>7, <2>6, <3>2, <4>1 DEF RecordedServerBoots, Booting, Up
      <4> QED BY <1>3, <1>5, <1>7, <2>2, <2>6, <2>7, <3>1, <4>2 DEF Provided, Listening, Up, Knows, Rest, Snapped
    <3>4. CASE ~ Hands(req[h])
      <4>1. active' = active /\ adrift' = adrift
        BY <1>4, <1>5, <1>7, <2>4, <2>7, <3>4, StateFacts DEF Hands, Typed
      <4>2. (RecordedServerBoots /\ Booting)'
        BY <1>3, <3>1, <4>1 DEF RecordedServerBoots, Booting, Up
      <4> QED BY <1>3, <1>5, <1>7, <2>2, <2>6, <2>7, <3>1, <4>2 DEF Provided, Listening, Up, Knows, Rest, Snapped
    <3> QED BY <3>3, <3>4
  <2> QED BY <1>2, <2>2, <2>3, <2>5, <2>7, StepKeeps
<1>8. ASSUME req[h].op = "migrate", php' = req[h].page.php, UNCHANGED <<active, adrift>>,
             NEW pc, pc = (IF req[h].was = php' THEN "ok" ELSE "prune"), Goto(h, pc)
      PROVE  IInv'
  <2>1. pc \in Steps
    BY <1>8 DEF Steps
  <2>2. PICK q \in Request : /\ req' = [req EXCEPT ![h] = q]
                             /\ q.pc = pc /\ q.op = req[h].op /\ q.page = req[h].page /\ q.on = req[h].on
                             /\ q.prev = req[h].prev /\ q.was = req[h].was
    BY <1>8, <2>1, StateFacts, GotoStep
  <2>3. Shape(q)
    BY <1>4, <1>8, <2>2 DEF Shape
  <2>4. Typed' /\ OneUp'
    BY <1>3, <1>4, <1>8, StateFacts DEF Typed, OneUp, Up
  <2>5. ASSUME OneHandler PROVE (RecordedServerBoots /\ Booting /\ Provided /\ Knows(q))'
    <3>1. RecordedServerBoots /\ Booting /\ Provided
      BY <2>5, StateFacts
    <3>2. (RecordedServerBoots /\ Booting /\ Provided)'
      BY <1>3, <1>8, <3>1 DEF RecordedServerBoots, Booting, Provided, Listening, Up
    <3>3. Knows(q)'
      BY <1>3, <1>5, <1>8, <2>2, <2>5 DEF Knows, Hands, Rest, Snapped
    <3> QED BY <3>2, <3>3
  <2> QED BY <1>2, <2>2, <2>3, <2>4, <2>5, StepKeeps
<1> QED BY <1>6, <1>7, <1>8 DEF Record

LEMMA PrunePoolsKeeps ==
  ASSUME IInv, NEW h \in Handlers, PrunePools(h)
  PROVE  IInv'
<1>1. At(h, "prune") /\ UNCHANGED <<files, servers, records, flags>> /\ (Fault \/ NoFault)
  BY DEF PrunePools
<1>2. Counted'
  BY <1>1, StateFacts, FaultFacts
<1>3. UNCHANGED <<disk, backup, running, enabled, active, php, torn, adrift, unmended, unsettled>>
  BY <1>1 DEF files, servers, records, flags
<1>4. PICK w, none : w = req[h].was /\ none = {}
  OBVIOUS
<1>5. /\ req[h].op = "migrate" /\ req[h].op \in AllOps /\ req[h].page \in Page /\ none \subseteq PoolsOf(w)
      /\ req[h].on \in Backends
  BY <1>1, <1>4, StateFacts DEF Shape, At
<1>6. /\ pools' \subseteq Pools /\ pools \ PoolsOf(w) \subseteq pools'
      /\ pools' = SyncPools(w, none) => pools' \cap PoolsOf(w) = {}
  BY <1>4, <1>5, StateFacts, SyncFacts DEF PrunePools
<1>7. Typed' /\ OneUp'
  BY <1>3, <1>6, StateFacts DEF Typed, OneUp, Up
<1>8. ASSUME OneHandler
      PROVE  /\ (RecordedServerBoots /\ Booting /\ Provided)'
             /\ Sockets(req[h].page) \subseteq pools'
             /\ disk = Whole(req[h].page) /\ running[req[h].on] = disk /\ active = req[h].on
             /\ php = req[h].page.php
  <2>1. RecordedServerBoots /\ Booting /\ OneUp
    BY <1>8, StateFacts
  <2>2. /\ disk = Whole(req[h].page) /\ running[req[h].on] = disk /\ Sockets(req[h].page) \subseteq pools
        /\ php = req[h].page.php /\ w # php /\ active = req[h].on
    BY <1>1, <1>4, <1>5, <1>8, StateFacts DEF Knows, At, Rest
  <2>3. Sockets(req[h].page) \subseteq pools'
    <3>1. Sockets(req[h].page) \subseteq PoolsOf(req[h].page.php)
      BY <1>5, SocketFacts
    <3>2. PoolsOf(req[h].page.php) \cap PoolsOf(w) = {}
      BY <2>2, PoolsApart
    <3> QED BY <1>6, <2>2, <3>1, <3>2
  <2>4. disk.vhosts = req[h].page
    BY <2>2, StateFacts, WholeFacts
  <2>5. \A b \in Backends : Up(b) => running[b] = disk
    <3>1. Up(req[h].on)
      BY <2>2, StateFacts, NothingAssumption DEF Up
    <3> QED BY <1>5, <2>1, <2>2, <3>1 DEF OneUp
  <2>6. Provided'
    BY <1>3, <2>3, <2>4, <2>5 DEF Provided, Listening, Up
  <2>7. (RecordedServerBoots /\ Booting)'
    BY <1>3, <2>1 DEF RecordedServerBoots, Booting, Up
  <2> QED BY <2>2, <2>3, <2>6, <2>7
<1>9. ASSUME NEW pc \in {"ok", "refused"}, Goto(h, pc), pc = "ok" => pools' = SyncPools(w, none)
      PROVE  IInv'
  <2>1. pc \in Steps
    BY DEF Steps
  <2>2. PICK q \in Request : /\ req' = [req EXCEPT ![h] = q]
                             /\ q.pc = pc /\ q.op = req[h].op /\ q.page = req[h].page /\ q.on = req[h].on
                             /\ q.prev = req[h].prev /\ q.was = req[h].was
    BY <1>9, <2>1, StateFacts, GotoStep
  <2>3. Shape(q)
    BY <1>5, <2>2 DEF Shape
  <2>4. OneHandler => Knows(q)'
    BY <1>3, <1>4, <1>6, <1>8, <1>9, <2>2 DEF Knows, Rest, Snapped
  <2> QED BY <1>2, <1>7, <1>8, <2>2, <2>3, <2>4, StepKeeps
<1> QED BY <1>4, <1>9 DEF PrunePools

-----------------------------------------------------------------------------
(* The agent, or the host, starts again. *)

(* Reconcile leaves every server as it was or stopped; what it can say of  *)
(* the next boot it says when no command failed.                           *)
LEMMA ReconcileFacts ==
  ASSUME IInv, NEW was \in [Backends -> Files \cup {Stopped}], Reconcile(was)
  PROVE  /\ running' \in [Backends -> Files \cup {Stopped}] /\ enabled' \subseteq Backends
         /\ unmended' \in BOOLEAN /\ faults' \in 0 .. MaxFaults
         /\ \A b \in Backends : running'[b] \in {was[b], Stopped}
         /\ ~ unmended' => \/ enabled' = {active} /\ \A b \in Backends \ {active} : ~ Up(b)'
                           \/ ~ adrift /\ ~ unmended /\ enabled' \subseteq enabled \cup {active}
                              /\ (active \in enabled => active \in enabled')
<1>1. PICK stop \in SUBSET Backends, enable \in SUBSET Backends :
        /\ running' = [b \in Backends |-> IF b \in stop \cup {active} THEN was[b] ELSE Stopped]
        /\ enabled' = (enabled \cap enable) \cup ({active} \ enable)
        /\ \/ stop \cup enable = {} /\ unmended' = FALSE /\ UNCHANGED faults
           \/ /\ stop \cup enable # {} /\ unmended' = (adrift \/ unmended)
              /\ faults < MaxFaults /\ faults' = faults + 1
  BY DEF Reconcile
<1>2. active \in Backends /\ Typed /\ Counted
  BY StateFacts
<1>3. faults' \in 0 .. MaxFaults
  <2>1. faults \in Nat /\ faults <= MaxFaults /\ MaxFaults \in Nat
    BY <1>2, BoundAssumption DEF Counted
  <2>2. faults' = faults \/ (faults < MaxFaults /\ faults' = faults + 1)
    BY <1>1
  <2> QED BY ONLY <2>1, <2>2
<1>4. /\ running' \in [Backends -> Files \cup {Stopped}] /\ enabled' \subseteq Backends
      /\ \A b \in Backends : running'[b] \in {was[b], Stopped}
  BY <1>1, <1>2 DEF Typed
<1>5. unmended' \in BOOLEAN
  BY <1>1, <1>2 DEF Typed
<1>6. ASSUME stop \cup enable = {}
      PROVE  enabled' = {active} /\ \A b \in Backends \ {active} : ~ Up(b)'
  <2>1. stop = {} /\ enable = {}
    BY <1>6
  <2>2. enabled' = {active}
    BY <1>1, <2>1
  <2>3. \A b \in Backends \ {active} : running'[b] = Stopped
    BY <1>1, <2>1
  <2> QED BY <2>2, <2>3 DEF Up
<1>7. ASSUME stop \cup enable # {}, ~ unmended'
      PROVE  ~ adrift /\ ~ unmended /\ enabled' \subseteq enabled \cup {active}
             /\ (active \in enabled => active \in enabled')
  <2>1. unmended' = (adrift \/ unmended)
    BY <1>1, <1>7
  <2>2. ~ adrift /\ ~ unmended
    BY <1>7, <2>1
  <2>3. enabled' \subseteq enabled \cup {active} /\ (active \in enabled => active \in enabled')
    BY <1>1
  <2> QED BY <2>2, <2>3
<1> QED BY <1>3, <1>4, <1>5, <1>6, <1>7

LEMMA RestartKeeps ==
  ASSUME IInv, Restarted, NEW was \in [Backends -> Files \cup {Stopped}],
         \A b \in Backends : was[b] \in {running[b], disk, Stopped},
         \A a, b \in Backends : was[a] # Stopped /\ was[b] # Stopped => a = b,
         \A b \in Backends : was[b] # Stopped => Up(b) \/ b \in enabled,
         Reconcile(was)
  PROVE  IInv'
<1>1. /\ UNCHANGED <<disk, backup, active, php, pools, unsettled, begun>> /\ adrift' = FALSE
      /\ torn' \in BOOLEAN /\ req' = [h \in Handlers |-> NoRequest]
  BY StateFacts DEF Restarted, files, records, Typed, Writing
<1>2. /\ running' \in [Backends -> Files \cup {Stopped}] /\ enabled' \subseteq Backends
      /\ unmended' \in BOOLEAN /\ faults' \in 0 .. MaxFaults
      /\ \A b \in Backends : running'[b] \in {was[b], Stopped}
      /\ ~ unmended' => \/ enabled' = {active} /\ \A b \in Backends \ {active} : ~ Up(b)'
                        \/ ~ adrift /\ ~ unmended /\ enabled' \subseteq enabled \cup {active}
                           /\ (active \in enabled => active \in enabled')
  BY ReconcileFacts
<1>4. Counted'
  <2>1. crashes' \in 0 .. MaxCrashes
    <3>1. crashes \in Nat /\ crashes < MaxCrashes /\ crashes' = crashes + 1 /\ MaxCrashes \in Nat
      BY StateFacts, BoundAssumption DEF Restarted, Counted
    <3> QED BY ONLY <3>1
  <2> QED BY <1>1, <1>2, <2>1, StateFacts DEF Counted
<1>5. Typed' /\ OneUp'
  BY <1>1, <1>2, StateFacts DEF Typed, OneUp, Up
<1>6. NoRequest \in Request /\ NoRequest.pc = "idle"
  <2>1. FirstPage \in Page /\ "idle" \in Steps
    BY FirstAssumption DEF FirstPage, Page, Steps
  <2> QED BY <2>1, FirstAssumption DEF NoRequest, Request
<1>7. TypeOK'
  BY <1>1, <1>4, <1>5, <1>6, OneUpCountedNext DEF TypeOK, Typed, Counted
<1>8. \A h \in Handlers : Shape(req[h])' /\ Knows(req[h])'
  BY <1>1, <1>6 DEF Shape, Knows, Rest, Snapped
<1>9. ASSUME OneHandler PROVE (RecordedServerBoots /\ Booting /\ Provided)'
  <2>1. ASSUME ~ unmended'
        PROVE  enabled' = {active} /\ \A b \in Backends \ {active} : ~ Up(b)'
    <3>1. CASE ~ adrift /\ ~ unmended /\ enabled' \subseteq enabled \cup {active}
               /\ (active \in enabled => active \in enabled')
      <4>1. enabled = {active} /\ \A b \in Backends \ {active} : ~ Up(b)
        BY <1>9, <3>1, StateFacts DEF RecordedServerBoots
      <4>2. \A b \in Backends \ {active} : was[b] = Stopped
        BY <4>1
      <4>3. \A b \in Backends \ {active} : ~ Up(b)'
        BY <1>2, <4>2 DEF Up
      <4> QED BY <3>1, <4>1, <4>3
    <3> QED BY <1>2, <2>1, <3>1
  <2>2. RecordedServerBoots' /\ Booting'
    BY <1>1, <2>1 DEF RecordedServerBoots, Booting
  <2>3. Provided /\ \A b \in Backends : running'[b] \in {running[b], disk, Stopped}
    BY <1>2, <1>9, StateFacts
  <2>4. Provided'
    BY <1>1, <2>3 DEF Provided, Listening, Up
  <2> QED BY <2>2, <2>4
<1> QED BY <1>5, <1>7, <1>8, <1>9 DEF IInv, AloneInv

LEMMA AgentRestartKeeps ==
  ASSUME IInv, AgentRestart
  PROVE  IInv'
<1>1. /\ running \in [Backends -> Files \cup {Stopped}]
      /\ \A a, b \in Backends : running[a] # Stopped /\ running[b] # Stopped => a = b
      /\ \A b \in Backends : running[b] # Stopped => Up(b)
  BY StateFacts DEF OneUp, Up
<1> QED BY <1>1, RestartKeeps DEF AgentRestart

LEMMA RebootKeeps ==
  ASSUME IInv, Reboot
  PROVE  IInv'
<1>1. PICK was \in [Backends -> {disk, Stopped}] : Boots(was) /\ Reconcile(was)
  BY DEF Reboot
<1>2. /\ was \in [Backends -> Files \cup {Stopped}] /\ \A b \in Backends : was[b] \in {running[b], disk, Stopped}
      /\ \A a, b \in Backends : was[a] # Stopped /\ was[b] # Stopped => a = b
      /\ \A b \in Backends : was[b] # Stopped => b \in enabled
  BY <1>1, StateFacts DEF Boots
<1> QED BY <1>1, <1>2, RestartKeeps DEF Reboot

-----------------------------------------------------------------------------
LEMMA FirstFacts ==
  /\ FirstPage \in Page /\ FirstPage \in Half /\ Accepted(Whole(FirstPage)) /\ Whole(FirstPage) \in Files
  /\ Whole(FirstPage) # Stopped /\ Whole(FirstPage).vhosts = FirstPage /\ Sockets(FirstPage) \subseteq Pools
<1>1. FirstPage \in Page /\ FirstPage \in Half /\ FirstPage # Nothing /\ FirstPage.estate = FirstEstate
  BY FirstAssumption, NothingAssumption DEF FirstPage, Page, Half
<1>2. Whole(FirstPage) \in Files /\ Whole(FirstPage).main = FirstPage /\ Whole(FirstPage).vhosts = FirstPage
  BY <1>1, WholeFacts
<1>3. Sockets(FirstPage) \subseteq Pools
  BY <1>1, SocketFacts DEF PoolsOf
<1> QED BY <1>1, <1>2, <1>3, FirstAssumption, NothingAssumption DEF Accepted

LEMMA InitIInv == Init => IInv
<1> SUFFICES ASSUME Init PROVE IInv
  OBVIOUS
<1>1. /\ disk = Whole(FirstPage) /\ backup = Empty
      /\ running = [b \in Backends |-> IF b = FirstBackend THEN disk ELSE Stopped]
      /\ enabled = {FirstBackend} /\ active = FirstBackend /\ php = FirstPHP
      /\ pools = Sockets(FirstPage) /\ req = [h \in Handlers |-> NoRequest]
      /\ torn = FALSE /\ adrift = FALSE /\ unmended = FALSE /\ unsettled = FALSE
      /\ begun = 0 /\ faults = 0 /\ crashes = 0
  BY DEF Init
<1>2. FirstBackend \in Backends /\ FirstPHP \in Providers
  BY FirstAssumption
<1>3. Empty \in Files
  BY WholeFacts DEF Empty, Half
<1>4. Typed
  BY <1>1, <1>2, <1>3, FirstFacts DEF Typed
<1>5. Counted
  BY <1>1, BoundAssumption DEF Counted
<1>6. NoRequest \in Request /\ NoRequest.pc = "idle"
  <2>1. "idle" \in Steps
    BY DEF Steps
  <2> QED BY <1>2, <2>1, FirstFacts DEF NoRequest, Request
<1>7. OneUp
  BY <1>1 DEF OneUp, Up
<1>8. TypeOK
  BY <1>1, <1>4, <1>5, <1>6, <1>7, OneUpCounted DEF TypeOK, Typed, Counted
<1>9. Shape(NoRequest) /\ Knows(NoRequest)
  BY <1>6 DEF Shape, Knows, Rest, Snapped
<1>10. RecordedServerBoots /\ Booting
  BY <1>1 DEF RecordedServerBoots, Booting, Up
<1>11. Provided
  BY <1>1, FirstFacts DEF Provided, Listening, Up
<1> QED BY <1>1, <1>7, <1>8, <1>9, <1>10, <1>11 DEF IInv, AloneInv

LEMMA IdleKeeps ==
  ASSUME IInv, UNCHANGED vars
  PROVE  IInv'
<1>1. UNCHANGED <<disk, backup, running, enabled, active, php, pools, req, torn, adrift, unmended, unsettled, begun, faults, crashes>>
  BY DEF vars, files, servers, records, flags, counts
<1> QED BY <1>1 DEF IInv, TypeOK, OneUp, AloneInv, Shape, Knows, RecordedServerBoots, Booting, Provided, Listening, Up

LEMMA NextKeeps ==
  ASSUME IInv, [Next]_vars
  PROVE  IInv'
<1>1. ASSUME NEW h \in Handlers, Step(h) PROVE IInv'
  BY <1>1, BeginKeeps, ApplyPoolsKeeps, StopOldKeeps, WaitForPortsKeeps, FallBackKeeps, ClearSnapshotKeeps,
     CopySnapshotKeeps, WriteMainKeeps, WriteVhostsKeeps, TestConfigKeeps, ReloadKeeps, RestoreMainKeeps,
     RestoreVhostsKeeps, ReloadAgainKeeps, EnableTargetKeeps, RecordKeeps, PrunePoolsKeeps DEF Step
<1> QED BY <1>1, IdleKeeps, AgentRestartKeeps, RebootKeeps DEF Next

LEMMA Invariance == Spec => []IInv
<1>1. IInv /\ [Next]_vars => IInv'
  BY NextKeeps
<1> QED BY <1>1, InitIInv, PTL DEF Spec

(* However many actions overlap, whatever fails and restarts: the types,   *)
(* and no two servers up at once, because each of the ways in which the    *)
(* agent or systemd starts one leaves the ports to who has them.           *)
THEOREM TypesHold == Spec => []TypeOK
<1>1. IInv => TypeOK
  BY DEF IInv
<1> QED BY <1>1, Invariance, PTL

(* Actions one after the other, any command failing, agent and host        *)
(* restarting anywhere: what was answered with success is served whole by  *)
(* the backend on record, with its pools; and the backend on record is the *)
(* one that boots, unless a handover was left halfway.                     *)
THEOREM SuccessAndBoot ==
  ASSUME OneHandler
  PROVE  Spec => []WebserverInv
<1>1. ASSUME IInv PROVE SuccessIsServed
  <2>1. ASSUME NEW h \in Handlers, At(h, "ok")
        PROVE  LET r == req[h] IN
               /\ active = r.on /\ running[r.on] = Whole(r.page) /\ disk = Whole(r.page)
               /\ Sockets(r.page) \subseteq pools
               /\ r.op = "migrate" => php = r.page.php /\ (r.was # php => pools \cap PoolsOf(r.was) = {})
    BY <1>1, <2>1, StateFacts DEF Knows, At
  <2> QED BY <2>1 DEF SuccessIsServed
<1>2. IInv => WebserverInv
  BY <1>1 DEF IInv, AloneInv, WebserverInv
<1> QED BY <1>2, Invariance, PTL

(* Actions one after the other: unless pools in use were changed and their *)
(* page was not accepted yet, every socket a running server proxies to has *)
(* an interpreter behind it, also after a refused migration and a restart. *)
THEOREM ServedPoolsAnswer ==
  ASSUME OneHandler
  PROVE  Spec => []ServedPoolsListen
<1>1. IInv => ServedPoolsListen
  BY DEF IInv, AloneInv, Provided, ServedPoolsListen
<1> QED BY <1>1, Invariance, PTL

-----------------------------------------------------------------------------
(* What follows from the promise HostConfig states. *)

LEMMA DarkIsStopped == Host!DarkIsApart
BY NothingAssumption DEF Host!DarkIsApart

(* One step keeps both: an accepted configuration is stored and served at  *)
(* once, and every other way of coming to serve something is from the disk.*)
LEMMA HostNext ==
  ASSUME Host!TypeOK, Host!Sound, [Host!Next]_(Host!config)
  PROVE  Host!TypeOK' /\ Host!Sound'
<1>1. CASE Host!Accept
  BY <1>1, DarkIsStopped DEF Host!Accept, Host!DarkIsApart, Host!TypeOK, Host!Sound
<1>2. CASE Host!Adopt
  BY <1>2, DarkIsStopped DEF Host!Adopt, Host!DarkIsApart, Host!TypeOK, Host!Sound
<1>3. CASE Host!Darken
  BY <1>3 DEF Host!Darken, Host!TypeOK, Host!Sound
<1>4. CASE Host!Tear
  BY <1>4, DarkIsStopped DEF Host!Tear, Host!DarkIsApart, Host!TypeOK, Host!Sound
<1>5. CASE UNCHANGED Host!config
  BY <1>5 DEF Host!config, Host!TypeOK, Host!Sound
<1> QED BY <1>1, <1>2, <1>3, <1>4, <1>5 DEF Host!Next

(* Where Apply is atomic, what a host answers with was accepted, and       *)
(* unless a change was interrupted it is what the disk holds               *)
(* (webserver.go:385).                                                     *)
THEOREM HostIsSound == Host!Spec => [](Host!TypeOK /\ Host!Sound)
<1>1. Host!Init => Host!TypeOK /\ Host!Sound
  BY DarkIsStopped DEF Host!Init, Host!DarkIsApart, Host!TypeOK, Host!Sound
<1>2. Host!TypeOK /\ Host!Sound /\ [Host!Next]_(Host!config) => (Host!TypeOK /\ Host!Sound)'
  BY HostNext
<1> QED BY <1>1, <1>2, PTL DEF Host!Spec

-----------------------------------------------------------------------------
(* Every step is a step of HostConfig, or none. *)

LEMMA StoredIs ==
  ASSUME OneHandler
  PROVE  \A h \in Handlers : Stored = IF Writing(h) THEN backup ELSE disk
BY DEF OneHandler, Stored

LEMMA StoredIsNext ==
  ASSUME OneHandler
  PROVE  (\A h \in Handlers : Stored = IF Writing(h) THEN backup ELSE disk)'
BY StoredIs, PTL

LEMMA ServedIs ==
  /\ \A b \in Backends : OneUp /\ Up(b) => Served = running[b]
  /\ (\A b \in Backends : ~ Up(b)) => Served = Stopped
BY DEF OneUp, Served

LEMMA ServedIsNext ==
  (/\ \A b \in Backends : OneUp /\ Up(b) => Served = running[b]
   /\ (\A b \in Backends : ~ Up(b)) => Served = Stopped)'
BY ServedIs, PTL

LEMMA SameServed == running' = running => Served' = Served
BY DEF Served, Up

LEMMA GotoPc ==
  ASSUME req \in [Handlers -> Request], NEW h \in Handlers, NEW pc, Goto(h, pc)
  PROVE  req'[h].pc = pc
<1>1. req[h] \in Request
  OBVIOUS
<1>2. [req[h] EXCEPT !.pc = pc].pc = pc
  BY <1>1 DEF Request
<1> QED BY <1>2 DEF Goto

LEMMA FailsPc ==
  ASSUME req \in [Handlers -> Request], NEW h \in Handlers, Fails(h)
  PROVE  ~ Writing(h)'
<1>1. req'[h].pc \in {"fallback", "refused"}
  BY GotoPc DEF Fails
<1> QED BY <1>1 DEF Writing

(* Nothing happens to the host, or the disk is torn.                       *)
LEMMA StoredStep ==
  ASSUME running' = running, (Stored' = Stored /\ torn' = torn) \/ (torn' = TRUE /\ Stored' \in Files)
  PROVE  [Host!Next]_(Host!config)
<1>1. Served' = Served
  BY SameServed
<1>2. CASE Stored' = Stored /\ torn' = torn
  BY <1>1, <1>2 DEF Host!config
<1>3. CASE torn' = TRUE /\ Stored' \in Files
  <2>1. Host!Tear
    BY <1>1, <1>3 DEF Host!Tear
  <2> QED BY <2>1 DEF Host!Next
<1> QED BY <1>2, <1>3

LEMMA OutsideStep ==
  ASSUME OneHandler, IInv, NEW h \in Handlers, ~ Writing(h), ~ Writing(h)', UNCHANGED <<disk, running, torn>>
  PROVE  [Host!Next]_(Host!config)
BY StoredIs, StoredIsNext, StoredStep

LEMMA BeginHost ==
  ASSUME OneHandler, IInv, NEW h \in Handlers, BeginApply(h) \/ BeginSwitch(h) \/ BeginMigrate(h)
  PROVE  [Host!Next]_(Host!config)
<1>1. ASSUME NEW op, NEW b, NEW p, Take(h, op, b, p) PROVE [Host!Next]_(Host!config)
  <2>1. ~ Writing(h) /\ UNCHANGED <<disk, running, torn>>
    BY <1>1 DEF Take, Resting, Writing, files, servers, flags
  <2>2. req'[h].pc = "pools"
    BY <1>1, StateFacts DEF Take
  <2> QED BY <2>1, <2>2, OutsideStep DEF Writing
<1> QED BY <1>1 DEF BeginApply, BeginSwitch, BeginMigrate

LEMMA OutsideHost ==
  ASSUME OneHandler, IInv, NEW h \in Handlers,
         ApplyPools(h) \/ WaitForPorts(h) \/ ClearSnapshot(h) \/ CopySnapshot(h) \/ EnableTarget(h) \/ Record(h)
           \/ PrunePools(h)
  PROVE  [Host!Next]_(Host!config)
<1>1. ~ Writing(h) /\ UNCHANGED <<disk, running, torn>>
  BY DEF ApplyPools, WaitForPorts, ClearSnapshot, CopySnapshot, EnableTarget, Record, PrunePools, At, Writing, files,
         servers, flags
<1>2. (\E pc : pc \notin {"vhosts", "test", "reload", "undo", "putback"} /\ Goto(h, pc)) \/ Fails(h)
  <2>1. ApplyPools(h) => Goto(h, "stop") \/ Goto(h, "clear") \/ Goto(h, "refused")
    BY DEF ApplyPools
  <2>2. WaitForPorts(h) => Goto(h, "clear") \/ Goto(h, "fallback")
    BY DEF WaitForPorts
  <2>3. ClearSnapshot(h) => Goto(h, "copy") \/ Fails(h)
    BY DEF ClearSnapshot
  <2>4. CopySnapshot(h) => Goto(h, "main") \/ Fails(h)
    BY DEF CopySnapshot
  <2>5. EnableTarget(h) => Goto(h, "record") \/ Goto(h, "refused")
    BY DEF EnableTarget
  <2>6. Record(h) => Goto(h, "ok") \/ Goto(h, "prune") \/ Goto(h, "refused")
    BY DEF Record
  <2>7. PrunePools(h) => Goto(h, "ok") \/ Goto(h, "refused")
    BY DEF PrunePools
  <2> QED BY <2>1, <2>2, <2>3, <2>4, <2>5, <2>6, <2>7
<1>3. ~ Writing(h)'
  BY <1>2, StateFacts, GotoPc, FailsPc DEF Writing
<1> QED BY <1>1, <1>3, OutsideStep

LEMMA MendPc ==
  ASSUME NEW h \in Handlers, req \in [Handlers -> Request], req' = [req EXCEPT ![h].pc = "undo", ![h].mend = TRUE]
  PROVE  req'[h].pc = "undo"
<1>1. req[h] \in Request
  OBVIOUS
<1>2. [[req[h] EXCEPT !.pc = "undo"] EXCEPT !.mend = TRUE].pc = "undo"
  BY <1>1 DEF Request
<1> QED BY <1>2

(* From the first file written to the last one put back, what is stored is *)
(* the snapshot.                                                           *)
LEMMA WriteHost ==
  ASSUME OneHandler, IInv, NEW h \in Handlers, WriteMain(h) \/ WriteVhosts(h) \/ TestConfig(h)
  PROVE  [Host!Next]_(Host!config)
<1>1. UNCHANGED <<backup, running, torn>>
  BY DEF WriteMain, WriteVhosts, TestConfig, files, servers, flags
<1>2. Stored = backup
  <2>1. CASE At(h, "main")
    <3>1. backup = disk
      BY <2>1, StateFacts DEF Knows, At
    <3> QED BY <3>1, StoredIs
  <2>2. CASE At(h, "vhosts") \/ At(h, "test")
    BY <2>2, StoredIs DEF Writing, At
  <2> QED BY <2>1, <2>2 DEF WriteMain, WriteVhosts, TestConfig
<1>3. Writing(h)'
  <2>1. \/ Goto(h, "vhosts") \/ Goto(h, "test") \/ Goto(h, "reload") \/ Goto(h, "undo")
        \/ req' = [req EXCEPT ![h].pc = "undo", ![h].mend = TRUE]
    BY DEF WriteMain, WriteVhosts, TestConfig
  <2>2. req'[h].pc \in {"vhosts", "test", "reload", "undo"}
    BY <2>1, StateFacts, GotoPc, MendPc
  <2> QED BY <2>2 DEF Writing
<1>4. Stored' = backup'
  BY <1>3, StoredIsNext
<1> QED BY <1>1, <1>2, <1>4, StoredStep

LEMMA RestoreMainHost ==
  ASSUME OneHandler, IInv, NEW h \in Handlers, RestoreMain(h)
  PROVE  [Host!Next]_(Host!config)
<1>1. At(h, "undo") /\ UNCHANGED <<backup, running>>
  BY DEF RestoreMain, servers
<1>2. Stored = backup
  BY <1>1, StoredIs DEF Writing, At
<1>3. CASE Goto(h, "putback") /\ torn' = torn
  <2>1. Writing(h)'
    BY <1>3, StateFacts, GotoPc DEF Writing
  <2> QED BY <1>1, <1>2, <1>3, <2>1, StoredIsNext, StoredStep
<1>4. CASE disk' = disk /\ torn' = TRUE /\ Fails(h)
  <2>1. ~ Writing(h)'
    BY <1>4, StateFacts, FailsPc
  <2> QED BY <1>1, <1>4, <2>1, StateFacts, StoredIsNext, StoredStep
<1> QED BY <1>3, <1>4 DEF RestoreMain

LEMMA RestoreVhostsHost ==
  ASSUME OneHandler, IInv, NEW h \in Handlers, RestoreVhosts(h)
  PROVE  [Host!Next]_(Host!config)
<1>1. At(h, "putback") /\ UNCHANGED <<backup, running>>
  BY DEF RestoreVhosts, servers
<1>2. Stored = backup /\ disk.main = backup.main
  BY <1>1, StateFacts, StoredIs DEF Knows, Writing, At
<1>3. ~ Writing(h)'
  <2>1. Fails(h) \/ Goto(h, "again")
    BY DEF RestoreVhosts
  <2>2. Goto(h, "again") => req'[h].pc = "again"
    BY StateFacts, GotoPc
  <2> QED BY <2>1, <2>2, StateFacts, FailsPc DEF Writing
<1>4. Stored' = disk'
  BY <1>3, StoredIsNext
<1>5. backup.vhosts \in Half /\ Nothing \in Half
  BY StateFacts DEF Files, Half
<1>6. CASE disk' = [disk EXCEPT !.vhosts = backup.vhosts] /\ torn' = torn
  <2>1. disk' \in Files /\ disk'.vhosts = backup.vhosts /\ disk'.main = backup.main
    BY <1>2, <1>5, <1>6, StateFacts, VhostsWritten
  <2>2. disk' = backup
    BY <2>1, StateFacts, FilesEqual
  <2> QED BY <1>1, <1>2, <1>4, <1>6, <2>2, StoredStep
<1>7. CASE disk' \in {disk, [disk EXCEPT !.vhosts = Nothing]} /\ torn' = TRUE
  <2>1. disk' \in Files
    BY <1>5, <1>7, StateFacts, VhostsWritten
  <2> QED BY <1>1, <1>4, <1>7, <2>1, StoredStep
<1> QED BY <1>6, <1>7 DEF RestoreVhosts

(* A server that loads what is on disk answers with it.                    *)
LEMMA LoadServes ==
  ASSUME IInv, NEW b \in Backends, Loads(b), running' = [running EXCEPT ![b] = disk]
  PROVE  Served' = disk /\ disk \in {f \in Files : Accepted(f)}
<1>1. (Up(b) \/ CanStart(b)) /\ Accepted(disk)
  BY DEF Loads, CanStart
<1>2. running'[b] = disk /\ Up(b)' /\ OneUp'
  BY <1>1, LoadFacts
<1> QED BY <1>1, <1>2, StateFacts, ServedIsNext

LEMMA ReloadHost ==
  ASSUME OneHandler, IInv, NEW h \in Handlers, Reload(h)
  PROVE  [Host!Next]_(Host!config)
<1>1. At(h, "reload") /\ UNCHANGED <<disk, backup>>
  BY DEF Reload, files
<1>2. CASE Goto(h, "undo") /\ UNCHANGED <<servers, torn>>
  <2>1. Writing(h) /\ Writing(h)'
    BY <1>1, <1>2, StateFacts, GotoPc DEF Writing, At
  <2>2. Stored' = Stored /\ running' = running
    BY <1>1, <1>2, <2>1, StoredIs, StoredIsNext DEF servers
  <2> QED BY <1>2, <2>2, StoredStep
<1>3. CASE /\ Loads(req[h].on) /\ Load(req[h].on) /\ torn' = FALSE
           /\ Goto(h, CASE req[h].op = "apply" -> "ok" [] req[h].op = "switch" -> "enable" [] OTHER -> "record")
  <2>1. PICK pc : pc = (CASE req[h].op = "apply" -> "ok" [] req[h].op = "switch" -> "enable" [] OTHER -> "record")
    OBVIOUS
  <2>2. pc \in {"ok", "enable", "record"}
    <3>1. req[h].op \in AllOps
      BY <1>1, StateFacts DEF Shape, At
    <3> QED BY <2>1, <3>1 DEF AllOps
  <2>3. ~ Writing(h)'
    BY <1>3, <2>1, <2>2, StateFacts, GotoPc DEF Writing
  <2>4. Stored' = disk
    BY <1>1, <2>3, StoredIsNext
  <2>5. Served' = disk /\ disk \in {f \in Files : Accepted(f)}
    BY <1>3, StateFacts, LoadServes DEF Load
  <2>6. Host!Accept
    BY <1>3, <2>4, <2>5 DEF Host!Accept
  <2> QED BY <2>6 DEF Host!Next
<1> QED BY <1>2, <1>3 DEF Reload

LEMMA ReloadAgainHost ==
  ASSUME OneHandler, IInv, NEW h \in Handlers, ReloadAgain(h)
  PROVE  [Host!Next]_(Host!config)
<1>1. At(h, "again") /\ UNCHANGED <<disk, torn>> /\ Fails(h)
  BY DEF ReloadAgain, files, flags
<1>2. ~ Writing(h) /\ ~ Writing(h)'
  BY <1>1, StateFacts, FailsPc DEF Writing, At
<1>3. CASE UNCHANGED servers
  BY <1>1, <1>2, <1>3, OutsideStep DEF servers
<1>4. CASE Loads(req[h].on) /\ Load(req[h].on)
  <2>1. Stored = disk /\ Stored' = disk
    BY <1>1, <1>2, StoredIs, StoredIsNext
  <2>2. Served' = disk /\ disk \in {f \in Files : Accepted(f)}
    BY <1>4, StateFacts, LoadServes DEF Load
  <2>3. Host!Adopt
    BY <1>1, <2>1, <2>2 DEF Host!Adopt
  <2> QED BY <2>3 DEF Host!Next
<1> QED BY <1>3, <1>4 DEF ReloadAgain

LEMMA StopOldHost ==
  ASSUME OneHandler, IInv, NEW h \in Handlers, StopOld(h)
  PROVE  [Host!Next]_(Host!config)
<1>1. At(h, "stop") /\ UNCHANGED <<disk, torn>> /\ (Goto(h, "ports") \/ Goto(h, "refused"))
  BY DEF StopOld, files
<1>2. ~ Writing(h) /\ ~ Writing(h)'
  BY <1>1, StateFacts, GotoPc DEF Writing, At
<1>3. CASE UNCHANGED servers
  BY <1>1, <1>2, <1>3, OutsideStep DEF servers
<1>4. CASE running' = [running EXCEPT ![req[h].prev] = Stopped]
  <2>1. Stored' = Stored
    BY <1>1, <1>2, StoredIs, StoredIsNext
  <2>2. PICK old \in Backends : old = req[h].prev
    BY StateFacts
  <2>3. running'[old] = Stopped /\ \A b \in Backends : b # old => running'[b] = running[b]
    BY <1>4, <2>2, StateFacts
  <2>4. OneUp'
    BY <2>3, StateFacts DEF OneUp, Up
  <2>5. CASE \E b \in Backends : b # old /\ Up(b)
    <3>1. PICK b \in Backends : b # old /\ Up(b)
      BY <2>5
    <3>2. Up(b)' /\ running'[b] = running[b]
      BY <2>3, <3>1 DEF Up
    <3>3. Served' = Served
      BY <2>4, <3>1, <3>2, StateFacts, ServedIs, ServedIsNext
    <3> QED BY <1>1, <2>1, <3>3 DEF Host!config
  <2>6. CASE ~ \E b \in Backends : b # old /\ Up(b)
    <3>1. \A b \in Backends : ~ Up(b)'
      BY <2>3, <2>6 DEF Up
    <3>2. Served' = Stopped
      BY <3>1, ServedIsNext
    <3>3. Host!Darken
      BY <1>1, <2>1, <3>2 DEF Host!Darken
    <3> QED BY <3>3 DEF Host!Next
  <2> QED BY <2>5, <2>6
<1> QED BY <1>3, <1>4 DEF StopOld

LEMMA FallBackHost ==
  ASSUME OneHandler, IInv, NEW h \in Handlers, FallBack(h)
  PROVE  [Host!Next]_(Host!config)
<1>1. At(h, "fallback") /\ UNCHANGED <<disk, torn>> /\ Goto(h, "refused")
  BY DEF FallBack, files
<1>2. ~ Writing(h) /\ ~ Writing(h)'
  BY <1>1, StateFacts, GotoPc DEF Writing, At
<1>3. CASE running' = running
  BY <1>1, <1>2, <1>3, OutsideStep
<1>4. CASE CanStart(req[h].prev) /\ ~ Up(req[h].prev) /\ running' = [running EXCEPT ![req[h].prev] = disk]
  <2>1. Stored = disk /\ Stored' = disk
    BY <1>1, <1>2, StoredIs, StoredIsNext
  <2>2. Served' = disk /\ disk \in {f \in Files : Accepted(f)}
    BY <1>4, StateFacts, LoadServes DEF Loads
  <2>3. Host!Adopt
    BY <1>1, <2>1, <2>2 DEF Host!Adopt
  <2> QED BY <2>3 DEF Host!Next
<1>5. running' = running
      \/ (CanStart(req[h].prev) /\ ~ Up(req[h].prev) /\ running' = [running EXCEPT ![req[h].prev] = disk])
  BY DEF FallBack, servers
<1> QED BY <1>3, <1>4, <1>5

(* What is up after a restart was up before, or has been started from the  *)
(* disk.                                                                   *)
LEMMA RestartHost ==
  ASSUME IInv, Restarted, Served' \in {Served, Stopped} \cup ({disk} \cap {f \in Files : Accepted(f)})
  PROVE  [Host!Next]_(Host!config)
<1>1. disk' = disk /\ disk \in Files /\ torn \in BOOLEAN /\ \A h \in Handlers : ~ Writing(h)'
  <2>1. \A h \in Handlers : req'[h].pc = "idle"
    BY DEF Restarted, NoRequest
  <2> QED BY <2>1, StateFacts DEF Restarted, Typed, files, Writing
<1>2. Stored' = disk
  BY <1>1 DEF Stored
<1>3. CASE \E h \in Handlers : Writing(h)
  <2>1. torn' = TRUE
    BY <1>3 DEF Restarted
  <2>2. Host!Tear
    BY <1>1, <1>2, <2>1 DEF Host!Tear
  <2> QED BY <2>2 DEF Host!Next
<1>4. CASE ~ \E h \in Handlers : Writing(h)
  <2>1. Stored = disk /\ torn' = torn
    BY <1>1, <1>4 DEF Stored, Restarted
  <2>2. CASE Served' = Served
    BY <1>2, <2>1, <2>2 DEF Host!config
  <2>3. CASE Served' = Stopped
    BY <1>2, <2>1, <2>3 DEF Host!Darken, Host!Next
  <2>4. CASE Served' \in {disk} \cap {f \in Files : Accepted(f)}
    BY <1>2, <2>1, <2>4 DEF Host!Adopt, Host!Next
  <2> QED BY <2>2, <2>3, <2>4
<1> QED BY <1>3, <1>4

LEMMA RestartsHost ==
  ASSUME IInv, AgentRestart \/ Reboot
  PROVE  [Host!Next]_(Host!config)
<1>1. PICK was \in [Backends -> Files \cup {Stopped}] :
        /\ Reconcile(was) /\ \A a, b \in Backends : was[a] # Stopped /\ was[b] # Stopped => a = b
        /\ was = running \/ \A b \in Backends : was[b] # Stopped => was[b] = disk /\ Accepted(disk)
  <2>1. CASE AgentRestart
    BY <2>1, StateFacts DEF AgentRestart, OneUp, Up
  <2>2. CASE Reboot
    <3>1. PICK was \in [Backends -> {disk, Stopped}] : Boots(was) /\ Reconcile(was)
      BY <2>2 DEF Reboot
    <3>2. /\ was \in [Backends -> Files \cup {Stopped}]
          /\ \A a, b \in Backends : was[a] # Stopped /\ was[b] # Stopped => a = b
          /\ \A b \in Backends : was[b] # Stopped => was[b] = disk /\ Accepted(disk)
      BY <3>1, StateFacts DEF Boots
    <3> QED BY <3>1, <3>2
  <2> QED BY <2>1, <2>2
<1>2. Restarted /\ disk \in Files /\ \A b \in Backends : running'[b] \in {was[b], Stopped}
  BY <1>1, StateFacts, ReconcileFacts DEF AgentRestart, Reboot
<1>3. OneUp'
  BY <1>1, <1>2 DEF OneUp, Up
<1>4. CASE \A b \in Backends : ~ Up(b)'
  <2>1. Served' = Stopped
    BY <1>4, ServedIsNext
  <2> QED BY <1>2, <2>1, RestartHost
<1>5. ASSUME NEW b \in Backends, Up(b)' PROVE [Host!Next]_(Host!config)
  <2>1. Served' = was[b] /\ was[b] # Stopped
    BY <1>2, <1>3, <1>5, ServedIsNext DEF Up
  <2>2. CASE was = running
    <3>1. Served' = Served
      BY <2>1, <2>2, StateFacts, ServedIs DEF Up
    <3> QED BY <1>2, <3>1, RestartHost
  <2>3. CASE was[b] = disk /\ Accepted(disk)
    BY <1>2, <2>1, <2>3, RestartHost
  <2> QED BY <1>1, <2>1, <2>2, <2>3
<1> QED BY <1>4, <1>5

LEMMA NextHost ==
  ASSUME OneHandler, IInv, [Next]_vars
  PROVE  [Host!Next]_(Host!config)
<1>1. ASSUME NEW h \in Handlers, Step(h) PROVE [Host!Next]_(Host!config)
  BY <1>1, BeginHost, OutsideHost, WriteHost, RestoreMainHost, RestoreVhostsHost, ReloadHost, ReloadAgainHost,
     StopOldHost, FallBackHost DEF Step
<1>2. CASE UNCHANGED vars
  <2>1. UNCHANGED <<disk, backup, running, req, torn>>
    BY <1>2 DEF vars, files, servers, flags
  <2>2. Stored' = Stored
    BY <2>1 DEF Stored, Writing
  <2> QED BY <2>1, <2>2, StoredStep
<1> QED BY <1>1, <1>2, RestartsHost DEF Next

LEMMA InitHost == Init => Host!Init
<1> SUFFICES ASSUME Init PROVE Host!Init
  OBVIOUS
<1>1. \A h \in Handlers : ~ Writing(h)
  BY DEF Init, NoRequest, Writing
<1>2. Stored = Whole(FirstPage)
  BY <1>1 DEF Init, Stored
<1>3. Served = Whole(FirstPage)
  <2>1. FirstBackend \in Backends /\ running[FirstBackend] = Whole(FirstPage)
    BY FirstAssumption DEF Init
  <2>2. OneUp
    BY DEF Init, OneUp, Up
  <2>3. Up(FirstBackend)
    BY <2>1, FirstFacts DEF Up
  <2> QED BY <2>1, <2>2, <2>3, ServedIs
<1>4. torn = FALSE
  BY DEF Init
<1> QED BY <1>2, <1>3, <1>4, FirstFacts DEF Host!Init

(* Actions one after the other, whatever fails and restarts: what the      *)
(* agent does in six steps and their undoing is the atomic Apply that      *)
(* webserver.go promises; a change that was interrupted, and nothing else, *)
(* leaves the disk torn.                                                   *)
THEOREM ApplyRefinesHost ==
  ASSUME OneHandler
  PROVE  Spec => ApplyIsAtomic
<1>1. IInv /\ [Next]_vars => [Host!Next]_(Host!config)
  BY NextHost
<1> QED BY <1>1, InitHost, Invariance, PTL DEF Spec, ApplyIsAtomic, Host!Spec

(* So what the host answers with was accepted by httpd -t, and unless a    *)
(* change was interrupted it is what the disk holds, or nothing.           *)
THEOREM HostStaysSound ==
  ASSUME OneHandler
  PROVE  Spec => [](Host!TypeOK /\ Host!Sound)
BY ApplyRefinesHost, HostIsSound, PTL DEF ApplyIsAtomic
-----------------------------------------------------------------------------
(* The packet filter. *)

OneCaller == \A g, h \in Callers : g = h

(* Which steps belong to which operations, and what each is about.         *)
InStep(q) ==
  /\ q.pc # "idle" => q.op \in Wall!AllOps
  /\ q.op \in {"add", "delete"} => q.rule \in Rules
  /\ q.op \in {"subscribe", "refresh", "unsubscribe"} => q.source \in Sources
  /\ q.pc \in {"insert", "unwind"} => q.op = "add"
  /\ q.pc \in {"find", "delete"} => q.op = "delete"
  /\ q.pc \in {"source", "fetch", "entries"} => q.op \in {"subscribe", "refresh"}
  /\ q.pc = "forget" => q.op = "unsubscribe"
  /\ q.op = "confirm" => q.pc \in Wall!Resting \cup {"confirm", "keep"}
  /\ q.pc \in {"confirm", "keep"} => q.op = "confirm"

Steady(q) == q.pc \in Wall!Resting \cup {"insert", "find", "delete", "source", "fetch", "entries",
                                    "forget", "confirm", "keep"}

Unloaded == {"rules", "blocked", "write", "check", "arm", "rename", "unwind"}

(* The script under way is the one the tables give, and has been checked   *)
(* before it is a file.                                                    *)
OnItsWay(q) ==
  /\ q.pc = "blocked" => q.script = rules
  /\ q.pc \in {"write", "check", "arm", "rename", "load"} => q.script = Wall!Rendered
  /\ q.pc \in {"check", "arm", "rename"} => tmp = q.script
  /\ q.pc \in {"arm", "rename"} => Wall!Accepted(tmp)
  /\ q.pc = "load" => file = q.script /\ Wall!Accepted(file)

(* A rule is new when it is entered, and gone when its request failed.     *)
NewRule(q) ==
  /\ q.pc = "insert" => q.rule \notin rules
  /\ q.op = "add" /\ q.pc = "failed" /\ q.live => q.rule \notin rules

(* Unless something failed, kernel and file are what the tables give, or   *)
(* gave before the rule was entered that is not loaded yet.                *)
Agree(q) ==
  ~ excused =>
    /\ Steady(q) => loaded = Wall!Rendered /\ file = Wall!Rendered
    /\ q.op = "add" /\ q.pc \in Unloaded =>
         LET before == (rules \ {q.rule}) \cup Wall!Blocked IN loaded = before /\ file = before

(* From the file that is loaded first on, there is a good one to go back   *)
(* to, unless it could not be kept, and a timer between the arming and the *)
(* answer.                                                                 *)
Guarded(q) ==
  FirstFile # None /\ ~ unarmed =>
    /\ q.pc \in {"check", "arm", "rename", "load", "restore", "disarm"} => lastGood # None
    /\ q.pc \in {"rename", "load", "restore"} /\ q.op \in {"add", "delete"} => timer
    /\ q.pc = "disarm" => loaded \in vouched \cup {None}

GoodFile ==
  FirstFile # None =>
    /\ file # None
    /\ ~ unarmed => /\ lastGood \in vouched \cup {None}
                    /\ lastGood = None => file \in vouched /\ ~ timer

LoneInv ==
  /\ Wall!FileLoads /\ Wall!ProvisionalIsWatched /\ GoodFile
  /\ \A h \in Callers :
       OnItsWay(calls[h]) /\ NewRule(calls[h]) /\ Agree(calls[h]) /\ Guarded(calls[h])

FInv ==
  /\ Wall!TypeOK
  /\ \A h \in Callers : InStep(calls[h])
  /\ OneCaller => LoneInv
-----------------------------------------------------------------------------
(* What a script is made of. *)

(* The instance brings its own name for it. *)
LEMMA SameCardinality == \A S : Wall!Cardinality(S) = Cardinality(S)
BY DEF Wall!Cardinality, Cardinality

LEMMA ScriptTypes ==
  ASSUME Wall!ConstantsFit, Wall!TypeOK
  PROVE  Wall!Blocked \subseteq Addresses /\ Wall!Rendered \in Wall!Scripts /\ {} \in Wall!Feeds
<1>1. Cardinality({}) = 0
  BY FS_EmptySet
<1>2. {} \in Wall!Feeds
  BY <1>1, SameCardinality DEF Wall!Feeds, Wall!ConstantsFit
<1>3. Wall!Blocked \subseteq Addresses
  BY DEF Wall!Blocked, Wall!TypeOK, Wall!Feeds
<1> QED BY <1>2, <1>3 DEF Wall!Rendered, Wall!Scripts, Wall!TypeOK

LEMMA SameTables ==
  ASSUME UNCHANGED Wall!tables
  PROVE  Wall!Blocked' = Wall!Blocked /\ Wall!Rendered' = Wall!Rendered /\ rules' = rules /\ sources' = sources
BY DEF Wall!tables, Wall!Blocked, Wall!Rendered

(* A step of a request that is only a step. *)
LEMMA GotoFields ==
  ASSUME Wall!TypeOK, NEW h \in Callers, NEW pc \in Wall!Resting \cup Wall!Asking \cup Wall!Working, Wall!Goto(h, pc)
  PROVE  /\ calls' \in [Callers -> Wall!Request] /\ \A g \in Callers \ {h} : calls'[g] = calls[g]
         /\ calls'[h].pc = pc /\ calls'[h].op = calls[h].op /\ calls'[h].rule = calls[h].rule
         /\ calls'[h].source = calls[h].source /\ calls'[h].feed = calls[h].feed
         /\ calls'[h].script = calls[h].script /\ calls'[h].live = calls[h].live
<1>1. calls[h] \in Wall!Request
  BY DEF Wall!TypeOK
<1>2. PICK r : r = [calls[h] EXCEPT !.pc = pc]
  OBVIOUS
<1>3. /\ r \in Wall!Request /\ r.pc = pc /\ r.op = calls[h].op /\ r.rule = calls[h].rule /\ r.live = calls[h].live
      /\ r.source = calls[h].source /\ r.feed = calls[h].feed /\ r.script = calls[h].script
  BY <1>1, <1>2 DEF Wall!Request
<1>4. calls' = [calls EXCEPT ![h] = r]
  BY <1>2 DEF Wall!Goto
<1> QED BY <1>3, <1>4 DEF Wall!TypeOK

LEMMA FailureSteps ==
  ASSUME NEW r
  PROVE  /\ Wall!AfterFailure(r) \in {"unwind", "done", "failed"}
         /\ Wall!AfterFailure(r) = "unwind" <=> r.live /\ r.op = "add"
         /\ r.live /\ r.op = "add" => Wall!AfterFailure(r) = "unwind"
BY DEF Wall!AfterFailure

HostTypes ==
  /\ rules \subseteq Rules
  /\ sources \in [Sources -> {None} \cup Wall!Feeds]
  /\ {file, tmp, lastGood, loaded} \subseteq {None} \cup Wall!Scripts
  /\ timer \in BOOLEAN /\ vouched \subseteq Wall!Scripts
  /\ excused \in BOOLEAN /\ unarmed \in BOOLEAN
  /\ asked \in 0 .. MaxCalls /\ failures \in 0 .. MaxFailures /\ boots \in 0 .. MaxBoots

Parts(q) == OnItsWay(q) /\ NewRule(q) /\ Agree(q) /\ Guarded(q)

Alone == Wall!FileLoads /\ Wall!ProvisionalIsWatched /\ GoodFile

LEMMA InvParts ==
  ASSUME FInv, NEW h \in Callers
  PROVE  /\ Wall!TypeOK /\ HostTypes /\ calls[h] \in Wall!Request /\ InStep(calls[h])
         /\ OneCaller => Alone /\ Parts(calls[h]) /\ \A g \in Callers : g = h
BY DEF FInv, HostTypes, Wall!TypeOK, LoneInv, Alone, Parts, OneCaller

(* One request has stepped. *)
LEMMA FilterStepKeeps ==
  ASSUME FInv, NEW h \in Callers, HostTypes',
         calls' \in [Callers -> Wall!Request], \A g \in Callers \ {h} : calls'[g] = calls[g],
         InStep(calls'[h]), OneCaller => Alone' /\ Parts(calls[h])'
  PROVE  FInv'
<1>1. Wall!TypeOK'
  BY DEF Wall!TypeOK, HostTypes
<1>2. \A g \in Callers : InStep(calls[g])'
  BY DEF FInv, InStep
<1>3. OneCaller => LoneInv'
  BY DEF OneCaller, LoneInv, Alone, Parts
<1> QED BY <1>1, <1>2, <1>3 DEF FInv

LEMMA BoundsKept ==
  ASSUME Wall!ConstantsFit, HostTypes, Wall!NoFault \/ Wall!Fault
  PROVE  /\ asked' \in 0 .. MaxCalls /\ failures' \in 0 .. MaxFailures /\ boots' \in 0 .. MaxBoots
BY DEF Wall!ConstantsFit, HostTypes, Wall!NoFault, Wall!Fault
-----------------------------------------------------------------------------
(* In the panel. *)

(* What the host keeps while the panel works: nobody is confirming.        *)
LEMMA HostKept ==
  ASSUME FInv, NEW h \in Callers, UNCHANGED <<Wall!host, vouched, unarmed>>,
         calls[h].pc # "keep", OneCaller
  PROVE  Alone'
<1>1. \A g \in Callers : ~ Wall!At(g, "keep")
  BY DEF Wall!At, OneCaller
<1>2. Alone
  BY InvParts
<1> QED BY <1>1, <1>2 DEF Alone, Wall!FileLoads, Wall!ProvisionalIsWatched, GoodFile, Wall!host,
           Wall!Accepted

LEMMA CreateRuleKeeps ==
  ASSUME Wall!ConstantsFit, FInv, NEW h \in Callers, Wall!CreateRule(h)
  PROVE  FInv'
<1>1. /\ calls[h].pc = "insert" /\ calls[h].op = "add" /\ calls[h].rule \in Rules
      /\ HostTypes /\ Wall!TypeOK /\ InStep(calls[h])
  BY InvParts DEF Wall!CreateRule, Wall!Running, Wall!At, InStep
<1>2. /\ Wall!Goto(h, "rules") /\ rules' = rules \cup {calls[h].rule} /\ Wall!NoFault
      /\ UNCHANGED <<sources, Wall!host, Wall!flags>>
  BY DEF Wall!CreateRule
<1>3. /\ calls' \in [Callers -> Wall!Request] /\ \A g \in Callers \ {h} : calls'[g] = calls[g]
      /\ calls'[h].pc = "rules" /\ calls'[h].op = "add" /\ calls'[h].rule = calls[h].rule
  BY <1>1, <1>2, GotoFields DEF Wall!Asking
<1>4. HostTypes'
  BY <1>1, <1>2, BoundsKept DEF HostTypes, Wall!host, Wall!flags
<1>5. InStep(calls'[h])
  BY <1>1, <1>3 DEF InStep, Wall!Resting, Wall!AllOps
<1>6. ASSUME OneCaller PROVE Alone' /\ Parts(calls[h])'
  <2>1. Alone'
    BY <1>1, <1>2, <1>6, HostKept DEF Wall!flags
  <2>2. NewRule(calls[h]) /\ Agree(calls[h])
    BY <1>6, InvParts DEF Parts
  <2>3. Wall!Blocked' = Wall!Blocked
    BY <1>2 DEF Wall!Blocked
  <2>4. (rules' \ {calls[h].rule}) = rules
    BY <1>1, <1>2, <2>2 DEF NewRule
  <2>5. Agree(calls[h])'
    BY <1>1, <1>2, <1>3, <2>2, <2>3, <2>4 DEF Agree, Steady, Unloaded, Wall!Resting, Wall!Rendered,
       Wall!host, Wall!flags
  <2>6. OnItsWay(calls[h])' /\ NewRule(calls[h])' /\ Guarded(calls[h])'
    BY <1>3 DEF OnItsWay, NewRule, Guarded
  <2> QED BY <2>1, <2>5, <2>6 DEF Parts
<1> QED BY <1>3, <1>4, <1>5, <1>6, FilterStepKeeps

LEMMA TableRowKeeps ==
  ASSUME Wall!ConstantsFit, FInv, NEW h \in Callers, Wall!DeleteRule(h) \/ Wall!DeleteSource(h)
  PROVE  FInv'
<1>1. /\ calls[h].pc \in {"delete", "forget"} /\ calls[h].op \in {"delete", "unsubscribe"}
      /\ HostTypes /\ Wall!TypeOK /\ InStep(calls[h])
  BY InvParts DEF Wall!DeleteRule, Wall!DeleteSource, Wall!Running, Wall!At, InStep
<1>2. /\ Wall!Goto(h, "rules") /\ Wall!NoFault /\ UNCHANGED <<Wall!host, Wall!flags>>
      /\ rules' \in {rules, rules \ {calls[h].rule}}
      /\ sources' \in {sources, [sources EXCEPT ![calls[h].source] = None]}
  BY DEF Wall!DeleteRule, Wall!DeleteSource
<1>3. /\ calls' \in [Callers -> Wall!Request] /\ \A g \in Callers \ {h} : calls'[g] = calls[g]
      /\ calls'[h].pc = "rules" /\ calls'[h].op = calls[h].op
      /\ calls'[h].rule = calls[h].rule /\ calls'[h].source = calls[h].source
  BY <1>1, <1>2, GotoFields DEF Wall!Asking
<1>4. HostTypes'
  BY <1>1, <1>2, BoundsKept DEF HostTypes, Wall!host, Wall!flags
<1>5. InStep(calls'[h])
  BY <1>1, <1>3 DEF InStep, Wall!Resting, Wall!AllOps
<1>6. ASSUME OneCaller PROVE Alone' /\ Parts(calls[h])'
  <2>1. Alone'
    BY <1>1, <1>2, <1>6, HostKept DEF Wall!flags
  <2>2. OnItsWay(calls[h])' /\ NewRule(calls[h])' /\ Guarded(calls[h])' /\ Agree(calls[h])'
    BY <1>1, <1>3 DEF OnItsWay, NewRule, Guarded, Agree, Steady, Unloaded, Wall!Resting
  <2> QED BY <2>1, <2>2 DEF Parts
<1> QED BY <1>3, <1>4, <1>5, <1>6, FilterStepKeeps

(* A step that leaves the tables and the host alone. *)
LEMMA QuietStepKeeps ==
  ASSUME Wall!ConstantsFit, FInv, NEW h \in Callers, UNCHANGED <<Wall!tables, Wall!host, vouched, unarmed>>, Wall!NoFault,
         excused' \in BOOLEAN, excused => excused', calls[h].pc # "keep",
         calls' \in [Callers -> Wall!Request], \A g \in Callers \ {h} : calls'[g] = calls[g],
         InStep(calls'[h]), OneCaller => Parts(calls[h])'
  PROVE  FInv'
<1>1. HostTypes
  BY InvParts
<1>2. HostTypes'
  BY <1>1, BoundsKept DEF HostTypes, Wall!tables, Wall!host
<1>3. OneCaller => Alone'
  BY HostKept
<1> QED BY <1>2, <1>3, FilterStepKeeps

LEMMA FindRuleKeeps ==
  ASSUME Wall!ConstantsFit, FInv, NEW h \in Callers, Wall!FindRule(h)
  PROVE  FInv'
<1> DEFINE pc == IF calls[h].rule \in rules THEN "delete" ELSE "failed"
<1>1. /\ calls[h].pc = "find" /\ calls[h].op = "delete" /\ Wall!TypeOK /\ InStep(calls[h])
  BY InvParts DEF Wall!FindRule, Wall!Running, Wall!At, InStep
<1>2. Wall!Goto(h, pc) /\ Wall!NoFault /\ UNCHANGED <<Wall!tables, Wall!host, Wall!flags>>
  BY DEF Wall!FindRule
<1>3. /\ calls' \in [Callers -> Wall!Request] /\ \A g \in Callers \ {h} : calls'[g] = calls[g]
      /\ calls'[h].pc \in {"delete", "failed"} /\ calls'[h].op = "delete"
      /\ calls'[h].rule = calls[h].rule /\ calls'[h].source = calls[h].source
  BY <1>1, <1>2, GotoFields DEF Wall!Asking, Wall!Resting
<1>5. InStep(calls'[h])
  BY <1>1, <1>3 DEF InStep, Wall!AllOps
<1>6. ASSUME OneCaller PROVE Parts(calls[h])'
  <2>1. Agree(calls[h])
    BY <1>6, InvParts DEF Parts
  <2>2. Agree(calls[h])'
    BY <1>1, <1>2, <1>3, <2>1, SameTables DEF Agree, Steady, Unloaded, Wall!Resting, Wall!host,
       Wall!flags
  <2>3. OnItsWay(calls[h])' /\ NewRule(calls[h])' /\ Guarded(calls[h])'
    BY <1>3 DEF OnItsWay, NewRule, Guarded
  <2> QED BY <2>2, <2>3 DEF Parts
<1>7. excused' = excused /\ excused \in BOOLEAN
  BY <1>1, <1>2 DEF Wall!flags, Wall!TypeOK
<1> QED BY <1>1, <1>2, <1>3, <1>5, <1>6, <1>7, QuietStepKeeps DEF Wall!flags

LEMMA CreateSourceKeeps ==
  ASSUME Wall!ConstantsFit, FInv, NEW h \in Callers, Wall!CreateSource(h)
  PROVE  FInv'
<1>1. /\ calls[h].pc = "source" /\ calls[h].op \in {"subscribe", "refresh"} /\ calls[h].source \in Sources
      /\ HostTypes /\ Wall!TypeOK /\ InStep(calls[h])
  BY InvParts DEF Wall!CreateSource, Wall!Running, Wall!At, InStep
<1>2. PICK pc \in {"fetch", "failed"} :
        /\ Wall!Goto(h, pc) /\ Wall!NoFault /\ UNCHANGED <<rules, Wall!host, Wall!flags>>
        /\ \/ UNCHANGED sources
           \/ sources[calls[h].source] = None /\ sources' = [sources EXCEPT ![calls[h].source] = {}]
  BY DEF Wall!CreateSource
<1>3. /\ calls' \in [Callers -> Wall!Request] /\ \A g \in Callers \ {h} : calls'[g] = calls[g]
      /\ calls'[h].pc = pc /\ calls'[h].op = calls[h].op
      /\ calls'[h].rule = calls[h].rule /\ calls'[h].source = calls[h].source
  BY <1>1, <1>2, GotoFields DEF Wall!Asking, Wall!Resting
<1>4. HostTypes'
  BY <1>1, <1>2, BoundsKept, ScriptTypes DEF HostTypes, Wall!host, Wall!flags
<1>5. InStep(calls'[h])
  BY <1>1, <1>2, <1>3 DEF InStep, Wall!Resting, Wall!AllOps
<1>6. ASSUME OneCaller PROVE Alone' /\ Parts(calls[h])'
  <2>1. Alone'
    BY <1>1, <1>2, <1>6, HostKept DEF Wall!flags
  <2>2. Agree(calls[h])
    BY <1>6, InvParts DEF Parts
  <2>3. Wall!Blocked' = Wall!Blocked
    BY <1>1, <1>2 DEF Wall!Blocked, Wall!TypeOK
  <2>4. Agree(calls[h])'
    BY <1>1, <1>2, <1>3, <2>2, <2>3 DEF Agree, Steady, Unloaded, Wall!Resting, Wall!Rendered,
       Wall!host, Wall!flags
  <2>5. OnItsWay(calls[h])' /\ NewRule(calls[h])' /\ Guarded(calls[h])'
    BY <1>1, <1>2, <1>3 DEF OnItsWay, NewRule, Guarded
  <2> QED BY <2>1, <2>4, <2>5 DEF Parts
<1> QED BY <1>3, <1>4, <1>5, <1>6, FilterStepKeeps

LEMMA FetchKeeps ==
  ASSUME Wall!ConstantsFit, FInv, NEW h \in Callers, Wall!Fetch(h)
  PROVE  FInv'
<1>1. /\ calls[h].pc = "fetch" /\ calls[h].op \in {"subscribe", "refresh"} /\ calls[h].source \in Sources
      /\ Wall!TypeOK /\ InStep(calls[h]) /\ calls[h] \in Wall!Request
  BY InvParts DEF Wall!Fetch, Wall!Running, Wall!At, InStep
<1>2. Wall!NoFault /\ UNCHANGED <<Wall!tables, Wall!host, Wall!flags>>
  BY DEF Wall!Fetch
<1>3. /\ calls' \in [Callers -> Wall!Request] /\ \A g \in Callers \ {h} : calls'[g] = calls[g]
      /\ calls'[h].pc \in {"entries", "failed"} /\ calls'[h].op = calls[h].op
      /\ calls'[h].rule = calls[h].rule /\ calls'[h].source = calls[h].source
  <2>1. CASE Wall!Goto(h, "failed")
    BY <1>1, <2>1, GotoFields DEF Wall!Resting
  <2>2. ASSUME NEW f \in Wall!Feeds, calls' = [calls EXCEPT ![h].feed = f, ![h].pc = "entries"]
        PROVE  <1>3
    <3>1. PICK r : r = [calls[h] EXCEPT !.feed = f, !.pc = "entries"]
      OBVIOUS
    <3>2. /\ r \in Wall!Request /\ r.pc = "entries" /\ r.op = calls[h].op /\ r.rule = calls[h].rule
          /\ r.source = calls[h].source
      BY <1>1, <3>1 DEF Wall!Request, Wall!Asking
    <3>3. calls' = [calls EXCEPT ![h] = r]
      BY <1>1, <2>2, <3>1 DEF Wall!TypeOK, Wall!Request
    <3> QED BY <1>1, <3>2, <3>3 DEF Wall!TypeOK
  <2> QED BY <2>1, <2>2 DEF Wall!Fetch
<1>5. InStep(calls'[h])
  BY <1>1, <1>3 DEF InStep, Wall!AllOps
<1>6. ASSUME OneCaller PROVE Parts(calls[h])'
  <2>1. Agree(calls[h])
    BY <1>6, InvParts DEF Parts
  <2>2. Agree(calls[h])'
    BY <1>1, <1>2, <1>3, <2>1, SameTables DEF Agree, Steady, Unloaded, Wall!Resting, Wall!host,
       Wall!flags
  <2>3. OnItsWay(calls[h])' /\ NewRule(calls[h])' /\ Guarded(calls[h])'
    BY <1>1, <1>3 DEF OnItsWay, NewRule, Guarded
  <2> QED BY <2>2, <2>3 DEF Parts
<1>7. excused' = excused /\ excused \in BOOLEAN
  BY <1>1, <1>2 DEF Wall!flags, Wall!TypeOK
<1> QED BY <1>1, <1>2, <1>3, <1>5, <1>6, <1>7, QuietStepKeeps DEF Wall!flags

LEMMA ReplaceEntriesKeeps ==
  ASSUME Wall!ConstantsFit, FInv, NEW h \in Callers, Wall!ReplaceEntries(h)
  PROVE  FInv'
<1>1. /\ calls[h].pc = "entries" /\ calls[h].op \in {"subscribe", "refresh"} /\ calls[h].source \in Sources
      /\ HostTypes /\ Wall!TypeOK /\ InStep(calls[h]) /\ calls[h].feed \in Wall!Feeds
  BY InvParts DEF Wall!ReplaceEntries, Wall!Running, Wall!At, InStep, Wall!Request
<1>2. PICK pc \in {"rules", "failed"} :
        /\ Wall!Goto(h, pc) /\ Wall!NoFault /\ UNCHANGED <<rules, Wall!host, Wall!flags>>
        /\ \/ UNCHANGED sources
           \/ pc = "rules" /\ sources' = [sources EXCEPT ![calls[h].source] = calls[h].feed]
  BY DEF Wall!ReplaceEntries
<1>3. /\ calls' \in [Callers -> Wall!Request] /\ \A g \in Callers \ {h} : calls'[g] = calls[g]
      /\ calls'[h].pc = pc /\ calls'[h].op = calls[h].op
      /\ calls'[h].rule = calls[h].rule /\ calls'[h].source = calls[h].source
  BY <1>1, <1>2, GotoFields DEF Wall!Asking, Wall!Resting
<1>4. HostTypes'
  BY <1>1, <1>2, BoundsKept DEF HostTypes, Wall!host, Wall!flags
<1>5. InStep(calls'[h])
  BY <1>1, <1>2, <1>3 DEF InStep, Wall!Resting, Wall!AllOps
<1>6. ASSUME OneCaller PROVE Alone' /\ Parts(calls[h])'
  <2>1. Alone'
    BY <1>1, <1>2, <1>6, HostKept DEF Wall!flags
  <2>2. Agree(calls[h])
    BY <1>6, InvParts DEF Parts
  <2>4. Agree(calls[h])'
    <3>1. CASE pc = "rules"
      BY <1>1, <1>3, <3>1 DEF Agree, Steady, Unloaded, Wall!Resting
    <3>2. CASE pc = "failed"
      <4>1. UNCHANGED Wall!tables
        BY <1>2, <3>2 DEF Wall!tables
      <4> QED BY <1>1, <1>2, <1>3, <2>2, <3>2, <4>1, SameTables
                 DEF Agree, Steady, Unloaded, Wall!Resting, Wall!host, Wall!flags
    <3> QED BY <3>1, <3>2
  <2>5. OnItsWay(calls[h])' /\ NewRule(calls[h])' /\ Guarded(calls[h])'
    BY <1>1, <1>2, <1>3 DEF OnItsWay, NewRule, Guarded
  <2> QED BY <2>1, <2>4, <2>5 DEF Parts
<1> QED BY <1>3, <1>4, <1>5, <1>6, FilterStepKeeps

(* What a request does of an Apply that failed. *)
LEMMA FailureFields ==
  ASSUME FInv, NEW h \in Callers, Wall!ApplyFails(h), calls[h].pc \in Wall!Asking \cup Wall!Working,
         calls[h].op # "confirm", calls[h].pc \in Unloaded, UNCHANGED <<rules, sources>>,
         OneCaller => file' = file /\ loaded' = loaded
  PROVE  /\ calls' \in [Callers -> Wall!Request] /\ \A g \in Callers \ {h} : calls'[g] = calls[g]
         /\ calls'[h].pc \in {"unwind", "done", "failed"} /\ InStep(calls'[h])
         /\ excused' \in BOOLEAN /\ (excused => excused')
         /\ OneCaller => Parts(calls[h])'
<1> DEFINE pc == Wall!AfterFailure(calls[h])
<1>1. Wall!TypeOK /\ InStep(calls[h]) /\ calls[h] \in Wall!Request
  BY InvParts
<1>2. /\ Wall!Goto(h, pc) /\ excused' = (excused \/ pc # "unwind") /\ pc \in {"unwind", "done", "failed"}
      /\ pc = "unwind" <=> calls[h].live /\ calls[h].op = "add"
  BY FailureSteps DEF Wall!ApplyFails
<1> HIDE DEF pc
<1>3. /\ calls' \in [Callers -> Wall!Request] /\ \A g \in Callers \ {h} : calls'[g] = calls[g]
      /\ calls'[h].pc = pc /\ calls'[h].op = calls[h].op /\ calls'[h].live = calls[h].live
      /\ calls'[h].rule = calls[h].rule /\ calls'[h].source = calls[h].source
  BY <1>1, <1>2, GotoFields DEF Wall!Asking, Wall!Resting
<1>4. InStep(calls'[h])
  BY <1>1, <1>2, <1>3 DEF InStep, Unloaded, Wall!Resting
<1>5. excused' \in BOOLEAN /\ (excused => excused')
  BY <1>1, <1>2 DEF Wall!TypeOK
<1>6. ASSUME OneCaller PROVE Parts(calls[h])'
  <2>1. Agree(calls[h])
    BY <1>6, InvParts DEF Parts
  <2>2. Agree(calls[h])'
    <3>1. CASE pc = "unwind"
      <4>1. Wall!Blocked' = Wall!Blocked
        BY DEF Wall!Blocked
      <4>2. excused' = excused
        BY <1>1, <1>2, <3>1 DEF Wall!TypeOK
      <4> QED BY <1>2, <1>3, <1>6, <2>1, <3>1, <4>1, <4>2 DEF Agree, Steady, Unloaded, Wall!Resting
    <3>2. CASE pc # "unwind"
      BY <1>2, <1>3, <3>2 DEF Agree
    <3> QED BY <3>1, <3>2
  <2>3. OnItsWay(calls[h])' /\ NewRule(calls[h])' /\ Guarded(calls[h])'
    BY <1>2, <1>3 DEF OnItsWay, NewRule, Guarded
  <2> QED BY <2>2, <2>3 DEF Parts
<1> QED BY <1>2, <1>3, <1>4, <1>5, <1>6

LEMMA ReadRulesKeeps ==
  ASSUME Wall!ConstantsFit, FInv, NEW h \in Callers, Wall!ReadRules(h)
  PROVE  FInv'
<1>1. calls[h].pc = "rules" /\ Wall!TypeOK /\ InStep(calls[h]) /\ calls[h] \in Wall!Request
  BY InvParts DEF Wall!ReadRules, Wall!Running, Wall!At
<1>2. /\ Wall!NoFault /\ UNCHANGED <<Wall!tables, Wall!host, Wall!flags>>
      /\ calls' = [calls EXCEPT ![h].script = rules, ![h].pc = "blocked"]
  BY DEF Wall!ReadRules
<1>3. /\ calls' \in [Callers -> Wall!Request] /\ \A g \in Callers \ {h} : calls'[g] = calls[g]
      /\ calls'[h].pc = "blocked" /\ calls'[h].op = calls[h].op /\ calls'[h].script = rules
      /\ calls'[h].rule = calls[h].rule /\ calls'[h].source = calls[h].source
  <2>1. PICK r : r = [calls[h] EXCEPT !.script = rules, !.pc = "blocked"]
    OBVIOUS
  <2>2. rules \in Wall!Scripts
    BY <1>1 DEF Wall!TypeOK, Wall!Scripts
  <2>3. /\ r \in Wall!Request /\ r.pc = "blocked" /\ r.op = calls[h].op /\ r.rule = calls[h].rule
        /\ r.source = calls[h].source /\ r.script = rules
    BY <1>1, <2>1, <2>2 DEF Wall!Request, Wall!Asking
  <2>4. calls' = [calls EXCEPT ![h] = r]
    BY <1>1, <1>2, <2>1 DEF Wall!TypeOK, Wall!Request
  <2> QED BY <1>1, <2>3, <2>4 DEF Wall!TypeOK
<1>5. InStep(calls'[h])
  BY <1>1, <1>3 DEF InStep, Wall!Resting
<1>6. ASSUME OneCaller PROVE Parts(calls[h])'
  <2>1. Agree(calls[h])
    BY <1>6, InvParts DEF Parts
  <2>2. Agree(calls[h])'
    BY <1>1, <1>2, <1>3, <2>1, SameTables DEF Agree, Steady, Unloaded, Wall!Resting, Wall!host,
       Wall!flags
  <2>3. OnItsWay(calls[h])' /\ NewRule(calls[h])' /\ Guarded(calls[h])'
    BY <1>2, <1>3, SameTables DEF OnItsWay, NewRule, Guarded
  <2> QED BY <2>2, <2>3 DEF Parts
<1>7. excused' = excused /\ excused \in BOOLEAN
  BY <1>1, <1>2 DEF Wall!flags, Wall!TypeOK
<1> QED BY <1>1, <1>2, <1>3, <1>5, <1>6, <1>7, QuietStepKeeps DEF Wall!flags

LEMMA RenderKeeps ==
  ASSUME Wall!ConstantsFit, FInv, NEW h \in Callers, Wall!Render(h)
  PROVE  FInv'
<1>1. /\ calls[h].pc = "blocked" /\ Wall!TypeOK /\ InStep(calls[h]) /\ calls[h] \in Wall!Request
      /\ calls[h].op # "confirm"
  BY InvParts DEF Wall!Render, Wall!Running, Wall!At, InStep, Wall!Resting
<1>2. Wall!NoFault /\ UNCHANGED <<Wall!tables, Wall!host, vouched, unarmed>>
  BY DEF Wall!Render
<1>3. CASE Wall!ApplyFails(h)
  <2>1. UNCHANGED <<rules, sources, file, loaded>>
    BY <1>2 DEF Wall!tables, Wall!host
  <2>2. calls[h].pc \in Unloaded /\ calls[h].pc \in Wall!Asking \cup Wall!Working /\ calls[h].pc # "keep"
    BY <1>1 DEF Wall!Asking, Unloaded
  <2>3. /\ calls' \in [Callers -> Wall!Request] /\ \A g \in Callers \ {h} : calls'[g] = calls[g]
        /\ InStep(calls'[h]) /\ excused' \in BOOLEAN /\ (excused => excused')
        /\ OneCaller => Parts(calls[h])'
    BY <1>1, <1>3, <2>1, <2>2, FailureFields
  <2> QED BY <1>2, <2>2, <2>3, QuietStepKeeps
<1>4. CASE calls' = [calls EXCEPT ![h].script = calls[h].script \cup Wall!Blocked, ![h].pc = "write"] /\ UNCHANGED excused
  <2>1. PICK r : r = [calls[h] EXCEPT !.script = calls[h].script \cup Wall!Blocked, !.pc = "write"]
    OBVIOUS
  <2>2. calls[h].script \cup Wall!Blocked \in Wall!Scripts
    BY <1>1, ScriptTypes DEF Wall!Scripts, Wall!Request
  <2>3. /\ r \in Wall!Request /\ r.pc = "write" /\ r.op = calls[h].op /\ r.rule = calls[h].rule
        /\ r.source = calls[h].source /\ r.script = calls[h].script \cup Wall!Blocked
    BY <1>1, <2>1, <2>2 DEF Wall!Request, Wall!Working
  <2>4. calls' = [calls EXCEPT ![h] = r]
    BY <1>1, <1>4, <2>1 DEF Wall!TypeOK, Wall!Request
  <2>5. /\ calls' \in [Callers -> Wall!Request] /\ \A g \in Callers \ {h} : calls'[g] = calls[g]
        /\ calls'[h] = r
    BY <1>1, <2>3, <2>4 DEF Wall!TypeOK
  <2>6. InStep(calls'[h])
    BY <1>1, <2>3, <2>5 DEF InStep, Wall!Resting
  <2>7. ASSUME OneCaller PROVE Parts(calls[h])'
    <3>1. Agree(calls[h]) /\ OnItsWay(calls[h])
      BY <2>7, InvParts DEF Parts
    <3>2. Agree(calls[h])'
      BY <1>1, <1>2, <1>4, <2>3, <2>5, <3>1, SameTables DEF Agree, Steady, Unloaded, Wall!Resting,
         Wall!host
    <3>3. OnItsWay(calls[h])' /\ NewRule(calls[h])' /\ Guarded(calls[h])'
      BY <1>1, <1>2, <2>3, <2>5, <3>1, SameTables DEF OnItsWay, NewRule, Guarded, Wall!Rendered
    <3> QED BY <3>2, <3>3 DEF Parts
  <2>8. excused' = excused /\ excused \in BOOLEAN
    BY <1>1, <1>4 DEF Wall!TypeOK
  <2> QED BY <1>1, <1>2, <2>5, <2>6, <2>7, <2>8, QuietStepKeeps
<1> QED BY <1>3, <1>4 DEF Wall!Render

LEMMA UnwindKeeps ==
  ASSUME Wall!ConstantsFit, FInv, NEW h \in Callers, Wall!Unwind(h)
  PROVE  FInv'
<1>1. /\ calls[h].pc = "unwind" /\ calls[h].op = "add"
      /\ HostTypes /\ Wall!TypeOK /\ InStep(calls[h])
  BY InvParts DEF Wall!Unwind, Wall!Running, Wall!At, InStep
<1>2. /\ Wall!Goto(h, "failed") /\ rules' = rules \ {calls[h].rule} /\ Wall!NoFault
      /\ UNCHANGED <<sources, Wall!host, Wall!flags>>
  BY DEF Wall!Unwind
<1>3. /\ calls' \in [Callers -> Wall!Request] /\ \A g \in Callers \ {h} : calls'[g] = calls[g]
      /\ calls'[h].pc = "failed" /\ calls'[h].op = "add" /\ calls'[h].rule = calls[h].rule
  BY <1>1, <1>2, GotoFields DEF Wall!Resting
<1>4. HostTypes'
  BY <1>1, <1>2, BoundsKept DEF HostTypes, Wall!host, Wall!flags
<1>5. InStep(calls'[h])
  BY <1>1, <1>3 DEF InStep, Wall!Resting, Wall!AllOps
<1>6. ASSUME OneCaller PROVE Alone' /\ Parts(calls[h])'
  <2>1. Alone'
    BY <1>1, <1>2, <1>6, HostKept DEF Wall!flags
  <2>2. Agree(calls[h])
    BY <1>6, InvParts DEF Parts
  <2>3. Wall!Blocked' = Wall!Blocked
    BY <1>2 DEF Wall!Blocked
  <2>5. Agree(calls[h])'
    BY <1>1, <1>2, <1>3, <2>2, <2>3 DEF Agree, Steady, Unloaded, Wall!Resting, Wall!Rendered,
       Wall!host, Wall!flags
  <2>6. OnItsWay(calls[h])' /\ NewRule(calls[h])' /\ Guarded(calls[h])'
    BY <1>2, <1>3 DEF OnItsWay, NewRule, Guarded
  <2> QED BY <2>1, <2>5, <2>6 DEF Parts
<1> QED BY <1>3, <1>4, <1>5, <1>6, FilterStepKeeps

LEMMA CancelKeeps ==
  ASSUME Wall!ConstantsFit, FInv, NEW h \in Callers, Wall!Cancel(h)
  PROVE  FInv'
<1>1. /\ calls[h].pc \notin Wall!Resting /\ HostTypes /\ Wall!TypeOK /\ InStep(calls[h]) /\ calls[h] \in Wall!Request
  BY InvParts DEF Wall!Cancel
<1>2. /\ Wall!NoFault /\ UNCHANGED <<Wall!tables, Wall!host, Wall!flags>> /\ calls' = [calls EXCEPT ![h].live = FALSE]
  BY DEF Wall!Cancel
<1>3. /\ calls' \in [Callers -> Wall!Request] /\ \A g \in Callers \ {h} : calls'[g] = calls[g]
      /\ calls'[h].pc = calls[h].pc /\ calls'[h].op = calls[h].op /\ calls'[h].script = calls[h].script
      /\ calls'[h].rule = calls[h].rule /\ calls'[h].source = calls[h].source
  <2>1. PICK r : r = [calls[h] EXCEPT !.live = FALSE]
    OBVIOUS
  <2>2. /\ r \in Wall!Request /\ r.pc = calls[h].pc /\ r.op = calls[h].op /\ r.rule = calls[h].rule
        /\ r.source = calls[h].source /\ r.script = calls[h].script
    BY <1>1, <2>1 DEF Wall!Request
  <2>3. calls' = [calls EXCEPT ![h] = r]
    BY <1>2, <2>1
  <2> QED BY <1>1, <2>2, <2>3 DEF Wall!TypeOK
<1>4. HostTypes'
  BY <1>1, <1>2, BoundsKept DEF HostTypes, Wall!tables, Wall!host, Wall!flags
<1>5. InStep(calls'[h])
  BY <1>1, <1>3 DEF InStep
<1>6. ASSUME OneCaller PROVE Alone' /\ Parts(calls[h])'
  <2>1. Parts(calls[h]) /\ Alone
    BY <1>6, InvParts
  <2>2. \A g \in Callers : Wall!At(g, "keep")' <=> Wall!At(g, "keep")
    BY <1>3 DEF Wall!At
  <2>3. Alone'
    BY <1>2, <2>1, <2>2 DEF Alone, Wall!FileLoads, Wall!ProvisionalIsWatched, GoodFile, Wall!host,
       Wall!flags, Wall!Accepted
  <2>4. Agree(calls[h])'
    BY <1>1, <1>2, <1>3, <2>1, SameTables DEF Parts, Agree, Steady, Wall!host, Wall!flags
  <2>5. OnItsWay(calls[h])'
    BY <1>1, <1>2, <1>3, <2>1, SameTables DEF Parts, OnItsWay, Wall!Accepted, Wall!host
  <2>6. NewRule(calls[h])' /\ Guarded(calls[h])'
    BY <1>1, <1>2, <1>3, <2>1, SameTables DEF Parts, NewRule, Guarded, Wall!host, Wall!flags,
       Wall!Resting
  <2> QED BY <2>3, <2>4, <2>5, <2>6 DEF Parts
<1> QED BY <1>3, <1>4, <1>5, <1>6, FilterStepKeeps

LEMMA InterruptedKeeps ==
  ASSUME Wall!ConstantsFit, FInv, NEW h \in Callers, Wall!Interrupted(h)
  PROVE  FInv'
<1>1. /\ calls[h].pc \in Wall!Asking /\ ~ calls[h].live /\ Wall!TypeOK /\ InStep(calls[h])
  BY InvParts DEF Wall!Interrupted
<1>2. /\ Wall!Goto(h, "failed") /\ Wall!NoFault /\ UNCHANGED <<Wall!tables, Wall!host, vouched, unarmed>> /\ excused' = TRUE
  BY DEF Wall!Interrupted
<1>3. /\ calls' \in [Callers -> Wall!Request] /\ \A g \in Callers \ {h} : calls'[g] = calls[g]
      /\ calls'[h].pc = "failed" /\ calls'[h].op = calls[h].op /\ ~ calls'[h].live
      /\ calls'[h].rule = calls[h].rule /\ calls'[h].source = calls[h].source
  BY <1>1, <1>2, GotoFields DEF Wall!Resting
<1>4. InStep(calls'[h])
  BY <1>1, <1>3 DEF InStep, Wall!Resting, Wall!Asking
<1>5. Parts(calls[h])'
  BY <1>2, <1>3 DEF Parts, OnItsWay, NewRule, Agree, Guarded
<1> QED BY <1>1, <1>2, <1>3, <1>4, <1>5, QuietStepKeeps DEF Wall!Asking
-----------------------------------------------------------------------------
(* In the agent. *)

LEMMA WriteTmpKeeps ==
  ASSUME Wall!ConstantsFit, FInv, NEW h \in Callers, Wall!WriteTmp(h)
  PROVE  FInv'
<1>1. /\ calls[h].pc = "write" /\ HostTypes /\ Wall!TypeOK /\ InStep(calls[h]) /\ calls[h].script \in Wall!Scripts
  BY InvParts DEF Wall!WriteTmp, Wall!At, Wall!Request
<1>2. /\ Wall!Goto(h, "check") /\ (Wall!NoFault \/ Wall!Fault)
      /\ UNCHANGED <<Wall!tables, file, loaded, timer, vouched, excused>> /\ tmp' = calls[h].script
      /\ \/ lastGood' = (IF lastGood = None THEN file ELSE lastGood) /\ unarmed' = unarmed
         \/ lastGood' = lastGood /\ unarmed' = TRUE
  BY DEF Wall!WriteTmp
<1>3. /\ calls' \in [Callers -> Wall!Request] /\ \A g \in Callers \ {h} : calls'[g] = calls[g]
      /\ calls'[h].pc = "check" /\ calls'[h].op = calls[h].op /\ calls'[h].script = calls[h].script
      /\ calls'[h].rule = calls[h].rule /\ calls'[h].source = calls[h].source
  BY <1>1, <1>2, GotoFields DEF Wall!Working
<1>4. HostTypes'
  BY <1>1, <1>2, BoundsKept DEF HostTypes, Wall!tables
<1>5. InStep(calls'[h])
  BY <1>1, <1>3 DEF InStep, Wall!Resting
<1>6. ASSUME OneCaller PROVE Alone' /\ Parts(calls[h])'
  <2>1. Parts(calls[h]) /\ Alone /\ \A g \in Callers : g = h
    BY <1>6, InvParts
  <2>2. Wall!FileLoads' /\ Wall!ProvisionalIsWatched'
    BY <1>1, <1>2, <1>3, <2>1 DEF Alone, Wall!FileLoads, Wall!ProvisionalIsWatched, Wall!Accepted,
       Wall!At
  <2>3. GoodFile'
    BY <1>2, <2>1 DEF Alone, GoodFile
  <2>4. Agree(calls[h])'
    BY <1>1, <1>2, <1>3, <2>1, SameTables DEF Parts, Agree, Steady, Unloaded, Wall!Resting
  <2>5. OnItsWay(calls[h])' /\ NewRule(calls[h])'
    BY <1>1, <1>2, <1>3, <2>1, SameTables DEF Parts, OnItsWay, NewRule
  <2>6. Guarded(calls[h])'
    BY <1>2, <1>3, <2>1, <2>3 DEF Guarded, GoodFile, Alone
  <2> QED BY <2>2, <2>3, <2>4, <2>5, <2>6 DEF Parts, Alone
<1> QED BY <1>3, <1>4, <1>5, <1>6, FilterStepKeeps

LEMMA CheckKeeps ==
  ASSUME Wall!ConstantsFit, FInv, NEW h \in Callers, Wall!Check(h)
  PROVE  FInv'
<1>1. /\ calls[h].pc = "check" /\ HostTypes /\ Wall!TypeOK /\ InStep(calls[h])
      /\ calls[h].op # "confirm" /\ calls[h].op \in Wall!AllOps
  BY InvParts DEF Wall!Check, Wall!At, InStep, Wall!Resting
<1>2. UNCHANGED <<Wall!tables, file, lastGood, loaded, timer, vouched, unarmed>> /\ (Wall!NoFault \/ Wall!Fault)
  BY DEF Wall!Check
<1>3. OneCaller => Alone'
  <2>1. ASSUME OneCaller PROVE \A g \in Callers : ~ Wall!At(g, "keep")
    BY <1>1, <2>1 DEF Wall!At, OneCaller
  <2> QED BY <1>2, <2>1, InvParts DEF Alone, Wall!FileLoads, Wall!ProvisionalIsWatched, GoodFile,
             Wall!Accepted
<1>4. CASE Wall!ApplyFails(h) /\ tmp' = None
  <2>1. UNCHANGED <<rules, sources>> /\ file' = file /\ loaded' = loaded
    BY <1>2 DEF Wall!tables
  <2>2. calls[h].pc \in Unloaded /\ calls[h].pc \in Wall!Asking \cup Wall!Working
    BY <1>1 DEF Wall!Working, Unloaded
  <2>3. /\ calls' \in [Callers -> Wall!Request] /\ \A g \in Callers \ {h} : calls'[g] = calls[g]
        /\ InStep(calls'[h]) /\ excused' \in BOOLEAN
        /\ OneCaller => Parts(calls[h])'
    BY <1>1, <1>4, <2>1, <2>2, FailureFields
  <2>4. HostTypes'
    BY <1>1, <1>2, <1>4, <2>3, BoundsKept DEF HostTypes, Wall!tables
  <2> QED BY <1>3, <2>3, <2>4, FilterStepKeeps
<1>5. CASE /\ Wall!Accepted(tmp) /\ Wall!NoFault /\ UNCHANGED <<tmp, excused>>
           /\ Wall!Goto(h, IF Wall!Confirmed(h) THEN "rename" ELSE "arm")
  <2>1. PICK pc \in {"rename", "arm"} : Wall!Goto(h, pc) /\ (pc = "rename" => Wall!Confirmed(h))
    BY <1>5
  <2>3. /\ calls' \in [Callers -> Wall!Request] /\ \A g \in Callers \ {h} : calls'[g] = calls[g]
        /\ calls'[h].pc = pc /\ calls'[h].op = calls[h].op /\ calls'[h].script = calls[h].script
        /\ calls'[h].rule = calls[h].rule /\ calls'[h].source = calls[h].source
    BY <1>1, <2>1, GotoFields DEF Wall!Working
  <2>4. HostTypes'
    BY <1>1, <1>2, <1>5, BoundsKept DEF HostTypes, Wall!tables
  <2>5. InStep(calls'[h])
    BY <1>1, <2>1, <2>3 DEF InStep, Wall!Resting
  <2>6. ASSUME OneCaller PROVE Parts(calls[h])'
    <3>1. Parts(calls[h])
      BY <2>6, InvParts
    <3>2. Agree(calls[h])'
      BY <1>1, <1>2, <1>5, <2>1, <2>3, <3>1, SameTables DEF Parts, Agree, Steady, Unloaded,
         Wall!Resting
    <3>3. OnItsWay(calls[h])' /\ NewRule(calls[h])'
      BY <1>1, <1>2, <1>5, <2>1, <2>3, <3>1, SameTables DEF Parts, OnItsWay, NewRule, Wall!Accepted
    <3>4. Guarded(calls[h])'
      BY <1>1, <1>2, <2>1, <2>3, <3>1 DEF Parts, Guarded, Wall!Confirmed
    <3> QED BY <3>2, <3>3, <3>4 DEF Parts
  <2> QED BY <1>3, <2>3, <2>4, <2>5, <2>6, FilterStepKeeps
<1> QED BY <1>4, <1>5 DEF Wall!Check

LEMMA ArmRollbackKeeps ==
  ASSUME Wall!ConstantsFit, FInv, NEW h \in Callers, Wall!ArmRollback(h)
  PROVE  FInv'
<1>1. calls[h].pc = "arm" /\ HostTypes /\ Wall!TypeOK /\ InStep(calls[h])
  BY InvParts DEF Wall!ArmRollback, Wall!At
<1>2. /\ Wall!Goto(h, "rename") /\ UNCHANGED <<Wall!tables, file, tmp, lastGood, loaded, vouched, excused>>
      /\ timer' \in BOOLEAN /\ unarmed' \in BOOLEAN /\ (unarmed => unarmed')
      /\ (~ unarmed' => timer') /\ (Wall!NoFault \/ Wall!Fault)
  BY <1>1 DEF Wall!ArmRollback, Wall!TypeOK
<1>3. /\ calls' \in [Callers -> Wall!Request] /\ \A g \in Callers \ {h} : calls'[g] = calls[g]
      /\ calls'[h].pc = "rename" /\ calls'[h].op = calls[h].op /\ calls'[h].script = calls[h].script
      /\ calls'[h].rule = calls[h].rule /\ calls'[h].source = calls[h].source
  BY <1>1, <1>2, GotoFields DEF Wall!Working
<1>4. HostTypes'
  BY <1>1, <1>2, BoundsKept DEF HostTypes, Wall!tables
<1>5. InStep(calls'[h])
  BY <1>1, <1>3 DEF InStep, Wall!Resting
<1>6. ASSUME OneCaller PROVE Alone' /\ Parts(calls[h])'
  <2>1. Parts(calls[h]) /\ Alone
    BY <1>6, InvParts
  <2>2. Alone'
    BY <1>1, <1>2, <2>1 DEF Parts, Guarded, Alone, Wall!FileLoads, Wall!ProvisionalIsWatched,
       GoodFile, Wall!Accepted
  <2>4. Agree(calls[h])'
    BY <1>1, <1>2, <1>3, <2>1, SameTables DEF Parts, Agree, Steady, Unloaded, Wall!Resting
  <2>5. OnItsWay(calls[h])' /\ NewRule(calls[h])'
    BY <1>1, <1>2, <1>3, <2>1, SameTables DEF Parts, OnItsWay, NewRule, Wall!Accepted
  <2>6. Guarded(calls[h])'
    BY <1>1, <1>2, <1>3, <2>1 DEF Parts, Guarded
  <2> QED BY <2>2, <2>4, <2>5, <2>6 DEF Parts
<1> QED BY <1>3, <1>4, <1>5, <1>6, FilterStepKeeps

LEMMA RenameKeeps ==
  ASSUME Wall!ConstantsFit, FInv, NEW h \in Callers, Wall!Rename(h)
  PROVE  FInv'
<1>1. /\ calls[h].pc = "rename" /\ HostTypes /\ Wall!TypeOK /\ InStep(calls[h])
      /\ calls[h].op # "confirm" /\ calls[h].op \in Wall!AllOps
  BY InvParts DEF Wall!Rename, Wall!At, InStep, Wall!Resting
<1>2. UNCHANGED <<Wall!tables, lastGood, loaded, timer, vouched, unarmed>> /\ (Wall!NoFault \/ Wall!Fault)
  BY DEF Wall!Rename
<1>3. ASSUME OneCaller PROVE /\ \A g \in Callers : g = h
                             /\ Alone /\ Parts(calls[h])
  BY <1>3, InvParts
<1>4. CASE Wall!ApplyFails(h) /\ tmp' = None /\ UNCHANGED file
  <2>1. UNCHANGED <<rules, sources>> /\ file' = file /\ loaded' = loaded
    BY <1>2, <1>4 DEF Wall!tables
  <2>2. calls[h].pc \in Unloaded /\ calls[h].pc \in Wall!Asking \cup Wall!Working
    BY <1>1 DEF Wall!Working, Unloaded
  <2>3. /\ calls' \in [Callers -> Wall!Request] /\ \A g \in Callers \ {h} : calls'[g] = calls[g]
        /\ InStep(calls'[h]) /\ excused' \in BOOLEAN
        /\ OneCaller => Parts(calls[h])'
    BY <1>1, <1>4, <2>1, <2>2, FailureFields
  <2>4. HostTypes'
    BY <1>1, <1>2, <1>4, <2>3, BoundsKept DEF HostTypes, Wall!tables
  <2>5. ASSUME OneCaller PROVE Alone'
    <3>1. \A g \in Callers : ~ Wall!At(g, "keep")
      BY <1>1, <1>3, <2>5 DEF Wall!At
    <3> QED BY <1>2, <1>3, <2>1, <2>5, <3>1 DEF Alone, Wall!FileLoads, Wall!ProvisionalIsWatched,
               GoodFile, Wall!Accepted
  <2> QED BY <2>3, <2>4, <2>5, FilterStepKeeps
<1>5. CASE tmp # None /\ Wall!NoFault /\ file' = tmp /\ tmp' = None /\ Wall!Goto(h, "load") /\ UNCHANGED excused
  <2>3. /\ calls' \in [Callers -> Wall!Request] /\ \A g \in Callers \ {h} : calls'[g] = calls[g]
        /\ calls'[h].pc = "load" /\ calls'[h].op = calls[h].op /\ calls'[h].script = calls[h].script
        /\ calls'[h].rule = calls[h].rule /\ calls'[h].source = calls[h].source
    BY <1>1, <1>5, GotoFields DEF Wall!Working
  <2>4. HostTypes'
    BY <1>1, <1>2, <1>5, BoundsKept DEF HostTypes, Wall!tables
  <2>5. InStep(calls'[h])
    BY <1>1, <2>3 DEF InStep, Wall!Resting
  <2>6. ASSUME OneCaller PROVE Alone' /\ Parts(calls[h])'
    <3>1. /\ tmp = calls[h].script /\ Wall!Accepted(tmp) /\ calls[h].script = Wall!Rendered
          /\ FirstFile # None /\ ~ unarmed => lastGood # None
      BY <1>1, <1>3, <2>6 DEF Parts, OnItsWay, Guarded
    <3>2. \A g \in Callers : ~ Wall!At(g, "keep")
      BY <1>1, <1>3, <2>6 DEF Wall!At
    <3>3. Wall!FileLoads' /\ Wall!ProvisionalIsWatched' /\ GoodFile'
      BY <1>2, <1>3, <1>5, <2>6, <3>1, <3>2 DEF Alone, Wall!FileLoads, Wall!ProvisionalIsWatched,
         GoodFile, Wall!Accepted
    <3>4. OnItsWay(calls[h])' /\ NewRule(calls[h])'
      BY <1>2, <1>5, <2>3, <3>1, SameTables DEF OnItsWay, NewRule, Wall!Accepted
    <3>5. Agree(calls[h])' /\ Guarded(calls[h])'
      BY <1>1, <1>2, <1>3, <2>3, <2>6, <3>1 DEF Parts, Agree, Guarded, Steady, Unloaded,
         Wall!Resting
    <3> QED BY <3>3, <3>4, <3>5 DEF Alone, Parts
  <2> QED BY <2>3, <2>4, <2>5, <2>6, FilterStepKeeps
<1> QED BY <1>4, <1>5 DEF Wall!Rename

LEMMA LoadKeeps ==
  ASSUME Wall!ConstantsFit, FInv, NEW h \in Callers, Wall!Load(h)
  PROVE  FInv'
<1>1. /\ calls[h].pc = "load" /\ HostTypes /\ Wall!TypeOK /\ InStep(calls[h])
      /\ calls[h].op # "confirm" /\ calls[h].op \in Wall!AllOps /\ calls[h].script \in Wall!Scripts
  BY InvParts DEF Wall!Load, Wall!At, InStep, Wall!Resting, Wall!Request
<1>2. UNCHANGED <<Wall!tables, file, tmp, timer, unarmed>> /\ (Wall!NoFault \/ Wall!Fault)
  BY DEF Wall!Load
<1>3. PICK pc \in {"done", "restore", "unwind", "failed"} : Wall!Goto(h, pc)
  BY FailureSteps DEF Wall!Load
<1>4. /\ loaded' \in {loaded, file} /\ excused' \in {excused, TRUE, FALSE}
      /\ lastGood' \in {lastGood, calls[h].script}
      /\ vouched' \in {vouched, vouched \cup {calls[h].script}}
  BY DEF Wall!Load
<1>5. /\ calls' \in [Callers -> Wall!Request] /\ \A g \in Callers \ {h} : calls'[g] = calls[g]
      /\ calls'[h].pc = pc /\ calls'[h].op = calls[h].op /\ calls'[h].script = calls[h].script
      /\ calls'[h].rule = calls[h].rule /\ calls'[h].source = calls[h].source /\ calls'[h].live = calls[h].live
  BY <1>1, <1>3, GotoFields DEF Wall!Working, Wall!Asking, Wall!Resting
<1>6. HostTypes'
  BY <1>1, <1>2, <1>4, BoundsKept DEF HostTypes, Wall!tables
<1>7. pc = "unwind" => calls[h].op = "add"
  <2>1. Wall!Goto(h, "done") \/ Wall!Goto(h, "restore") \/ Wall!Goto(h, Wall!AfterFailure(calls[h]))
    BY DEF Wall!Load
  <2>2. CASE pc = "unwind"
    <3>1. Wall!Goto(h, Wall!AfterFailure(calls[h])) => Wall!AfterFailure(calls[h]) = pc
      BY <1>1, <1>5, GotoFields, FailureSteps DEF Wall!Working, Wall!Asking, Wall!Resting
    <3>2. ~ Wall!Goto(h, "done") /\ ~ Wall!Goto(h, "restore")
      BY <1>1, <1>5, <2>2, GotoFields DEF Wall!Working, Wall!Resting
    <3> QED BY <2>1, <2>2, <3>1, <3>2, FailureSteps
  <2> QED BY <2>2
<1>8. InStep(calls'[h])
  BY <1>1, <1>5, <1>7 DEF InStep, Wall!Resting
<1>9. ASSUME OneCaller PROVE Alone' /\ Parts(calls[h])'
  <2>1. Parts(calls[h]) /\ Alone /\ \A g \in Callers : g = h
    BY <1>9, InvParts
  <2>2. /\ file = calls[h].script /\ calls[h].script = Wall!Rendered /\ Wall!Accepted(file)
        /\ (FirstFile # None /\ ~ unarmed => lastGood # None)
        /\ (FirstFile # None /\ ~ unarmed /\ ~ Wall!Confirmed(h) => timer)
    BY <1>1, <2>1 DEF Parts, OnItsWay, Guarded, Wall!Confirmed, Wall!AllOps
  <2>3. \A g \in Callers : ~ Wall!At(g, "keep")
    BY <1>1, <2>1 DEF Wall!At
  <2>4. CASE /\ loaded' = file /\ excused' = FALSE /\ Wall!Goto(h, "done")
             /\ vouched' = (IF Wall!Confirmed(h) THEN vouched \cup {calls[h].script} ELSE vouched)
             /\ lastGood' = lastGood \/ (Wall!Confirmed(h) /\ lastGood' = calls[h].script)
    <3>1. calls'[h].pc = "done"
      BY <1>1, <2>4, GotoFields DEF Wall!Resting
    <3>2. Wall!FileLoads' /\ Wall!ProvisionalIsWatched' /\ GoodFile'
      BY <1>1, <1>2, <2>1, <2>2, <2>4 DEF Alone, Wall!FileLoads, Wall!ProvisionalIsWatched,
         GoodFile, Wall!Accepted
    <3>3. OnItsWay(calls[h])' /\ NewRule(calls[h])' /\ Guarded(calls[h])'
      BY <3>1 DEF OnItsWay, NewRule, Guarded
    <3>4. Agree(calls[h])'
      BY <1>2, <2>2, <2>4, <3>1, SameTables DEF Agree, Unloaded
    <3> QED BY <3>2, <3>3, <3>4 DEF Alone, Parts
  <2>5. CASE Wall!Goto(h, "restore") /\ UNCHANGED <<loaded, excused, lastGood, vouched>>
    <3>1. calls'[h].pc = "restore"
      BY <1>1, <2>5, GotoFields DEF Wall!Working
    <3>2. Wall!FileLoads' /\ Wall!ProvisionalIsWatched' /\ GoodFile'
      BY <1>1, <1>2, <2>1, <2>3, <2>5 DEF Alone, Wall!FileLoads, Wall!ProvisionalIsWatched,
         GoodFile, Wall!Accepted
    <3>3. OnItsWay(calls[h])' /\ NewRule(calls[h])' /\ Agree(calls[h])'
      BY <3>1 DEF OnItsWay, NewRule, Agree, Unloaded, Steady, Wall!Resting
    <3>4. Guarded(calls[h])'
      BY <1>1, <1>2, <1>5, <2>1, <2>5, <3>1 DEF Parts, Guarded
    <3> QED BY <3>2, <3>3, <3>4 DEF Alone, Parts
  <2>6. CASE /\ loaded' \in {loaded, file} /\ excused' = TRUE /\ Wall!Goto(h, Wall!AfterFailure(calls[h]))
             /\ vouched' = (IF Wall!Confirmed(h) THEN vouched \cup {calls[h].script} ELSE vouched)
             /\ UNCHANGED lastGood
    <3>1. /\ calls'[h].pc \in {"unwind", "failed", "done"}
          /\ (calls'[h].pc = "failed" => ~ (calls[h].op = "add" /\ calls[h].live))
      BY <1>1, <2>6, GotoFields, FailureSteps DEF Wall!Resting, Wall!Asking
    <3>2. Wall!FileLoads' /\ Wall!ProvisionalIsWatched' /\ GoodFile'
      BY <1>1, <1>2, <2>1, <2>2, <2>3, <2>6 DEF Alone, Wall!FileLoads, Wall!ProvisionalIsWatched,
         GoodFile, Wall!Accepted
    <3>3. OnItsWay(calls[h])' /\ NewRule(calls[h])' /\ Guarded(calls[h])'
      BY <1>5, <3>1 DEF OnItsWay, NewRule, Guarded
    <3>4. Agree(calls[h])'
      BY <2>6 DEF Agree
    <3> QED BY <3>2, <3>3, <3>4 DEF Alone, Parts
  <2> QED BY <2>4, <2>5, <2>6 DEF Wall!Load
<1> QED BY <1>5, <1>6, <1>8, <1>9, FilterStepKeeps

LEMMA RestoreLastGoodKeeps ==
  ASSUME Wall!ConstantsFit, FInv, NEW h \in Callers, Wall!RestoreLastGood(h)
  PROVE  FInv'
<1>1. calls[h].pc = "restore" /\ HostTypes /\ Wall!TypeOK /\ InStep(calls[h])
  BY InvParts DEF Wall!RestoreLastGood, Wall!At
<1>2. /\ Wall!Goto(h, "disarm") /\ UNCHANGED <<Wall!tables, file, tmp, lastGood, timer, vouched, excused>>
      /\ (Wall!NoFault \/ Wall!Fault) /\ unarmed' \in BOOLEAN /\ loaded' \in {loaded, lastGood}
      /\ (~ unarmed' => ~ unarmed /\ (lastGood # None => loaded' = lastGood))
  BY <1>1 DEF Wall!RestoreLastGood, Wall!TypeOK
<1>3. /\ calls' \in [Callers -> Wall!Request] /\ \A g \in Callers \ {h} : calls'[g] = calls[g]
      /\ calls'[h].pc = "disarm" /\ calls'[h].op = calls[h].op
      /\ calls'[h].rule = calls[h].rule /\ calls'[h].source = calls[h].source
  BY <1>1, <1>2, GotoFields DEF Wall!Working
<1>4. HostTypes'
  BY <1>1, <1>2, BoundsKept DEF HostTypes, Wall!tables
<1>5. InStep(calls'[h])
  BY <1>1, <1>3 DEF InStep, Wall!Resting
<1>6. ASSUME OneCaller PROVE Alone' /\ Parts(calls[h])'
  <2>1. Parts(calls[h]) /\ Alone
    BY <1>6, InvParts
  <2>2. FirstFile # None /\ ~ unarmed => lastGood # None /\ lastGood \in vouched
    BY <1>1, <2>1 DEF Parts, Guarded, Alone, GoodFile
  <2>3. Wall!FileLoads' /\ Wall!ProvisionalIsWatched' /\ GoodFile'
    BY <1>2, <2>1, <2>2 DEF Alone, Wall!FileLoads, Wall!ProvisionalIsWatched, GoodFile,
       Wall!Accepted
  <2>4. OnItsWay(calls[h])' /\ NewRule(calls[h])' /\ Agree(calls[h])'
    BY <1>3 DEF OnItsWay, NewRule, Agree, Unloaded, Steady, Wall!Resting
  <2>5. Guarded(calls[h])'
    BY <1>2, <1>3, <2>2 DEF Guarded
  <2> QED BY <2>3, <2>4, <2>5 DEF Parts, Alone
<1> QED BY <1>3, <1>4, <1>5, <1>6, FilterStepKeeps

LEMMA CancelRollbackKeeps ==
  ASSUME Wall!ConstantsFit, FInv, NEW h \in Callers, Wall!CancelRollback(h)
  PROVE  FInv'
<1>1. /\ calls[h].pc = "disarm" /\ HostTypes /\ Wall!TypeOK /\ InStep(calls[h])
      /\ calls[h].op # "confirm" /\ calls[h].op \in Wall!AllOps
  BY InvParts DEF Wall!CancelRollback, Wall!At, InStep, Wall!Resting
<1>2. /\ UNCHANGED <<Wall!tables, file, tmp, lastGood, loaded, vouched, unarmed>>
      /\ excused' = TRUE /\ timer' \in {timer, FALSE} /\ (Wall!NoFault \/ Wall!Fault)
      /\ Wall!Goto(h, Wall!AfterFailure(calls[h]))
  BY DEF Wall!CancelRollback
<1>3. /\ calls' \in [Callers -> Wall!Request] /\ \A g \in Callers \ {h} : calls'[g] = calls[g]
      /\ calls'[h].pc = Wall!AfterFailure(calls[h]) /\ calls'[h].op = calls[h].op
      /\ calls'[h].rule = calls[h].rule /\ calls'[h].source = calls[h].source /\ calls'[h].live = calls[h].live
  BY <1>1, <1>2, GotoFields, FailureSteps DEF Wall!Asking, Wall!Resting
<1>4. HostTypes'
  BY <1>1, <1>2, BoundsKept DEF HostTypes, Wall!tables
<1>5. InStep(calls'[h])
  BY <1>1, <1>3, FailureSteps DEF InStep, Wall!Resting
<1>6. ASSUME OneCaller PROVE Alone' /\ Parts(calls[h])'
  <2>1. Parts(calls[h]) /\ Alone
    BY <1>6, InvParts
  <2>2. FirstFile # None /\ ~ unarmed => loaded \in vouched \cup {None}
    BY <1>1, <2>1 DEF Parts, Guarded
  <2>3. Wall!FileLoads' /\ Wall!ProvisionalIsWatched' /\ GoodFile'
    <3>1. timer' => timer
      BY <1>1, <1>2 DEF HostTypes
    <3> QED BY <1>2, <2>1, <2>2, <3>1 DEF Alone, Wall!FileLoads, Wall!ProvisionalIsWatched,
               GoodFile, Wall!Accepted
  <2>4. OnItsWay(calls[h])' /\ NewRule(calls[h])' /\ Guarded(calls[h])'
    BY <1>3, FailureSteps DEF OnItsWay, NewRule, Guarded
  <2>5. Agree(calls[h])'
    BY <1>2 DEF Agree
  <2> QED BY <2>3, <2>4, <2>5 DEF Parts, Alone
<1> QED BY <1>3, <1>4, <1>5, <1>6, FilterStepKeeps

(* From here on somebody is confirming what is loaded. *)
LEMMA ConfirmKeeps ==
  ASSUME Wall!ConstantsFit, FInv, NEW h \in Callers, Wall!Confirm(h)
  PROVE  FInv'
<1>1. calls[h].pc = "confirm" /\ HostTypes /\ Wall!TypeOK /\ InStep(calls[h])
  BY InvParts DEF Wall!Confirm, Wall!At
<1>2. /\ Wall!Goto(h, "keep") /\ UNCHANGED <<Wall!tables, file, tmp, lastGood, loaded, Wall!flags>>
      /\ timer' = FALSE /\ Wall!NoFault
  BY DEF Wall!Confirm
<1>3. /\ calls' \in [Callers -> Wall!Request] /\ \A g \in Callers \ {h} : calls'[g] = calls[g]
      /\ calls'[h].pc = "keep" /\ calls'[h].op = calls[h].op
      /\ calls'[h].rule = calls[h].rule /\ calls'[h].source = calls[h].source
  BY <1>1, <1>2, GotoFields DEF Wall!Working
<1>4. HostTypes'
  BY <1>1, <1>2, BoundsKept DEF HostTypes, Wall!tables, Wall!flags
<1>5. InStep(calls'[h])
  BY <1>1, <1>3 DEF InStep, Wall!Resting
<1>6. ASSUME OneCaller PROVE Alone' /\ Parts(calls[h])'
  <2>1. Parts(calls[h]) /\ Alone
    BY <1>6, InvParts
  <2>2. Wall!FileLoads' /\ Wall!ProvisionalIsWatched' /\ GoodFile'
    BY <1>2, <1>3, <2>1 DEF Alone, Wall!FileLoads, Wall!ProvisionalIsWatched, GoodFile,
       Wall!Accepted, Wall!At, Wall!flags
  <2>3. OnItsWay(calls[h])' /\ NewRule(calls[h])' /\ Guarded(calls[h])'
    BY <1>3 DEF OnItsWay, NewRule, Guarded
  <2>4. Agree(calls[h])'
    BY <1>1, <1>2, <1>3, <2>1, SameTables DEF Parts, Agree, Steady, Unloaded, Wall!flags
  <2> QED BY <2>2, <2>3, <2>4 DEF Parts, Alone
<1> QED BY <1>3, <1>4, <1>5, <1>6, FilterStepKeeps

LEMMA KeepFileKeeps ==
  ASSUME Wall!ConstantsFit, FInv, NEW h \in Callers, Wall!KeepFile(h)
  PROVE  FInv'
<1>1. calls[h].pc = "keep" /\ HostTypes /\ Wall!TypeOK /\ InStep(calls[h])
  BY InvParts DEF Wall!KeepFile, Wall!At
<1>2. /\ Wall!Goto(h, "done") /\ UNCHANGED <<Wall!tables, file, tmp, loaded, timer, excused, unarmed>>
      /\ vouched' = vouched \cup Wall!Known(file) \cup Wall!Known(loaded)
      /\ (lastGood' = lastGood \/ (file # None /\ lastGood' = file)) /\ (Wall!NoFault \/ Wall!Fault)
  BY DEF Wall!KeepFile
<1>3. /\ calls' \in [Callers -> Wall!Request] /\ \A g \in Callers \ {h} : calls'[g] = calls[g]
      /\ calls'[h].pc = "done" /\ calls'[h].op = calls[h].op
      /\ calls'[h].rule = calls[h].rule /\ calls'[h].source = calls[h].source
  BY <1>1, <1>2, GotoFields DEF Wall!Resting
<1>4. HostTypes'
  BY <1>1, <1>2, BoundsKept DEF HostTypes, Wall!tables, Wall!Known
<1>5. InStep(calls'[h])
  BY <1>1, <1>3 DEF InStep, Wall!Resting
<1>6. ASSUME OneCaller PROVE Alone' /\ Parts(calls[h])'
  <2>1. Parts(calls[h]) /\ Alone
    BY <1>6, InvParts
  <2>2. Wall!FileLoads' /\ Wall!ProvisionalIsWatched' /\ GoodFile'
    BY <1>2, <2>1 DEF Alone, Wall!FileLoads, Wall!ProvisionalIsWatched, GoodFile, Wall!Accepted,
       Wall!Known
  <2>3. OnItsWay(calls[h])' /\ NewRule(calls[h])' /\ Guarded(calls[h])'
    BY <1>3 DEF OnItsWay, NewRule, Guarded
  <2>4. Agree(calls[h])'
    BY <1>1, <1>2, <1>3, <2>1, SameTables DEF Parts, Agree, Steady, Unloaded
  <2> QED BY <2>2, <2>3, <2>4 DEF Parts, Alone
<1> QED BY <1>3, <1>4, <1>5, <1>6, FilterStepKeeps
-----------------------------------------------------------------------------
(* By themselves, and begun by somebody. *)

LEMMA RollBackKeeps ==
  ASSUME Wall!ConstantsFit, FInv, Wall!RollBack
  PROVE  FInv'
<1>1. HostTypes /\ Wall!TypeOK
  BY DEF FInv, HostTypes, Wall!TypeOK
<1>2. /\ timer /\ timer' = FALSE /\ (Wall!NoFault \/ Wall!Fault)
      /\ UNCHANGED <<Wall!tables, file, tmp, lastGood, vouched, calls>>
      /\ loaded' \in {loaded, lastGood} /\ unarmed' \in BOOLEAN /\ excused' \in BOOLEAN
      /\ (~ excused' => ~ excused /\ loaded' = loaded)
      /\ (~ unarmed' => ~ unarmed /\ (lastGood # None => loaded' = lastGood))
  BY <1>1 DEF Wall!RollBack, HostTypes
<1>3. HostTypes'
  BY <1>1, <1>2, BoundsKept DEF HostTypes, Wall!tables
<1>4. Wall!TypeOK'
  BY <1>1, <1>2, <1>3 DEF Wall!TypeOK, HostTypes
<1>5. \A h \in Callers : InStep(calls[h])'
  BY <1>2 DEF FInv, InStep
<1>6. ASSUME OneCaller PROVE LoneInv'
  <2>1. Alone /\ \A h \in Callers : Parts(calls[h])
    BY <1>6 DEF FInv, LoneInv, Alone, Parts
  <2>2. Wall!FileLoads' /\ Wall!ProvisionalIsWatched' /\ GoodFile'
    BY <1>2, <2>1 DEF Alone, Wall!FileLoads, Wall!ProvisionalIsWatched, GoodFile, Wall!Accepted,
       Wall!At
  <2>3. ASSUME NEW h \in Callers PROVE Parts(calls[h])'
    <3>1. Parts(calls[h])
      BY <2>1
    <3>2. OnItsWay(calls[h])' /\ NewRule(calls[h])'
      BY <1>2, <3>1, SameTables DEF Parts, OnItsWay, NewRule, Wall!Accepted
    <3>3. Agree(calls[h])'
      BY <1>2, <3>1, SameTables DEF Parts, Agree, Steady
    <3>4. ~ (calls[h].pc \in {"rename", "load", "restore"} /\ calls[h].op \in {"add", "delete"})
      BY DEF Wall!RollBack, Wall!Confirmed
    <3>5. Guarded(calls[h])'
      BY <1>2, <2>1, <3>1, <3>4 DEF Parts, Guarded, Alone, GoodFile
    <3> QED BY <3>2, <3>3, <3>5 DEF Parts
  <2> QED BY <2>2, <2>3 DEF LoneInv, Parts
<1> QED BY <1>4, <1>5, <1>6 DEF FInv

(* What is reset at a reboot is what a handler has that did nothing yet. *)
LEMMA NewRequests ==
  ASSUME Wall!ConstantsFit, Wall!TypeOK
  PROVE  Wall!NoRequest \in Wall!Request /\ InStep(Wall!NoRequest)
<1>1. {} \in Wall!Feeds /\ {} \in Wall!Scripts
  BY ScriptTypes DEF Wall!Scripts
<1> QED BY <1>1 DEF Wall!NoRequest, Wall!Request, InStep, Wall!Resting

LEMMA FilterRebootKeeps ==
  ASSUME Wall!ConstantsFit, FInv, Wall!Reboot
  PROVE  FInv'
<1>1. HostTypes /\ Wall!TypeOK
  BY DEF FInv, HostTypes, Wall!TypeOK
<1>2. /\ loaded' = (IF Wall!Accepted(file) THEN file ELSE None)
      /\ timer' = FALSE /\ vouched' = vouched \cup Wall!Known(loaded')
      /\ excused' = (excused \/ loaded' # loaded \/ \E h \in Callers : calls[h].pc \notin Wall!Resting)
      /\ calls' = [h \in Callers |-> Wall!NoRequest]
      /\ UNCHANGED <<Wall!tables, file, tmp, lastGood, unarmed>>
  BY DEF Wall!Reboot
<1>3. asked' \in 0 .. MaxCalls /\ failures' \in 0 .. MaxFailures /\ boots' \in 0 .. MaxBoots
  BY <1>1 DEF Wall!Reboot, HostTypes, Wall!ConstantsFit
<1>4. loaded' \in {None} \cup Wall!Scripts /\ vouched' \subseteq Wall!Scripts /\ excused' \in BOOLEAN
  BY <1>1, <1>2 DEF HostTypes, Wall!Known
<1>5. HostTypes'
  BY <1>1, <1>2, <1>3, <1>4 DEF HostTypes, Wall!tables
<1>6. /\ calls' \in [Callers -> Wall!Request] /\ \A h \in Callers : calls'[h] = Wall!NoRequest
      /\ Wall!NoRequest.pc = "idle" /\ Wall!NoRequest.op = "none"
  BY <1>1, <1>2, NewRequests DEF Wall!NoRequest
<1>7. Wall!TypeOK'
  BY <1>5, <1>6 DEF Wall!TypeOK, HostTypes
<1>8. \A h \in Callers : InStep(calls[h])'
  BY <1>1, <1>6, NewRequests DEF InStep
<1>9. ASSUME OneCaller PROVE LoneInv'
  <2>1. Alone /\ \A h \in Callers : Parts(calls[h])
    BY <1>9 DEF FInv, LoneInv, Alone, Parts
  <2>2. Wall!FileLoads' /\ Wall!ProvisionalIsWatched' /\ GoodFile'
    BY <1>2, <2>1 DEF Alone, Wall!FileLoads, Wall!ProvisionalIsWatched, GoodFile, Wall!Accepted,
       Wall!Known
  <2>3. ASSUME NEW h \in Callers PROVE Parts(calls[h])'
    <3>1. OnItsWay(calls[h])' /\ NewRule(calls[h])' /\ Guarded(calls[h])'
      BY <1>6 DEF OnItsWay, NewRule, Guarded
    <3>2. Agree(calls[h])
      BY <2>1 DEF Parts
    <3>3. Agree(calls[h])'
      BY <1>2, <1>6, <3>2, SameTables DEF Agree, Steady, Unloaded
    <3> QED BY <3>1, <3>3 DEF Parts
  <2> QED BY <2>2, <2>3 DEF LoneInv, Parts
<1> QED BY <1>7, <1>8, <1>9 DEF FInv

LEMMA FilterBeginKeeps ==
  ASSUME Wall!ConstantsFit, FInv, NEW h \in Callers, NEW r \in Wall!Request, Wall!Begin(h, r), InStep(r),
         r.pc \in {"insert", "find", "source", "fetch", "forget", "confirm"},
         r.pc = "insert" => r.rule \notin rules
  PROVE  FInv'
<1>1. calls[h].pc \in Wall!Resting /\ HostTypes /\ Wall!TypeOK
  BY InvParts DEF Wall!Begin
<1>2. /\ calls' = [calls EXCEPT ![h] = r] /\ asked < MaxCalls /\ asked' = asked + 1
      /\ UNCHANGED <<Wall!tables, Wall!host, Wall!flags, failures, boots>>
  BY DEF Wall!Begin
<1>3. calls' \in [Callers -> Wall!Request] /\ calls'[h] = r /\ \A g \in Callers \ {h} : calls'[g] = calls[g]
  BY <1>1, <1>2 DEF Wall!TypeOK
<1>4. HostTypes'
  BY <1>1, <1>2 DEF HostTypes, Wall!tables, Wall!host, Wall!flags, Wall!ConstantsFit
<1>5. ASSUME OneCaller PROVE Alone' /\ Parts(calls[h])'
  <2>1. Alone /\ Parts(calls[h]) /\ \A g \in Callers : g = h
    BY <1>5, InvParts
  <2>2. \A g \in Callers : ~ Wall!At(g, "keep")
    BY <1>1, <2>1 DEF Wall!At, Wall!Resting
  <2>3. Alone'
    BY <1>2, <2>1, <2>2 DEF Alone, Wall!FileLoads, Wall!ProvisionalIsWatched, GoodFile,
       Wall!Accepted, Wall!host, Wall!flags
  <2>4. OnItsWay(calls[h])' /\ Guarded(calls[h])'
    BY <1>3 DEF OnItsWay, Guarded
  <2>5. NewRule(calls[h])'
    BY <1>2, <1>3, SameTables DEF NewRule
  <2>6. Agree(calls[h])'
    BY <1>1, <1>2, <1>3, <2>1, SameTables DEF Parts, Agree, Steady, Unloaded, Wall!host, Wall!flags
  <2> QED BY <2>3, <2>4, <2>5, <2>6 DEF Parts
<1> QED BY <1>3, <1>4, <1>5, FilterStepKeeps

LEMMA BeginRuleKeeps ==
  ASSUME Wall!ConstantsFit, FInv, NEW h \in Callers, Wall!BeginRule(h)
  PROVE  FInv'
<1>1. Wall!NoRequest \in Wall!Request
  BY NewRequests DEF FInv
<1>2. PICK rule \in Rules :
        \/ rule \notin rules /\ Wall!Begin(h, [Wall!NoRequest EXCEPT !.op = "add", !.pc = "insert", !.rule = rule])
        \/ Wall!Begin(h, [Wall!NoRequest EXCEPT !.op = "delete", !.pc = "find", !.rule = rule])
  BY DEF Wall!BeginRule
<1>3. CASE rule \notin rules /\ Wall!Begin(h, [Wall!NoRequest EXCEPT !.op = "add", !.pc = "insert", !.rule = rule])
  <2>1. PICK r : r = [Wall!NoRequest EXCEPT !.op = "add", !.pc = "insert", !.rule = rule]
    OBVIOUS
  <2>2. r \in Wall!Request /\ r.pc = "insert" /\ r.op = "add" /\ r.rule = rule
    BY <1>1, <2>1 DEF Wall!Request, Wall!AllOps, Wall!Asking
  <2>3. InStep(r)
    BY <2>2 DEF InStep, Wall!AllOps, Wall!Resting
  <2> QED BY <1>3, <2>1, <2>2, <2>3, FilterBeginKeeps
<1>4. CASE Wall!Begin(h, [Wall!NoRequest EXCEPT !.op = "delete", !.pc = "find", !.rule = rule])
  <2>1. PICK r : r = [Wall!NoRequest EXCEPT !.op = "delete", !.pc = "find", !.rule = rule]
    OBVIOUS
  <2>2. r \in Wall!Request /\ r.pc = "find" /\ r.op = "delete" /\ r.rule = rule
    BY <1>1, <2>1 DEF Wall!Request, Wall!AllOps, Wall!Asking
  <2>3. InStep(r)
    BY <2>2 DEF InStep, Wall!AllOps, Wall!Resting
  <2> QED BY <1>4, <2>1, <2>2, <2>3, FilterBeginKeeps
<1> QED BY <1>2, <1>3, <1>4

LEMMA BeginSourceKeeps ==
  ASSUME Wall!ConstantsFit, FInv, NEW h \in Callers, Wall!BeginSource(h)
  PROVE  FInv'
<1>1. Wall!NoRequest \in Wall!Request
  BY NewRequests DEF FInv
<1>2. PICK s \in Sources :
        \/ Wall!Begin(h, [Wall!NoRequest EXCEPT !.op = "subscribe", !.pc = "source", !.source = s])
        \/ Wall!Begin(h, [Wall!NoRequest EXCEPT !.op = "refresh", !.pc = "fetch", !.source = s])
        \/ Wall!Begin(h, [Wall!NoRequest EXCEPT !.op = "unsubscribe", !.pc = "forget", !.source = s])
  BY DEF Wall!BeginSource
<1>3. PICK op, pc, r : /\ Wall!Begin(h, r) /\ r = [Wall!NoRequest EXCEPT !.op = op, !.pc = pc, !.source = s]
                       /\ \/ op = "subscribe" /\ pc = "source"
                          \/ op = "refresh" /\ pc = "fetch"
                          \/ op = "unsubscribe" /\ pc = "forget"
  BY <1>2
<1>4. r \in Wall!Request /\ r.pc = pc /\ r.op = op /\ r.source = s
  BY <1>1, <1>3 DEF Wall!Request, Wall!AllOps, Wall!Asking
<1>5. InStep(r)
  BY <1>3, <1>4 DEF InStep, Wall!AllOps, Wall!Resting
<1> QED BY <1>3, <1>4, <1>5, FilterBeginKeeps

LEMMA BeginConfirmKeeps ==
  ASSUME Wall!ConstantsFit, FInv, NEW h \in Callers, Wall!BeginConfirm(h)
  PROVE  FInv'
<1>1. Wall!NoRequest \in Wall!Request
  BY NewRequests DEF FInv
<1>2. PICK r : r = [Wall!NoRequest EXCEPT !.op = "confirm", !.pc = "confirm"]
  OBVIOUS
<1>3. r \in Wall!Request /\ r.pc = "confirm" /\ r.op = "confirm"
  BY <1>1, <1>2 DEF Wall!Request, Wall!AllOps, Wall!Working
<1>4. InStep(r)
  BY <1>3 DEF InStep, Wall!AllOps, Wall!Resting
<1> QED BY <1>2, <1>3, <1>4, FilterBeginKeeps DEF Wall!BeginConfirm
-----------------------------------------------------------------------------
(* All of it. *)

LEMMA InitHolds ==
  ASSUME Wall!ConstantsFit, Wall!Init
  PROVE  FInv
<1>1. /\ rules = {} /\ sources = [s \in Sources |-> None] /\ file = FirstFile /\ loaded = FirstFile
      /\ tmp = None /\ lastGood = None /\ timer = FALSE /\ vouched = Wall!Known(FirstFile)
      /\ excused = (FirstFile = None) /\ unarmed = FALSE /\ calls = [h \in Callers |-> Wall!NoRequest]
      /\ asked = 0 /\ failures = 0 /\ boots = 0
  BY DEF Wall!Init
<1>2. FirstFile \in {{}, None} /\ {} \in Wall!Scripts /\ {} \in Wall!Feeds
  <2>1. Cardinality({}) = 0
    BY FS_EmptySet
  <2> QED BY <2>1, SameCardinality DEF Wall!ConstantsFit, Wall!Scripts, Wall!Feeds
<1>3. Wall!NoRequest \in Wall!Request /\ InStep(Wall!NoRequest)
  BY <1>2 DEF Wall!NoRequest, Wall!Request, InStep, Wall!Resting
<1>4. Wall!TypeOK
  <2>1. sources \in [Sources -> {None} \cup Wall!Feeds] /\ calls \in [Callers -> Wall!Request]
    BY <1>1, <1>3
  <2>2. vouched \subseteq Wall!Scripts /\ {file, tmp, lastGood, loaded} \subseteq {None} \cup Wall!Scripts
    BY <1>1, <1>2 DEF Wall!Known
  <2>3. asked \in 0 .. MaxCalls /\ failures \in 0 .. MaxFailures /\ boots \in 0 .. MaxBoots
    BY <1>1 DEF Wall!ConstantsFit
  <2>4. rules \subseteq Rules /\ timer \in BOOLEAN /\ excused \in BOOLEAN /\ unarmed \in BOOLEAN
    BY <1>1
  <2> QED BY <2>1, <2>2, <2>3, <2>4 DEF Wall!TypeOK
<1>5. Wall!Rendered = {}
  <2>1. {sources[s] : s \in Sources} \ {None} = {}
    BY <1>1
  <2>2. Wall!Blocked = {}
    BY <2>1 DEF Wall!Blocked
  <2> QED BY <1>1, <2>2 DEF Wall!Rendered
<1>6. Wall!FileLoads /\ Wall!ProvisionalIsWatched /\ GoodFile
  BY <1>1, <1>2 DEF Wall!FileLoads, Wall!ProvisionalIsWatched, GoodFile, Wall!Accepted, Wall!Known
<1>7. ASSUME NEW h \in Callers PROVE Parts(calls[h]) /\ InStep(calls[h])
  <2>1. calls[h] = Wall!NoRequest /\ Wall!NoRequest.pc = "idle" /\ Wall!NoRequest.op = "none"
    BY <1>1 DEF Wall!NoRequest
  <2>2. Agree(calls[h])
    BY <1>1, <1>2, <1>5, <2>1 DEF Agree, Unloaded
  <2> QED BY <1>3, <2>1, <2>2 DEF Parts, OnItsWay, NewRule, Guarded
<1> QED BY <1>4, <1>6, <1>7 DEF FInv, LoneInv, Parts

LEMMA FilterNextKeeps ==
  ASSUME Wall!ConstantsFit, FInv, [Wall!Next]_(Wall!vars)
  PROVE  FInv'
<1>1. ASSUME NEW h \in Callers, Wall!Handle(h) PROVE FInv'
  <2>1. CASE Wall!CreateRule(h)       BY <2>1, CreateRuleKeeps
  <2>2. CASE Wall!FindRule(h)         BY <2>2, FindRuleKeeps
  <2>3. CASE Wall!DeleteRule(h)       BY <2>3, TableRowKeeps
  <2>4. CASE Wall!CreateSource(h)     BY <2>4, CreateSourceKeeps
  <2>5. CASE Wall!Fetch(h)            BY <2>5, FetchKeeps
  <2>6. CASE Wall!ReplaceEntries(h)   BY <2>6, ReplaceEntriesKeeps
  <2>7. CASE Wall!DeleteSource(h)     BY <2>7, TableRowKeeps
  <2>8. CASE Wall!ReadRules(h)        BY <2>8, ReadRulesKeeps
  <2>9. CASE Wall!Render(h)           BY <2>9, RenderKeeps
  <2>10. CASE Wall!Unwind(h)          BY <2>10, UnwindKeeps
  <2>11. CASE Wall!Interrupted(h)     BY <2>11, InterruptedKeeps
  <2>12. CASE Wall!WriteTmp(h)        BY <2>12, WriteTmpKeeps
  <2>13. CASE Wall!Check(h)           BY <2>13, CheckKeeps
  <2>14. CASE Wall!ArmRollback(h)     BY <2>14, ArmRollbackKeeps
  <2>15. CASE Wall!Rename(h)          BY <2>15, RenameKeeps
  <2>16. CASE Wall!Load(h)            BY <2>16, LoadKeeps
  <2>17. CASE Wall!RestoreLastGood(h) BY <2>17, RestoreLastGoodKeeps
  <2>18. CASE Wall!CancelRollback(h)  BY <2>18, CancelRollbackKeeps
  <2>19. CASE Wall!Confirm(h)         BY <2>19, ConfirmKeeps
  <2>20. CASE Wall!KeepFile(h)        BY <2>20, KeepFileKeeps
  <2> QED BY <1>1, <2>1, <2>2, <2>3, <2>4, <2>5, <2>6, <2>7, <2>8, <2>9, <2>10, <2>11, <2>12,
             <2>13, <2>14, <2>15, <2>16, <2>17, <2>18, <2>19, <2>20 DEF Wall!Handle
<1>2. ASSUME NEW h \in Callers, Wall!BeginRule(h) \/ Wall!BeginSource(h) \/ Wall!BeginConfirm(h) \/ Wall!Cancel(h)
      PROVE  FInv'
  BY <1>2, BeginRuleKeeps, BeginSourceKeeps, BeginConfirmKeeps, CancelKeeps
<1>3. CASE Wall!RollBack
  BY <1>3, RollBackKeeps
<1>4. CASE Wall!Reboot
  BY <1>4, FilterRebootKeeps
<1>5. CASE UNCHANGED Wall!vars
  <2>1. UNCHANGED <<Wall!tables, Wall!host, Wall!flags, calls, asked, failures, boots>>
    BY <1>5 DEF Wall!vars
  <2>2. HostTypes' /\ Wall!TypeOK'
    BY <2>1 DEF FInv, HostTypes, Wall!TypeOK, Wall!tables, Wall!host, Wall!flags
  <2>3. OneCaller => LoneInv'
    <3>1. ASSUME OneCaller PROVE Wall!FileLoads' /\ Wall!ProvisionalIsWatched' /\ GoodFile'
      BY <2>1, <3>1 DEF FInv, LoneInv, Wall!FileLoads, Wall!ProvisionalIsWatched, GoodFile,
         Wall!Accepted, Wall!At, Wall!host, Wall!flags
    <3>2. ASSUME OneCaller, NEW h \in Callers PROVE Parts(calls[h])'
      <4>1. Parts(calls[h])
        BY <3>2 DEF FInv, LoneInv, Parts
      <4>2. OnItsWay(calls[h])' /\ NewRule(calls[h])'
        BY <2>1, <4>1, SameTables DEF Parts, OnItsWay, NewRule, Wall!Accepted, Wall!host
      <4>3. Agree(calls[h])' /\ Guarded(calls[h])'
        BY <2>1, <4>1, SameTables DEF Parts, Agree, Steady, Guarded, Wall!host, Wall!flags
      <4> QED BY <4>2, <4>3 DEF Parts
    <3> QED BY <3>1, <3>2 DEF LoneInv, Parts
  <2>4. \A h \in Callers : InStep(calls[h])'
    BY <2>1 DEF FInv, InStep
  <2> QED BY <2>2, <2>3, <2>4 DEF FInv
<1> QED BY <1>1, <1>2, <1>3, <1>4, <1>5 DEF Wall!Next

LEMMA FilterInvariance == ASSUME Wall!ConstantsFit PROVE Wall!Spec => []FInv
<1>1. Wall!Init => FInv
  BY InitHolds
<1>2. FInv /\ [Wall!Next]_(Wall!vars) => FInv'
  BY FilterNextKeeps
<1> QED BY <1>1, <1>2, PTL DEF Wall!Spec

(* Whatever runs at the same time and whatever fails, the tables, the      *)
(* files and the requests are of their types.                              *)
THEOREM FilterTypesKept == ASSUME Wall!ConstantsFit PROVE Wall!Spec => []Wall!TypeOK
<1>1. FInv => Wall!TypeOK
  BY DEF FInv
<1> QED BY <1>1, FilterInvariance, PTL

(* One handler: every reboot finds a file that loads, a refused rule       *)
(* is gone, and what is loaded provisionally is under a timer, whatever    *)
(* command fails, whoever goes away and whenever the host goes down.       *)
THEOREM FilterHolds ==
  ASSUME Wall!ConstantsFit, NEW handler, Callers = {handler}
  PROVE  Wall!Spec => []FirewallInv
<1>1. OneCaller
  BY DEF OneCaller
<1>2. FInv => FirewallInv
  <2>1. ASSUME FInv PROVE Wall!RefusedRuleIsGone
    BY <1>1, <2>1 DEF FInv, LoneInv, NewRule, Wall!RefusedRuleIsGone, Wall!At
  <2> QED BY <1>1, <2>1 DEF FInv, LoneInv, FirewallInv, Wall!FirewallInv
<1> QED BY <1>2, FilterInvariance, PTL

(* One handler: at rest the kernel and the file are what the tables give,  *)
(* unless something failed or was rolled back since the last load.         *)
THEOREM ProjectionKept ==
  ASSUME Wall!ConstantsFit, NEW handler, Callers = {handler}
  PROVE  Wall!Spec => []KernelIsProjection
<1>1. OneCaller /\ handler \in Callers
  BY DEF OneCaller
<1>2. FInv => KernelIsProjection
  <2>1. ASSUME FInv, Wall!Quiet, ~ excused PROVE loaded = Wall!Rendered /\ file = Wall!Rendered
    <3>1. Agree(calls[handler]) /\ Steady(calls[handler])
      BY <1>1, <2>1 DEF FInv, LoneInv, Wall!Quiet, Steady
    <3> QED BY <2>1, <3>1 DEF Agree
  <2> QED BY <2>1 DEF KernelIsProjection, Wall!KernelIsProjection
<1> QED BY <1>2, FilterInvariance, PTL
====
