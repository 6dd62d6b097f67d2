------------------------------- MODULE MCHost -------------------------------
(***************************************************************************)
(* What the agent does on the host: its web server (Webserver) and its     *)
(* packet filter (Firewall).  They share nothing, and a run moves either. *)
(*                                                                         *)
(* For the server: one estate that runs on the older PHP, one that runs on *)
(* the newer, and one httpd rejects.  Remi has both versions; alt-php has  *)
(* the newer only.  For the filter: one rule that loads, one nft refuses,  *)
(* two overlapping blocklists.                                             *)
(***************************************************************************)
EXTENDS Webserver

CONSTANTS first, older, newer, altphp

TwoVersions == [e \in Estates |-> IF e = first THEN {older} ELSE {newer}]
NewerOnly == [w \in Providers |-> IF w = altphp THEN {newer} ELSE Versions]

CONSTANTS Rules, Addresses, Sources, Refused, Locking, KeepsAlive, MaxBlocked, None, FirstFile,
          Callers, Offered, MaxCalls, MaxFailures, MaxBoots, MayCancel
VARIABLES rules, sources, file, tmp, lastGood, loaded, timer, vouched, excused, unarmed,
          calls, asked, failures, boots

\* The requests of the filter come to the panel, those of the server to the
\* agent: they have their own numbers.
Wall == INSTANCE Firewall WITH Handlers <- Callers, Ops <- Offered, MaxRequests <- MaxCalls,
                               MaxFaults <- MaxFailures, req <- calls, begun <- asked,
                               faults <- failures

fvars == <<rules, sources, file, tmp, lastGood, loaded, timer, vouched, excused, unarmed, calls, asked,
           failures, boots>>

ASSUME FilterAssumption == Wall!ConstantsFit

VARIABLE scene  \* what moves: the server or the filter

MCInit == scene \in {"server", "filter"} /\ Init /\ Wall!Init

MCNext ==
  \/ scene = "server" /\ Next /\ UNCHANGED <<scene, fvars>>
  \/ scene = "filter" /\ Wall!Next /\ UNCHANGED <<scene, vars>>

\* The fairness of Firewall, in its scene.
MCSpec ==
  /\ MCInit /\ [][MCNext]_<<scene, vars, fvars>>
  /\ WF_fvars(scene = "filter" /\ Wall!RollBack)
  /\ \A h \in Callers : WF_fvars(scene = "filter" /\ Wall!Handle(h))

\* The filter's types, a file that loads at every boot, nothing left of a rule that
\* was refused, and no script loaded provisionally without a timer (Firewall).
FirewallInv == Wall!FirewallInv

\* At rest kernel and file are what the database gives (Firewall).
KernelIsProjection == Wall!KernelIsProjection

\* A script nobody vouched for does not stay (Firewall).
ProvisionalEnds == Wall!ProvisionalEnds
=============================================================================
