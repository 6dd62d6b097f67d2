------------------------------ MODULE SiteRows ------------------------------
(***************************************************************************)
(* The sites table of the panel database and what is derived from it: the  *)
(* statements of internal/db/sites.go as operators from one table to the   *)
(* next, the specs SyncWebserver sends to the agent, and the checks the    *)
(* agent's renderer makes on them.                                         *)
(*                                                                         *)
(* A table maps every id to a row or to NoRow.  A row keeps the columns    *)
(* that are written by different handlers or that the renderer looks at:   *)
(* php_version, rewrite_mode and waf_enabled travel exactly as `suspended' *)
(* does and are left out.  `home' is the account under whose home          *)
(* directory document_root lies, `cert' whether cert_file is set.          *)
(*                                                                         *)
(* A definition marked (slip) is a plausible mistake in the definition it  *)
(* precedes.  It is used nowhere: put in the place of that definition, it  *)
(* must break the property it is paired with in PROJECT.json.              *)
(***************************************************************************)
EXTENDS Naturals, FiniteSets

CONSTANTS Hosts,      \* hostnames
          Owners,     \* hosting accounts
          MaxId,      \* bound: ids the table ever hands out
          NoRow       \* an id that has no row

Ids == 1 .. MaxId

Row == [domain: Hosts, aliases: SUBSET Hosts, owner: Owners, home: Owners,
        ssl: BOOLEAN, cert: BOOLEAN, suspended: BOOLEAN]

ASSUME NoRowAssumption == NoRow \notin Row
ASSUME MaxIdAssumption == MaxId \in Nat

Table == [Ids -> Row \cup {NoRow}]

Hostnames(r) == {r.domain} \cup r.aliases

(* The rows of a table; domains are unique, so nothing is lost. *)
RowsOf(t) == {t[i] : i \in Ids} \ {NoRow}

(***************************************************************************)
(* Statements.                                                             *)
(***************************************************************************)
(* A stored row agrees with the UNIQUE constraint on domain. *)
DomainFree(t, d) == \A i \in Ids : t[i] # NoRow => t[i].domain # d

(* (slip) The certificate columns are left NULL. *)
CreateSiteSlip(t, id, r) == [t EXCEPT ![id] = [r EXCEPT !.cert = NoRow]]

(* INSERT INTO sites: the certificate columns are not in the statement and *)
(* take their default, ssl_enabled is.                                     *)
CreateSite(t, id, r) == [t EXCEPT ![id] = [r EXCEPT !.cert = FALSE]]

DeleteSite(t, id) == [t EXCEPT ![id] = NoRow]

(* UPDATE of every column but domain and owner_id; no row, no effect. *)
UpdateSite(t, id, r) ==
  IF t[id] = NoRow THEN t
  ELSE [t EXCEPT ![id] = [r EXCEPT !.domain = t[id].domain, !.owner = t[id].owner]]

(* UPDATE of owner_id and document_root alone. *)
UpdateSiteOwner(t, id, o) ==
  IF t[id] = NoRow THEN t ELSE [t EXCEPT ![id].owner = o, ![id].home = o]

CountSitesByOwner(t, o) ==
  Cardinality({i \in Ids : t[i] # NoRow /\ t[i].owner = o})

(* The hostnames claimed by rows other than the one with this id (0: none). *)
Taken(t, except) ==
  UNION {Hostnames(t[i]) : i \in {j \in Ids \ {except} : t[j] # NoRow}}

(***************************************************************************)
(* What the agent accepts.                                                 *)
(***************************************************************************)
(* Site.Validate: a TLS site names its certificate and key. *)
ValidSite(r) == r.ssl => r.cert

(* checkDuplicates: no hostname is claimed by two sites. *)
NoDuplicates(rows) ==
  \A r, s \in rows : r # s => Hostnames(r) \cap Hostnames(s) = {}

Renderable(rows) == NoDuplicates(rows) /\ \A r \in rows : ValidSite(r)
=============================================================================
