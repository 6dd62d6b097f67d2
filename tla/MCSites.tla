------------------------------ MODULE MCSites -------------------------------
(* Small estates for TLC. *)
EXTENDS Sites

CONSTANTS d1, o1

Estate(f) == [i \in Ids |-> IF i \in DOMAIN f THEN f[i] ELSE NoRow]

SiteOf(d, tls) == [domain |-> d, aliases |-> {}, owner |-> o1, home |-> o1,
                   ssl |-> tls, cert |-> tls, suspended |-> FALSE]

OnePlain == Estate(<<SiteOf(d1, FALSE)>>)
=============================================================================
