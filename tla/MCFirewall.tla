----------------------------- MODULE MCFirewall -----------------------------
(* One rule that loads, one nft refuses, two overlapping blocklists.       *)
EXTENDS Firewall

CONSTANTS port, zoned, a1, a2

Installed == {}
=============================================================================
