---------------------------- MODULE MCSessions -----------------------------
(* An administrator, a reseller and a customer for TLC. *)
EXTENDS Sessions, TLC

CONSTANTS ann, bob, cat, old

Row(weak, totp) == [pw |-> old, weak |-> weak, suspended |-> FALSE, totp |-> totp]

Protected == [u \in Users |-> Row(u = ann, IF u = bob THEN "on" ELSE "off")]
Weak == [u \in Users |-> Row(u = bob, "off")]
BobsKey == {bob}
AnnsCustomer == [u \in Users |-> IF u = ann THEN {bob, cat} ELSE {}]
NoKeys == {}
AnyHandler == Permutations(Handlers)
=============================================================================
