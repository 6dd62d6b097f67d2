----------------------------- MODULE MCAccounts -----------------------------
(* Small panels for TLC. *)
EXTENDS Accounts

CONSTANTS root, ann, bob, cat

Panel(f) == [i \in Ids |-> IF i \in DOMAIN f THEN f[i] ELSE NoUser]

Account(n, role, parent, uid) ==
  [name |-> n, role |-> role, parent |-> parent, suspended |-> FALSE, uid |-> uid]

TwoAdmins == Panel(<<Account(root, "admin", 0, FALSE), Account(ann, "admin", 0, FALSE)>>)
ResellerPanel ==
  Panel(<<Account(root, "admin", 0, FALSE), Account(ann, "reseller", 0, FALSE),
          Account(bob, "end_user", 2, TRUE)>>)
Nobody == {}
Customers == {3}
=============================================================================
