----------------------------- MODULE MCPackages -----------------------------
(* One reseller with one customer on a package of theirs, for TLC. *)
EXTENDS Packages, TLC

CONSTANTS rose, carl, own, stock

Allowance(n, d) == [accounts |-> n, disk |-> d, oversell |-> FALSE, sells |-> TRUE]

OnePlan == [p \in PlanIds |-> IF p = own THEN [size |-> 1, owner |-> rose] ELSE NoPlan]
OneCustomer == [u \in Customers |-> [made |-> u = carl, parent |-> rose,
                                     plan |-> IF u = carl THEN own ELSE NoPlan]]
Tight == [r \in Resellers |-> Allowance(2, 1)]
SomeLimits == {[Allowance(1, 1) EXCEPT !.sells = FALSE]}
AnyActor == Permutations(Handlers)
=============================================================================
