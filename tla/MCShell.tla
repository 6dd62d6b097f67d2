------------------------------ MODULE MCShell ------------------------------
(* An operator, two customers, and the tabs of one browser. *)
EXTENDS Shell

CONSTANTS op, ann, bob, t1
=============================================================================
