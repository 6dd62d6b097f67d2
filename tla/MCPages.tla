------------------------------ MODULE MCPages ------------------------------
(* Every page, with one row on the server and another that may be made. *)
EXTENDS Pages

CONSTANTS r1, r2

AllPages == DOMAIN Table
=============================================================================
