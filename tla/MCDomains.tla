------------------------------ MODULE MCDomains ------------------------------
(* Constants of the run of all domains. *)
EXTENDS Domains

MCPrice == [v1 |-> 10, v2 |-> 20, v3 |-> 15]
MCFares == [f1 |-> [economy |-> 50, business |-> 100], f2 |-> [economy |-> 100, business |-> 150]]
=============================================================================
