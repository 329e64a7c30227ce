------------------------------ MODULE MCAccess ------------------------------
(* Instances of Access for TLC. *)
EXTENDS Access, TLC

(* Requests are interchangeable: nothing compares or orders them. *)
Symmetric == Permutations(Requests)
=============================================================================
