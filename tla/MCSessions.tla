----------------------------- MODULE MCSessions -----------------------------
(* Instances of Sessions for TLC. *)
EXTENDS Sessions, TLC

(* Requests are interchangeable: nothing compares or orders them. *)
Symmetric == Permutations(Requests)
=============================================================================
