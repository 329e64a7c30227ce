------------------------------ MODULE MCRiders ------------------------------
(* Instances of Riders for TLC. *)
EXTENDS Riders, TLC

(* Workers and registration numbers are interchangeable. *)
Symmetric == Permutations(Workers) \cup Permutations(Plates)
=============================================================================
