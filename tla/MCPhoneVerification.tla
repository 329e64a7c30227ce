------------------------- MODULE MCPhoneVerification -------------------------
(* Instances of PhoneVerification for TLC. *)
EXTENDS PhoneVerification, TLC

(* Requests are interchangeable: nothing compares or orders them. *)
Symmetric == Permutations(Requests)
=============================================================================
