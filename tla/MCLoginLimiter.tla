--------------------------- MODULE MCLoginLimiter ---------------------------
(* Instances of LoginLimiter for TLC. *)
EXTENDS LoginLimiter, TLC

(* Logins, accounts and addresses are interchangeable. *)
Symmetric ==
    Permutations(Workers) \cup Permutations(Accounts) \cup Permutations(Addresses)
=============================================================================
