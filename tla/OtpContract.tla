------------------------------ MODULE OtpContract ------------------------------
(***************************************************************************)
(* What one-time codes promise, without transactions, locks, clocks or     *)
(* failures: a user has at most one code that opens the account; a new     *)
(* code replaces it; a bounded number of wrong guesses, its age or its use *)
(* end it; and a phone is verified by redeeming the code, by nothing else. *)
(***************************************************************************)
EXTENDS Naturals

CONSTANTS Users, Codes, NoCode, MaxAttempts

VARIABLES
    pending,    \* the code that opens a user's account, or NoCode
    tries,      \* wrong guesses at that code
    verified    \* the users whose phone is verified

contract == <<pending, tries, verified>>

Init ==
    /\ pending = [u \in Users |-> NoCode]
    /\ tries = [u \in Users |-> 0]
    /\ verified = {}

Holds(u, c, n) ==
    /\ pending' = [pending EXCEPT ![u] = c]
    /\ tries' = [tries EXCEPT ![u] = n]

Issue(u, c) ==
    /\ c # pending[u]
    /\ Holds(u, c, 0)
    /\ UNCHANGED verified

Miss(u) ==
    /\ pending[u] # NoCode
    /\ IF tries[u] + 1 < MaxAttempts
       THEN Holds(u, pending[u], tries[u] + 1)
       ELSE Holds(u, NoCode, 0)
    /\ UNCHANGED verified

Lapse(u) ==
    /\ pending[u] # NoCode
    /\ Holds(u, NoCode, 0)
    /\ UNCHANGED verified

Redeem(u) ==
    /\ pending[u] # NoCode
    /\ Holds(u, NoCode, 0)
    /\ verified' = verified \cup {u}

Next ==
    \E u \in Users :
        \/ \E c \in Codes : Issue(u, c)
        \/ Miss(u) \/ Lapse(u) \/ Redeem(u)

Spec == Init /\ [][Next]_contract

(* A code that still opens an account has been missed fewer times than the *)
(* policy allows.                                                          *)
GuessesLeft ==
    \A u \in Users :
        IF pending[u] = NoCode THEN tries[u] = 0 ELSE tries[u] < MaxAttempts
=============================================================================
