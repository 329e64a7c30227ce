---------------------------- MODULE SessionLedger ----------------------------
(***************************************************************************)
(* What refresh tokens promise, without transactions, locks or failures: a *)
(* login opens a session with one token; each rotation spends the token it *)
(* is given and puts one new token in its place; a logout spends a token.  *)
(***************************************************************************)
CONSTANT Tokens

VARIABLES
    live,       \* tokens that can be exchanged
    spent,      \* tokens that never can again
    origin      \* the token with which the session of a token was opened

ledger == <<live, spent, origin>>

Init ==
    /\ live = {}
    /\ spent = {}
    /\ origin = [t \in Tokens |-> t]

Fresh(t) == t \in Tokens \ (live \cup spent)

Open(t) ==
    /\ Fresh(t)
    /\ live' = live \cup {t}
    /\ origin' = [origin EXCEPT ![t] = t]
    /\ UNCHANGED spent

Rotate(old, new) ==
    /\ old \in live
    /\ Fresh(new)
    /\ live' = (live \ {old}) \cup {new}
    /\ spent' = spent \cup {old}
    /\ origin' = [origin EXCEPT ![new] = origin[old]]

Close(t) ==
    /\ t \in live
    /\ live' = live \ {t}
    /\ spent' = spent \cup {t}
    /\ UNCHANGED origin

Next ==
    \/ \E t \in Tokens : Open(t) \/ Close(t)
    \/ \E old, new \in Tokens : Rotate(old, new)

Spec == Init /\ [][Next]_ledger

(* A spent token does not work, and of the tokens of a login one at most   *)
(* does.                                                                   *)
OneLive ==
    /\ live \cap spent = {}
    /\ \A s, t \in live : origin[s] = origin[t] => s = t
=============================================================================
