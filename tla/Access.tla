-------------------------------- MODULE Access --------------------------------
(***************************************************************************)
(* What an access token opens and for how long.  An access token is a      *)
(* signed statement that nobody can take back: RequireAuth looks at its    *)
(* signature and expiry only, so that logout and deactivation reach the    *)
(* protected routes late.  This module composes the ledger of refresh      *)
(* tokens, which Sessions implements, with accounts, access tokens and the *)
(* protected calls, to bound how late.                                     *)
(*                                                                         *)
(* Every HTTP request is one goroutine that runs once.  The refresh token  *)
(* and the access token of one answer are both named by its request.       *)
(***************************************************************************)
EXTENDS Integers

CONSTANTS
    Users,          \* the users
    Requests,       \* the HTTP requests, each served by one goroutine
    NoRequest,      \* no token, no writer
    AccessTTL,      \* lifetime of an access token
    WriteTimeout,   \* http.Server: no answer is written later than this
    MaxTime         \* bound of the model: the clock stops here

ASSUME NobodyAssumption == NoRequest \notin Requests
ASSUME TimesAssumption ==
    AccessTTL \in Nat \ {0} /\ WriteTimeout \in Nat \ {0} /\ MaxTime \in Nat

VARIABLES
    clock,          \* time.Now() of the API process
    active,         \* the users with users.is_active
    live,           \* refresh tokens that can be exchanged
    spent,          \* refresh tokens that never can again
    origin,         \* the token with which the session of a token was opened
    pc,             \* where a request is
    user,           \* the user a request acts for
    token,          \* the token (of either kind) a request was given
    begun,          \* when its headers were read: WriteTimeout counts from here
    stamp,          \* the exp claim of the access token a request signed
    admitted,       \* when RequireAuth let a call in, or Never
    reply,          \* the answer of a request
    lastActive,     \* history: when a deactivated user was active last
    endedAt         \* history: when a logout ended a session, or Never

refresh == <<live, spent, origin>>
request == <<user, token, stamp, admitted>>
vars == <<clock, active, refresh, pc, request, begun, reply, lastActive, endedAt>>

Ledger == INSTANCE SessionLedger WITH Tokens <- Requests

-----------------------------------------------------------------------------
Never == -1

Signing == {"sign", "respond"}
Issuing == {"check", "verify", "open", "load", "rotate"} \cup Signing
InFlight == Issuing \cup {"close", "serve"}
Replies == {"none", "ok", "served", "no_content", "refused"}

TypeOK ==
    /\ clock \in 0 .. MaxTime
    /\ active \subseteq Users
    /\ live \subseteq Requests /\ spent \subseteq Requests
    /\ origin \in [Requests -> Requests]
    /\ pc \in [Requests -> {"idle", "done"} \cup InFlight]
    /\ user \in [Requests -> Users]
    /\ token \in [Requests -> Requests \cup {NoRequest}]
    /\ begun \in [Requests -> Nat]
    /\ stamp \in [Requests -> Nat]
    /\ admitted \in [Requests -> Nat \cup {Never}]
    /\ reply \in [Requests -> Replies]
    /\ lastActive \in [Users -> Nat \cup {Never}]
    /\ endedAt \in [Requests -> Nat \cup {Never}]

Init ==
    /\ clock = 0
    /\ active \in SUBSET Users
    /\ Ledger!Init
    /\ pc = [r \in Requests |-> "idle"]
    /\ user \in [Requests -> Users]
    /\ token = [r \in Requests |-> NoRequest]
    /\ begun = [r \in Requests |-> 0]
    /\ stamp = [r \in Requests |-> 0]
    /\ admitted = [r \in Requests |-> Never]
    /\ reply = [r \in Requests |-> "none"]
    /\ lastActive = [u \in Users |-> Never]
    /\ endedAt = [r \in Requests |-> Never]

(* The answers, hence the tokens, that reached a client. *)
Known == {t \in Requests : reply[t] = "ok"}

Goto(r, l) == pc' = [pc EXCEPT ![r] = l]

(* The handler returns. *)
Answer(r, a) ==
    /\ Goto(r, "done")
    /\ reply' = [reply EXCEPT ![r] = a]
    /\ begun' = [begun EXCEPT ![r] = 0]

(* The headers of a request have been read. *)
Arrive(r, l) ==
    /\ pc[r] = "idle"
    /\ begun' = [begun EXCEPT ![r] = clock]
    /\ Goto(r, l)

-----------------------------------------------------------------------------
(* Requests that issue tokens. *)

Login(r) ==
    /\ Arrive(r, "check")
    /\ UNCHANGED <<clock, active, refresh, user, token, stamp, admitted, reply,
                   lastActive, endedAt>>

(* FindByEmail; the password is compared after it, outside a transaction.  *)
CheckAccount(r) ==
    /\ pc[r] = "check"
    /\ user[r] \in active
    /\ Goto(r, "open")
    /\ UNCHANGED <<clock, active, refresh, request, begun, reply, lastActive, endedAt>>

VerifyPhone(r) ==
    /\ Arrive(r, "verify")
    /\ UNCHANGED <<clock, active, refresh, user, token, stamp, admitted, reply,
                   lastActive, endedAt>>

(* VerifyOTP sets is_active, whatever an operator had set it to. *)
VerifyOTP(r) ==
    /\ pc[r] = "verify"
    /\ active' = active \cup {user[r]}
    /\ Goto(r, "open")
    /\ UNCHANGED <<clock, refresh, request, begun, reply, lastActive, endedAt>>

(* issue: the session's first refresh token. *)
CreateSession(r) ==
    /\ pc[r] = "open"
    /\ Ledger!Open(r)
    /\ Goto(r, "sign")
    /\ UNCHANGED <<clock, active, request, begun, reply, lastActive, endedAt>>

Refresh(r) ==
    /\ Arrive(r, "load")
    /\ \E t \in Known : token' = [token EXCEPT ![r] = t]
    /\ UNCHANGED <<clock, active, refresh, user, stamp, admitted, reply,
                   lastActive, endedAt>>

(* Faulty: without the test of user.Active. *)
LoadUserUnchecked(r) ==
    /\ pc[r] = "load"
    /\ user' = [user EXCEPT ![r] = user[token[r]]]
    /\ Goto(r, "rotate")
    /\ UNCHANGED <<clock, active, refresh, token, begun, stamp, admitted, reply,
                   lastActive, endedAt>>

(* RotateSession reads the user between its UPDATE and its INSERT. *)
LoadUser(r) ==
    /\ pc[r] = "load"
    /\ user[token[r]] \in active
    /\ user' = [user EXCEPT ![r] = user[token[r]]]
    /\ Goto(r, "rotate")
    /\ UNCHANGED <<clock, active, refresh, token, begun, stamp, admitted, reply,
                   lastActive, endedAt>>

(* Faulty: a token that was revoked is exchanged again. *)
RotateSpent(r) ==
    /\ pc[r] = "rotate"
    /\ Ledger!Fresh(r)
    /\ live' = (live \ {token[r]}) \cup {r}
    /\ spent' = spent \cup {token[r]}
    /\ origin' = [origin EXCEPT ![r] = origin[token[r]]]
    /\ Goto(r, "sign")
    /\ UNCHANGED <<clock, active, request, begun, reply, lastActive, endedAt>>

(* RotateSession commits. *)
RotateSession(r) ==
    /\ pc[r] = "rotate"
    /\ Ledger!Rotate(token[r], r)
    /\ Goto(r, "sign")
    /\ UNCHANGED <<clock, active, request, begun, reply, lastActive, endedAt>>

(* Faulty: the lifetime is subtracted. *)
IssuePastAccess(r) ==
    /\ pc[r] = "sign"
    /\ stamp' = [stamp EXCEPT ![r] = clock - AccessTTL]
    /\ Goto(r, "respond")
    /\ UNCHANGED <<clock, active, refresh, user, token, begun, admitted, reply,
                   lastActive, endedAt>>

(* issueAccessResponse: user and roles are those the database gave before. *)
IssueAccess(r) ==
    /\ pc[r] = "sign"
    /\ stamp' = [stamp EXCEPT ![r] = clock + AccessTTL]
    /\ Goto(r, "respond")
    /\ UNCHANGED <<clock, active, refresh, user, token, begun, admitted, reply,
                   lastActive, endedAt>>

(* The server writes no answer after the write deadline. *)
Respond(r) ==
    /\ pc[r] = "respond"
    /\ clock < begun[r] + WriteTimeout
    /\ Answer(r, "ok")
    /\ UNCHANGED <<clock, active, refresh, request, lastActive, endedAt>>

-----------------------------------------------------------------------------
(* Logout: the handler answers 204 whatever comes of it. *)

Logout(r) ==
    /\ Arrive(r, "close")
    /\ \E t \in Known : token' = [token EXCEPT ![r] = t]
    /\ UNCHANGED <<clock, active, refresh, user, stamp, admitted, reply,
                   lastActive, endedAt>>

RevokeSession(r) ==
    /\ pc[r] = "close"
    /\ Ledger!Close(token[r])
    /\ endedAt' = [endedAt EXCEPT ![origin[token[r]]] = clock]
    /\ Answer(r, "no_content")
    /\ UNCHANGED <<clock, active, request, lastActive>>

(* An empty or unknown token, one that is dead, or a statement that fails. *)
LogoutInVain(r) ==
    /\ pc[r] \in {"idle", "close"}
    /\ Answer(r, "no_content")
    /\ UNCHANGED <<clock, active, refresh, request, lastActive, endedAt>>

-----------------------------------------------------------------------------
(* Protected calls. *)

(* jwt.Parse: valid strictly before exp. *)
Accepts(t) == clock < stamp[t]

(* RequireAuth; the roles in the token are dropped. *)
Call(r) ==
    /\ Arrive(r, "serve")
    /\ \E t \in Known :
          /\ Accepts(t)
          /\ token' = [token EXCEPT ![r] = t]
          /\ user' = [user EXCEPT ![r] = user[t]]
    /\ admitted' = [admitted EXCEPT ![r] = clock]
    /\ UNCHANGED <<clock, active, refresh, stamp, reply, lastActive, endedAt>>

(* The routes under /users/me and /riders/me: is_active is not looked at.  *)
Serve(r) ==
    /\ pc[r] = "serve"
    /\ Answer(r, "served")
    /\ UNCHANGED <<clock, active, refresh, request, lastActive, endedAt>>

(* GET /me is the only route that asks the database about the account. *)
Me(r) ==
    /\ pc[r] = "serve"
    /\ user[r] \in active
    /\ Answer(r, "served")
    /\ UNCHANGED <<clock, active, refresh, request, lastActive, endedAt>>

-----------------------------------------------------------------------------
(* Bad credentials, inactive account, spent or expired token, a failed     *)
(* statement, a client that went away or an answer after the deadline.     *)
Refuse(r) ==
    /\ pc[r] \in ({"idle"} \cup InFlight) \ {"close"}
    /\ Answer(r, "refused")
    /\ UNCHANGED <<clock, active, refresh, request, lastActive, endedAt>>

(* An operator clears is_active. *)
Deactivate(u) ==
    /\ u \in active
    /\ active' = active \ {u}
    /\ lastActive' = [lastActive EXCEPT ![u] = clock]
    /\ UNCHANGED <<clock, refresh, pc, request, begun, reply, endedAt>>

Tick ==
    /\ clock < MaxTime
    /\ clock' = clock + 1
    /\ UNCHANGED <<active, refresh, pc, request, begun, reply, lastActive, endedAt>>

Step(r) ==
    \/ Login(r) \/ CheckAccount(r) \/ VerifyPhone(r) \/ VerifyOTP(r) \/ CreateSession(r)
    \/ Refresh(r) \/ LoadUser(r) \/ RotateSession(r) \/ IssueAccess(r) \/ Respond(r)
    \/ Logout(r) \/ RevokeSession(r) \/ LogoutInVain(r)
    \/ Call(r) \/ Serve(r) \/ Me(r)
    \/ Refuse(r)

Finished == (\A r \in Requests : pc[r] = "done") /\ UNCHANGED vars

Next ==
    \/ \E r \in Requests : Step(r)
    \/ \E u \in Users : Deactivate(u)
    \/ Tick
    \/ Finished

Spec == Init /\ [][Next]_vars

-----------------------------------------------------------------------------
(* Properties *)

LastActive(u) == IF u \in active THEN clock ELSE lastActive[u]

(* Deactivation bites: a call is let in at most AccessTTL plus one         *)
(* WriteTimeout after its user was active last, however sign-in, refresh   *)
(* and deactivation interleave.                                            *)
DeactivationBites ==
    \A r \in Requests : admitted[r] # Never =>
        admitted[r] < LastActive(user[r]) + AccessTTL + WriteTimeout

(* Logout bites: no call is let in AccessTTL after the logout that ended   *)
(* its session, though a refresh of the session may have been under way.   *)
(* A logout with a token that has been replaced ends nothing.              *)
LogoutBites ==
    \A r \in Requests :
        LET end == endedAt[origin[token[r]]] IN
        admitted[r] # Never /\ end # Never => admitted[r] < end + AccessTTL
=============================================================================
