------------------------------- MODULE Sessions -------------------------------
(***************************************************************************)
(* Refresh tokens: POST /auth/login, /auth/refresh and /auth/logout, from  *)
(* the handlers down to the rows of refresh_sessions.                      *)
(*                                                                         *)
(* Every HTTP request is one goroutine that runs once.  RotateSession is a *)
(* transaction of three statements; it is split at each of them, what it   *)
(* writes becomes visible at its commit, and the lock its UPDATE takes at  *)
(* once.  CreateSession and RevokeSession are single statements.           *)
(*                                                                         *)
(* A refresh token is named by the request that stored it.  A client knows *)
(* the tokens of the answers it received; it may send one again, also      *)
(* several times at once.                                                  *)
(***************************************************************************)
EXTENDS Integers, FiniteSets

CONSTANTS
    Users,          \* the users
    Requests,       \* the HTTP requests, each served by one goroutine
    NoRequest,      \* "nobody": the owner of a free lock, no token
    RefreshTTL,     \* lifetime of a refresh token
    Skew,           \* the API host's clock minus the database's clock
    MaxTime         \* bound of the model: the database clock stops here

ASSUME NobodyAssumption == NoRequest \notin Requests
ASSUME LifetimeAssumption == RefreshTTL \in Nat \ {0} /\ Skew \in Int
ASSUME BoundAssumption == MaxTime \in Nat

VARIABLES
    clock,          \* the database clock, now()
    active,         \* the users with users.is_active
    sessions,       \* the rows of refresh_sessions, by the request that stored them
    revoked,        \* the rows whose revoked_at is set
    expires,        \* expires_at of the row a request stores
    user,           \* the user a request acts for, user_id of the row it stores
    rowLock,        \* the transaction that holds a row
    pc,             \* where a request is
    token,          \* the token a Refresh or a Logout was given
    txNow,          \* now() of a request's transaction: the time of its BEGIN
    reply,          \* the answer of a request
    parent,         \* history: the token a token replaced
    origin,         \* history: the token its session was opened with
    loggedOut       \* history: tokens whose revocation by a Logout was committed

rows == <<sessions, revoked, parent, origin, loggedOut>>
vars == <<clock, active, rows, expires, user, rowLock, pc, token, txNow, reply>>

-----------------------------------------------------------------------------
InFlight == {"create", "begin", "lock", "load", "insert", "revoke", "respond"}
Replies == {"none", "ok", "unauthorized", "no_content", "error"}

TypeOK ==
    /\ clock \in 0 .. MaxTime
    /\ active \subseteq Users
    /\ sessions \subseteq Requests
    /\ revoked \subseteq sessions
    /\ loggedOut \subseteq revoked
    /\ expires \in [Requests -> Int]
    /\ user \in [Requests -> Users]
    /\ rowLock \in [Requests -> Requests \cup {NoRequest}]
    /\ pc \in [Requests -> {"idle", "done"} \cup InFlight]
    /\ token \in [Requests -> Requests \cup {NoRequest}]
    /\ txNow \in [Requests -> Nat]
    /\ reply \in [Requests -> Replies]
    /\ parent \in [Requests -> Requests \cup {NoRequest}]
    /\ origin \in [Requests -> Requests]

Init ==
    /\ clock = 0
    /\ active \in SUBSET Users
    /\ sessions = {}
    /\ revoked = {}
    /\ loggedOut = {}
    /\ expires = [r \in Requests |-> 0]
    /\ user \in [Requests -> Users]
    /\ rowLock = [t \in Requests |-> NoRequest]
    /\ pc = [r \in Requests |-> "idle"]
    /\ token = [r \in Requests |-> NoRequest]
    /\ txNow = [r \in Requests |-> 0]
    /\ reply = [r \in Requests |-> "none"]
    /\ parent = [r \in Requests |-> NoRequest]
    /\ origin = [r \in Requests |-> r]

(* time.Now().Add(s.refreshTTL) on the API host. *)
ReplacementExpiresAt == clock + Skew + RefreshTTL

(* The tokens that reached a client. *)
Known == {t \in sessions : reply[t] = "ok"}

(* Faulty: without AND revoked_at IS NULL. *)
UsableUntilExpiry(t, now) == t \in sessions /\ expires[t] > now

(* Faulty: without AND expires_at > now(). *)
UsableIfUnrevoked(t, now) == t \in sessions \ revoked

(* WHERE token_hash = $1 AND revoked_at IS NULL AND expires_at > now() *)
Usable(t, now) == t \in sessions \ revoked /\ expires[t] > now

Goto(r, l) == pc' = [pc EXCEPT ![r] = l]

Answer(r, a) == Goto(r, "done") /\ reply' = [reply EXCEPT ![r] = a]

(* COMMIT or ROLLBACK. *)
ReleaseLocks(r) ==
    rowLock' = [t \in Requests |-> IF rowLock[t] = r THEN NoRequest ELSE rowLock[t]]

-----------------------------------------------------------------------------
(* Requests arrive. *)

(* Login has checked limiter and password and has read an active user.     *)
Login(r) ==
    /\ pc[r] = "idle"
    /\ user[r] \in active
    /\ Goto(r, "create")
    /\ UNCHANGED <<clock, active, rows, expires, user, rowLock, token, txNow, reply>>

(* VerifyOTP has committed: it activates the user. *)
VerifyPhone(r) ==
    /\ pc[r] = "idle"
    /\ active' = active \cup {user[r]}
    /\ Goto(r, "create")
    /\ UNCHANGED <<clock, rows, expires, user, rowLock, token, txNow, reply>>

(* Expiry and replacement token are computed before the transaction. *)
Refresh(r) ==
    /\ pc[r] = "idle"
    /\ \E t \in Known : token' = [token EXCEPT ![r] = t]
    /\ expires' = [expires EXCEPT ![r] = ReplacementExpiresAt]
    /\ Goto(r, "begin")
    /\ UNCHANGED <<clock, active, rows, user, rowLock, txNow, reply>>

Logout(r) ==
    /\ pc[r] = "idle"
    /\ \E t \in Known : token' = [token EXCEPT ![r] = t]
    /\ Goto(r, "revoke")
    /\ UNCHANGED <<clock, active, rows, expires, user, rowLock, txNow, reply>>

(* Wrong password, limiter, inactive user, or an empty or unknown token,   *)
(* which Logout answers as it answers any other.                           *)
Refuse(r) ==
    /\ pc[r] = "idle"
    /\ \E a \in {"unauthorized", "no_content"} : Answer(r, a)
    /\ UNCHANGED <<clock, active, rows, expires, user, rowLock, token, txNow>>

-----------------------------------------------------------------------------
(* issue: INSERT of a new session. *)
CreateSession(r) ==
    /\ pc[r] = "create"
    /\ sessions' = sessions \cup {r}
    /\ expires' = [expires EXCEPT ![r] = ReplacementExpiresAt]
    /\ Goto(r, "respond")
    /\ UNCHANGED <<clock, active, revoked, parent, origin, loggedOut, user, rowLock,
                   token, txNow, reply>>

-----------------------------------------------------------------------------
(* RotateSession *)

BeginRotation(r) ==
    /\ pc[r] = "begin"
    /\ txNow' = [txNow EXCEPT ![r] = clock]
    /\ Goto(r, "lock")
    /\ UNCHANGED <<clock, active, rows, expires, user, rowLock, token, reply>>

(* Faulty: the token is looked up by a SELECT without FOR UPDATE. *)
LockTokenWithoutLock(r) ==
    /\ pc[r] = "lock"
    /\ Usable(token[r], txNow[r])
    /\ Goto(r, "load")
    /\ UNCHANGED <<clock, active, rows, expires, user, rowLock, token, txNow, reply>>

(* UPDATE ... SET revoked_at: waits for the row and tests the WHERE clause *)
(* on what the lock holder left.                                           *)
LockToken(r) ==
    /\ pc[r] = "lock"
    /\ rowLock[token[r]] = NoRequest
    /\ Usable(token[r], txNow[r])
    /\ rowLock' = [rowLock EXCEPT ![token[r]] = r]
    /\ Goto(r, "load")
    /\ UNCHANGED <<clock, active, rows, expires, user, token, txNow, reply>>

RefuseToken(r) ==
    /\ pc[r] = "lock"
    /\ ~Usable(token[r], txNow[r])
    /\ Answer(r, "unauthorized")
    /\ UNCHANGED <<clock, active, rows, expires, user, rowLock, token, txNow>>

LoadUser(r) ==
    /\ pc[r] = "load"
    /\ user[token[r]] \in active
    /\ user' = [user EXCEPT ![r] = user[token[r]]]
    /\ Goto(r, "insert")
    /\ UNCHANGED <<clock, active, rows, expires, rowLock, token, txNow, reply>>

(* Faulty: the revocation is committed before the user is looked at. *)
RefuseInactiveAfterCommit(r) ==
    /\ pc[r] = "load"
    /\ user[token[r]] \notin active
    /\ revoked' = revoked \cup {token[r]}
    /\ ReleaseLocks(r)
    /\ Answer(r, "unauthorized")
    /\ UNCHANGED <<clock, active, sessions, parent, origin, loggedOut, expires, user,
                   token, txNow>>

(* Faulty: the early return leaves the transaction open. *)
RefuseInactiveWithoutRollback(r) ==
    /\ pc[r] = "load"
    /\ user[token[r]] \notin active
    /\ Answer(r, "unauthorized")
    /\ UNCHANGED <<clock, active, rows, expires, user, rowLock, token, txNow>>

(* ErrAccountInactive: the rollback gives the token back. *)
RefuseInactive(r) ==
    /\ pc[r] = "load"
    /\ user[token[r]] \notin active
    /\ ReleaseLocks(r)
    /\ Answer(r, "unauthorized")
    /\ UNCHANGED <<clock, active, rows, expires, user, token, txNow>>

(* INSERT of the replacement and COMMIT: both rows change together. *)
Rotate(r) ==
    /\ pc[r] = "insert"
    /\ revoked' = revoked \cup {token[r]}
    /\ sessions' = sessions \cup {r}
    /\ parent' = [parent EXCEPT ![r] = token[r]]
    /\ origin' = [origin EXCEPT ![r] = origin[token[r]]]
    /\ ReleaseLocks(r)
    /\ Goto(r, "respond")
    /\ UNCHANGED <<clock, active, loggedOut, expires, user, token, txNow, reply>>

(* The answer may be lost after the commit: the token is then unknown.     *)
Respond(r) ==
    /\ pc[r] = "respond"
    /\ \E a \in {"ok", "error"} : Answer(r, a)
    /\ UNCHANGED <<clock, active, rows, expires, user, rowLock, token, txNow>>

-----------------------------------------------------------------------------
(* Logout *)

(* Faulty: an UPDATE in a transaction that is never committed. *)
RevokeSessionUncommitted(r) ==
    /\ pc[r] = "revoke"
    /\ rowLock[token[r]] = NoRequest
    /\ loggedOut' = loggedOut \cup {token[r]}
    /\ Answer(r, "no_content")
    /\ UNCHANGED <<clock, active, sessions, revoked, parent, origin, expires, user,
                   rowLock, token, txNow>>

(* One UPDATE; it waits for a rotation that holds the row. *)
RevokeSession(r) ==
    /\ pc[r] = "revoke"
    /\ rowLock[token[r]] = NoRequest
    /\ revoked' = revoked \cup {token[r]}
    /\ loggedOut' = loggedOut \cup {token[r]}
    /\ Answer(r, "no_content")
    /\ UNCHANGED <<clock, active, sessions, parent, origin, expires, user, rowLock,
                   token, txNow>>

(* The statement fails; the handler drops the error and answers 204. *)
LogoutFails(r) ==
    /\ pc[r] = "revoke"
    /\ Answer(r, "no_content")
    /\ UNCHANGED <<clock, active, rows, expires, user, rowLock, token, txNow>>

-----------------------------------------------------------------------------
(* A statement fails or the client goes away: rollback.  Refresh takes any *)
(* error of RotateSession for an invalid token.                            *)
Fail(r) ==
    /\ pc[r] \in InFlight \ {"revoke", "respond"}
    /\ ReleaseLocks(r)
    /\ Answer(r, IF pc[r] = "create" THEN "error" ELSE "unauthorized")
    /\ UNCHANGED <<clock, active, rows, expires, user, token, txNow>>

(* An operator clears is_active. *)
Deactivate(u) ==
    /\ u \in active
    /\ active' = active \ {u}
    /\ UNCHANGED <<clock, rows, expires, user, rowLock, pc, token, txNow, reply>>

Tick ==
    /\ clock < MaxTime
    /\ clock' = clock + 1
    /\ UNCHANGED <<active, rows, expires, user, rowLock, pc, token, txNow, reply>>

Arrive(r) == Login(r) \/ VerifyPhone(r) \/ Refresh(r) \/ Logout(r) \/ Refuse(r)

Serve(r) ==
    \/ CreateSession(r) \/ BeginRotation(r) \/ LockToken(r) \/ RefuseToken(r)
    \/ LoadUser(r) \/ RefuseInactive(r) \/ Rotate(r) \/ Respond(r)
    \/ RevokeSession(r)

Finished == (\A r \in Requests : pc[r] = "done") /\ UNCHANGED vars

Next ==
    \/ \E r \in Requests : Arrive(r) \/ Serve(r) \/ LogoutFails(r) \/ Fail(r)
    \/ \E u \in Users : Deactivate(u)
    \/ Tick
    \/ Finished

Spec == Init /\ [][Next]_vars

(* A goroutine that can take a step takes one; a Logout that waits for a   *)
(* row waits for its lock, not for a failure.  Nothing is assumed of       *)
(* arrivals, failures, operators or the clock.                             *)
FairSpec == Spec /\ \A r \in Requests : WF_vars(Serve(r))

-----------------------------------------------------------------------------
(* Properties *)

(* A token is exchanged at most once, however often and however            *)
(* concurrently a client sends it.                                         *)
OneSuccessor ==
    \A r, s \in sessions : parent[r] = parent[s] /\ parent[r] # NoRequest => r = s

(* Of the tokens of one login at most one works. *)
OneLivePerLogin ==
    \A s, t \in sessions \ revoked : origin[s] = origin[t] => s = t

(* A refresh that fails - inactive user, lost connection - costs nothing:  *)
(* a dead token was replaced or logged out.                                *)
NoTokenLost ==
    \A t \in revoked : t \in loggedOut \/ \E s \in sessions : parent[s] = t

(* A replacement appears in the very step that kills the token it          *)
(* replaces, a token that worked when the transaction began.               *)
RotationConsumesLive ==
    [][\A r \in sessions' \ sessions :
          parent'[r] # NoRequest =>
              /\ parent'[r] \in (sessions \ revoked) \cap revoked'
              /\ txNow[r] < expires[parent'[r]]]_vars

(* A session ends for good: once none of the tokens of a login works, no   *)
(* refresh that was on its way brings it back.                             *)
SessionsEndForGood ==
    [][\A o \in sessions :
          (\A t \in sessions \ revoked : origin[t] # o) =>
              \A t \in sessions' \ revoked' : origin'[t] # o]_vars

(* "logged out token is rejected": after the 204 of a Logout its token     *)
(* does not work any more.                                                 *)
LogoutHonoured ==
    \A r \in Requests :
        reply[r] = "no_content" /\ token[r] # NoRequest => token[r] \in revoked

(* Every request is answered without the help of a failure: no row lock    *)
(* outlives its transaction, which would block a refresh or a logout.      *)
EveryRequestAnswered ==
    \A r \in Requests : (pc[r] \in InFlight) ~> (pc[r] = "done")

(* Rows, locks and transactions implement the ledger. *)
Ledger == INSTANCE SessionLedger WITH
    Tokens <- Requests, live <- sessions \ revoked, spent <- revoked, origin <- origin

ImplementsLedger == Ledger!Spec
=============================================================================
