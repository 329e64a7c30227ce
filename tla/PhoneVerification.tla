-------------------------- MODULE PhoneVerification --------------------------
(***************************************************************************)
(* Phone verification by one-time code: the requests POST /auth/register,  *)
(* /auth/resend-phone-verification and /auth/verify-phone, from the        *)
(* service down to the SQL statements of IssueOTP and VerifyOTP.           *)
(*                                                                         *)
(* Every HTTP request is one goroutine that runs once.  Its transactions   *)
(* are split where another transaction can get in between: at each lock    *)
(* PostgreSQL may make it wait for (READ COMMITTED, SELECT ... FOR         *)
(* UPDATE), and between a value that is read and the write that uses it.   *)
(* What a transaction writes becomes visible in the action that commits    *)
(* it; locks it takes are visible at once.                                 *)
(*                                                                         *)
(* A challenge is named by the request that stored it (a request stores at *)
(* most one).  A code is not a string: whether the code a client submits   *)
(* matches the challenge it is compared with is a free choice.             *)
(***************************************************************************)
EXTENDS Integers, FiniteSets

CONSTANTS
    Users,          \* the users (an email and a phone number each)
    Requests,       \* the HTTP requests, each served by one goroutine
    NoRequest,      \* "nobody": the owner of a free lock
    TTL,            \* OTPPolicy.TTL: lifetime of a code
    Cooldown,       \* OTPPolicy.ResendCooldown: pause between two codes
    ResendWindow,   \* OTPPolicy.ResendWindow: the window MaxResends is about
    MaxResends,     \* OTPPolicy.MaxResends: codes per user and window
    MaxAttempts,    \* OTPPolicy.MaxAttempts: wrong codes per challenge
    Skew,           \* the API host's clock minus the database's clock
    MaxTime         \* bound of the model: the database clock stops here

ASSUME NobodyAssumption == NoRequest \notin Requests
ASSUME RequestsAssumption == IsFiniteSet(Requests)
ASSUME PolicyAssumption ==
    /\ TTL \in Nat \ {0}
    /\ Cooldown \in Nat \ {0}
    /\ ResendWindow \in Nat
    /\ MaxResends \in Nat \ {0}
    /\ MaxAttempts \in Nat \ {0}
ASSUME ClockAssumption == Skew \in Int /\ MaxTime \in Nat

VARIABLES
    clock,          \* the database clock, now()
    registered,     \* the rows of users
    verifiedAt,     \* users.phone_verified_at, or Never
    otp,            \* the rows of otp_challenges, by the request that stored them
    userLock,       \* the transaction that holds the row of a user
    rowLock,        \* the transaction that holds the row of a challenge
    pc,             \* where a request is
    target,         \* the user whose phone (or email) a request names
    expiresAt,      \* IssueOTPParams.ExpiresAt
    txNow,          \* now() of a request's transaction: the time of its BEGIN
    picked,         \* the challenge a request's SELECT ... LIMIT 1 is about
    others,         \* the further rows in the snapshot of that SELECT
    seen,           \* attempt_count as VerifyOTP read it
    reply,          \* the answer of a request
    guessed,        \* history: the challenge that counted a request's wrong code
    redeemed        \* history: the challenge a request verified

users == <<registered, verifiedAt>>
locks == <<userLock, rowLock>>
local == <<expiresAt, txNow, picked, others, seen>>
kept == <<target, guessed, redeemed>>
vars == <<clock, users, otp, locks, pc, local, reply, kept>>

-----------------------------------------------------------------------------
Never == -1

Challenge == [user : Users, created : Nat, expires : Int, attempts : Nat,
              verified : Nat \cup {Never}, revoked : {"no", "yes"}]

Issuing == {"lock_latest", "count", "insert"}      \* IssueOTP, users row locked
Judging == {"judge", "activate"}                   \* VerifyOTP, challenge locked
InFlight == {"create", "find", "begin", "lock_user", "send", "select", "lock_row",
             "session"} \cup Issuing \cup Judging
Replies == {"none", "ok", "invalid", "conflict", "cooldown", "rate_limited",
            "sms_failed", "expired", "locked", "error"}

TypeOK ==
    /\ clock \in 0 .. MaxTime
    /\ registered \subseteq Users
    /\ verifiedAt \in [Users -> Nat \cup {Never}]
    /\ DOMAIN otp \subseteq Requests
    /\ \A c \in DOMAIN otp : otp[c] \in Challenge
    /\ userLock \in [Users -> Requests \cup {NoRequest}]
    /\ rowLock \in [Requests -> Requests \cup {NoRequest}]
    /\ pc \in [Requests -> {"idle", "done"} \cup InFlight]
    /\ target \in [Requests -> Users]
    /\ expiresAt \in [Requests -> Int]
    /\ txNow \in [Requests -> Nat]
    /\ picked \in [Requests -> Requests \cup {NoRequest}]
    /\ others \in [Requests -> SUBSET Requests]
    /\ seen \in [Requests -> Nat]
    /\ reply \in [Requests -> Replies]
    /\ guessed \in [Requests -> Requests \cup {NoRequest}]
    /\ redeemed \in [Requests -> Requests \cup {NoRequest}]

(* time.Now() of the API process. *)
AppNow == clock + Skew

Challenges(u) == {c \in DOMAIN otp : otp[c].user = u}

(* Faulty: a WHERE clause that forgets verified_at IS NULL. *)
IsLiveIfUnrevoked(c) == otp[c].revoked = "no"

IsLive(c) == otp[c].verified = Never /\ otp[c].revoked = "no"

(* WHERE ... AND verified_at IS NULL AND revoked_at IS NULL *)
Live(u) == {c \in Challenges(u) : IsLive(c)}

(* Faulty: ORDER BY created_at without DESC. *)
Oldest(S) == {c \in S : \A d \in S : otp[c].created <= otp[d].created}

(* ORDER BY created_at DESC LIMIT 1: any of the rows that tie. *)
Newest(S) == {c \in S : \A d \in S : otp[d].created <= otp[c].created}

(* The rows IssueOTP counts: created_at >= now() - window, now() being the *)
(* time at which the transaction began.                                    *)
InWindow(u, now) == {c \in Challenges(u) : otp[c].created >= now - ResendWindow}

Init ==
    /\ clock = 0
    /\ registered \in SUBSET Users
    /\ verifiedAt = [u \in Users |-> Never]
    /\ otp = [c \in {} |-> {}]
    /\ userLock = [u \in Users |-> NoRequest]
    /\ rowLock = [c \in Requests |-> NoRequest]
    /\ pc = [r \in Requests |-> "idle"]
    /\ target \in [Requests -> Users]
    /\ expiresAt = [r \in Requests |-> 0]
    /\ txNow = [r \in Requests |-> 0]
    /\ picked = [r \in Requests |-> NoRequest]
    /\ others = [r \in Requests |-> {}]
    /\ seen = [r \in Requests |-> 0]
    /\ reply = [r \in Requests |-> "none"]
    /\ guessed = [r \in Requests |-> NoRequest]
    /\ redeemed = [r \in Requests |-> NoRequest]

-----------------------------------------------------------------------------
(* Steps that several handlers share. *)

Goto(r, l) == pc' = [pc EXCEPT ![r] = l]

(* The handler returns; its local variables are gone. *)
Answer(r, a) ==
    /\ Goto(r, "done")
    /\ reply' = [reply EXCEPT ![r] = a]
    /\ expiresAt' = [expiresAt EXCEPT ![r] = 0]
    /\ txNow' = [txNow EXCEPT ![r] = 0]
    /\ picked' = [picked EXCEPT ![r] = NoRequest]
    /\ others' = [others EXCEPT ![r] = {}]
    /\ seen' = [seen EXCEPT ![r] = 0]

(* COMMIT or ROLLBACK: every lock of the transaction goes. *)
ReleaseLocks(r) ==
    /\ userLock' = [u \in Users |-> IF userLock[u] = r THEN NoRequest ELSE userLock[u]]
    /\ rowLock' = [c \in Requests |-> IF rowLock[c] = r THEN NoRequest ELSE rowLock[c]]

(* sendPhoneVerification up to the call of IssueOTP: the code and its      *)
(* expiry are fixed before the transaction begins.                         *)
PrepareCode(r) ==
    /\ Goto(r, "begin")
    /\ expiresAt' = [expiresAt EXCEPT ![r] = AppNow + TTL]

-----------------------------------------------------------------------------
(* Requests arrive.  One whose fields do not validate is answered at once. *)

Register(r) == pc[r] = "idle" /\ Goto(r, "create")
               /\ UNCHANGED <<clock, users, otp, locks, local, reply, kept>>

ResendPhoneVerification(r) ==
    /\ pc[r] = "idle"
    /\ Goto(r, "find")
    /\ UNCHANGED <<clock, users, otp, locks, local, reply, kept>>

(* Up to the BEGIN of VerifyOTP: nothing before it reads or writes what is *)
(* shared, and a request may arrive at any time.                           *)
VerifyPhone(r) ==
    /\ pc[r] = "idle"
    /\ txNow' = [txNow EXCEPT ![r] = clock]
    /\ Goto(r, "select")
    /\ UNCHANGED <<clock, users, otp, locks, expiresAt, picked, others, seen, reply, kept>>

RejectMalformed(r) ==
    /\ pc[r] = "idle"
    /\ Answer(r, "invalid")
    /\ UNCHANGED <<clock, users, otp, locks, kept>>

(* CreateUser: one transaction inserts the user and the customer role; the *)
(* unique indexes on email and phone refuse the second of two inserts.     *)
CreateUser(r) ==
    /\ pc[r] = "create"
    /\ target[r] \notin registered
    /\ registered' = registered \cup {target[r]}
    /\ PrepareCode(r)
    /\ UNCHANGED <<clock, verifiedAt, otp, locks, txNow, picked, others, seen, reply, kept>>

RefuseDuplicate(r) ==
    /\ pc[r] = "create"
    /\ target[r] \in registered
    /\ Answer(r, "conflict")
    /\ UNCHANGED <<clock, users, otp, locks, kept>>

(* ResendPhoneVerification reads the user outside any transaction: what it *)
(* learns may be out of date when IssueOTP runs.                           *)
FindByPhone(r) ==
    /\ pc[r] = "find"
    /\ IF target[r] \notin registered \/ verifiedAt[target[r]] # Never
       THEN Answer(r, "ok")
       ELSE PrepareCode(r) /\ UNCHANGED <<txNow, picked, others, seen, reply>>
    /\ UNCHANGED <<clock, users, otp, locks, kept>>

-----------------------------------------------------------------------------
(* IssueOTP *)

BeginIssue(r) ==
    /\ pc[r] = "begin"
    /\ txNow' = [txNow EXCEPT ![r] = clock]
    /\ Goto(r, "lock_user")
    /\ UNCHANGED <<clock, users, otp, locks, expiresAt, picked, others, seen, reply, kept>>

(* Faulty: the SELECT of the user without FOR UPDATE. *)
LockUserWithoutLock(r) ==
    LET u == target[r] IN
    /\ pc[r] = "lock_user"
    /\ \/ /\ Challenges(u) = {}
          /\ Goto(r, "count")
          /\ UNCHANGED picked
       \/ \E c \in Newest(Challenges(u)) :
             /\ picked' = [picked EXCEPT ![r] = c]
             /\ Goto(r, "lock_latest")
    /\ UNCHANGED <<clock, users, otp, locks, expiresAt, txNow, others, seen, reply, kept>>

(* SELECT TRUE FROM users ... FOR UPDATE, then the snapshot of the SELECT  *)
(* that looks for the latest challenge.                                    *)
LockUser(r) ==
    LET u == target[r] IN
    /\ pc[r] = "lock_user"
    /\ userLock[u] = NoRequest
    /\ userLock' = [userLock EXCEPT ![u] = r]
    /\ \/ /\ Challenges(u) = {}
          /\ Goto(r, "count")
          /\ UNCHANGED picked
       \/ \E c \in Newest(Challenges(u)) :
             /\ picked' = [picked EXCEPT ![r] = c]
             /\ Goto(r, "lock_latest")
    /\ UNCHANGED <<clock, users, otp, rowLock, expiresAt, txNow, others, seen, reply, kept>>

TooSoon(c) == AppNow - otp[c].created < Cooldown

(* FOR UPDATE waits for the row; then the cooldown is measured with the    *)
(* API's clock against created_at, which the database wrote.               *)
LockLatest(r) ==
    /\ pc[r] = "lock_latest"
    /\ rowLock[picked[r]] = NoRequest
    /\ ~TooSoon(picked[r])
    /\ rowLock' = [rowLock EXCEPT ![picked[r]] = r]
    /\ Goto(r, "count")
    /\ UNCHANGED <<clock, users, otp, userLock, local, reply, kept>>

(* Faulty: the early return leaves the transaction open. *)
RefuseCooldownWithoutRollback(r) ==
    /\ pc[r] = "lock_latest"
    /\ rowLock[picked[r]] = NoRequest
    /\ TooSoon(picked[r])
    /\ Answer(r, "cooldown")
    /\ UNCHANGED <<clock, users, otp, locks, kept>>

RefuseCooldown(r) ==
    /\ pc[r] = "lock_latest"
    /\ rowLock[picked[r]] = NoRequest
    /\ TooSoon(picked[r])
    /\ ReleaseLocks(r)
    /\ Answer(r, "cooldown")
    /\ UNCHANGED <<clock, users, otp, kept>>

(* Faulty: the limit compared with > instead of >=. *)
OverLimitByOne(r) == Cardinality(InWindow(target[r], txNow[r])) > MaxResends

OverLimit(r) == Cardinality(InWindow(target[r], txNow[r])) >= MaxResends

RefuseRateLimited(r) ==
    /\ pc[r] = "count"
    /\ OverLimit(r)
    /\ ReleaseLocks(r)
    /\ Answer(r, "rate_limited")
    /\ UNCHANGED <<clock, users, otp, kept>>

(* UPDATE ... SET revoked_at: waits for every live row and locks it; the   *)
(* revocation itself shows when the transaction commits.                   *)
RevokeLive(r) ==
    /\ pc[r] = "count"
    /\ ~OverLimit(r)
    /\ \A c \in Live(target[r]) : rowLock[c] \in {NoRequest, r}
    /\ rowLock' = [c \in Requests |-> IF c \in Live(target[r]) THEN r ELSE rowLock[c]]
    /\ Goto(r, "insert")
    /\ UNCHANGED <<clock, users, otp, userLock, local, reply, kept>>

(* Faulty: a created_at column without its default. *)
NewChallengeWithoutTime(r) ==
    [user |-> target[r], created |-> Never, expires |-> expiresAt[r],
     attempts |-> 0, verified |-> Never, revoked |-> "no"]

NewChallenge(r) ==
    [user |-> target[r], created |-> txNow[r], expires |-> expiresAt[r],
     attempts |-> 0, verified |-> Never, revoked |-> "no"]

(* INSERT and COMMIT. *)
InsertChallenge(r) ==
    /\ pc[r] = "insert"
    /\ otp' = [c \in DOMAIN otp \cup {r} |->
                 IF c = r THEN NewChallenge(r)
                 ELSE IF rowLock[c] = r /\ IsLive(c) THEN [otp[c] EXCEPT !.revoked = "yes"]
                 ELSE otp[c]]
    /\ ReleaseLocks(r)
    /\ Goto(r, "send")
    /\ UNCHANGED <<clock, users, local, reply, kept>>

(* The SMS goes out after the commit; a failure leaves the challenge. *)
SendSMS(r) ==
    /\ pc[r] = "send"
    /\ \E a \in {"ok", "sms_failed"} : Answer(r, a)
    /\ UNCHANGED <<clock, users, otp, locks, kept>>

-----------------------------------------------------------------------------
(* VerifyOTP *)

(* The snapshot of the SELECT ... LIMIT 1 FOR UPDATE, any time after BEGIN. *)
SelectLive(r) ==
    LET u == target[r] IN
    /\ pc[r] = "select"
    /\ \E c \in Newest(Live(u)) :
          /\ picked' = [picked EXCEPT ![r] = c]
          /\ others' = [others EXCEPT ![r] = Live(u) \ {c}]
    /\ Goto(r, "lock_row")
    /\ UNCHANGED <<clock, users, otp, locks, expiresAt, txNow, seen, reply, kept>>

NoLiveChallenge(r) ==
    /\ pc[r] = "select"
    /\ Live(target[r]) = {}
    /\ Answer(r, "invalid")
    /\ UNCHANGED <<clock, users, otp, locks, kept>>

(* Faulty: the SELECT of the challenge without FOR UPDATE. *)
LockChallengeWithoutLock(r) ==
    /\ pc[r] = "lock_row"
    /\ IsLive(picked[r])
    /\ seen' = [seen EXCEPT ![r] = otp[picked[r]].attempts]
    /\ Goto(r, "judge")
    /\ UNCHANGED <<clock, users, otp, locks, expiresAt, txNow, picked, others, reply, kept>>

(* Faulty: the row is used as it was before the wait. *)
LockChallengeStale(r) ==
    /\ pc[r] = "lock_row"
    /\ rowLock[picked[r]] = NoRequest
    /\ rowLock' = [rowLock EXCEPT ![picked[r]] = r]
    /\ seen' = [seen EXCEPT ![r] = otp[picked[r]].attempts]
    /\ Goto(r, "judge")
    /\ UNCHANGED <<clock, users, otp, userLock, expiresAt, txNow, picked, others, reply, kept>>

(* The row lock is granted; READ COMMITTED tests the WHERE clause again.   *)
LockChallenge(r) ==
    /\ pc[r] = "lock_row"
    /\ rowLock[picked[r]] = NoRequest
    /\ IsLive(picked[r])
    /\ rowLock' = [rowLock EXCEPT ![picked[r]] = r]
    /\ seen' = [seen EXCEPT ![r] = otp[picked[r]].attempts]
    /\ Goto(r, "judge")
    /\ UNCHANGED <<clock, users, otp, userLock, expiresAt, txNow, picked, others, reply, kept>>

(* The row was settled meanwhile: on to the next row of the snapshot. *)
SkipSettled(r) ==
    /\ pc[r] = "lock_row"
    /\ rowLock[picked[r]] = NoRequest
    /\ ~IsLive(picked[r])
    /\ IF others[r] = {}
       THEN Answer(r, "invalid")
       ELSE /\ \E c \in Newest(others[r]) :
                  /\ picked' = [picked EXCEPT ![r] = c]
                  /\ others' = [others EXCEPT ![r] = @ \ {c}]
            /\ UNCHANGED <<pc, expiresAt, txNow, seen, reply>>
    /\ UNCHANGED <<clock, users, otp, locks, kept>>

(* Faulty: now > expiry instead of !now.Before(expiry). *)
ExpiredAfter(c) == AppNow > otp[c].expires

Expired(c) == AppNow >= otp[c].expires

(* An expired challenge is revoked. *)
RefuseExpired(r) ==
    /\ pc[r] = "judge"
    /\ Expired(picked[r])
    /\ otp' = [otp EXCEPT ![picked[r]].revoked = "yes"]
    /\ ReleaseLocks(r)
    /\ \E a \in {"expired", "error"} : Answer(r, a)
    /\ UNCHANGED <<clock, users, kept>>

(* A wrong code counts; the last one allowed revokes the challenge.  The   *)
(* connection may die once the commit is done: the client sees an error.   *)
RefuseWrongCode(r) ==
    LET attempts == seen[r] + 1
        exhausted == attempts >= MaxAttempts
    IN
    /\ pc[r] = "judge"
    /\ ~Expired(picked[r])
    /\ otp' = [otp EXCEPT ![picked[r]].attempts = attempts,
                          ![picked[r]].revoked = IF exhausted THEN "yes" ELSE @]
    /\ guessed' = [guessed EXCEPT ![r] = picked[r]]
    /\ ReleaseLocks(r)
    /\ \E a \in {IF exhausted THEN "locked" ELSE "invalid", "error"} : Answer(r, a)
    /\ UNCHANGED <<clock, users, target, redeemed>>

(* UPDATE otp_challenges SET verified_at: invisible until the commit. *)
AcceptCode(r) ==
    /\ pc[r] = "judge"
    /\ ~Expired(picked[r])
    /\ Goto(r, "activate")
    /\ UNCHANGED <<clock, users, otp, locks, local, reply, kept>>

(* Faulty: phone_verified_at overwritten without COALESCE. *)
LastOf(old, new) == new

FirstOf(old, new) == IF old = Never THEN new ELSE old      \* COALESCE

(* UPDATE users waits for the row of the user; then COMMIT. *)
ActivateUser(r) ==
    LET u == otp[picked[r]].user IN
    /\ pc[r] = "activate"
    /\ userLock[u] = NoRequest
    /\ otp' = [otp EXCEPT ![picked[r]].verified = txNow[r]]
    /\ verifiedAt' = [verifiedAt EXCEPT ![u] = FirstOf(@, txNow[r])]
    /\ redeemed' = [redeemed EXCEPT ![r] = picked[r]]
    /\ ReleaseLocks(r)
    /\ Goto(r, "session")
    /\ UNCHANGED <<clock, registered, local, reply, target, guessed>>

(* issue: the refresh session is inserted after the commit; the foreign    *)
(* key takes a share lock on the user, so it waits for FOR UPDATE.         *)
IssueSession(r) ==
    /\ pc[r] = "session"
    /\ userLock[target[r]] = NoRequest
    /\ Answer(r, "ok")
    /\ UNCHANGED <<clock, users, otp, locks, kept>>

-----------------------------------------------------------------------------
(* A statement fails, the client goes away or the process dies: whatever   *)
(* is not committed is rolled back.                                        *)
Fail(r) ==
    /\ pc[r] \in InFlight
    /\ ReleaseLocks(r)
    /\ Answer(r, "error")
    /\ UNCHANGED <<clock, users, otp, kept>>

WaitsFor(r, s) ==
    \/ pc[r] \in {"lock_latest", "lock_row"} /\ rowLock[picked[r]] = s
    \/ pc[r] = "count" /\ ~OverLimit(r) /\ s # r
          /\ \E c \in Live(target[r]) : rowLock[c] = s
    \/ pc[r] \in {"lock_user", "activate", "session"} /\ userLock[target[r]] = s

(* IssueOTP locks the user before the challenge and VerifyOTP the          *)
(* challenge before the user, so two of them can wait for each other.      *)
Deadlocked(r) == \E s \in Requests \ {r} : WaitsFor(r, s) /\ WaitsFor(s, r)

(* PostgreSQL's deadlock detector aborts one of the two. *)
AbortDeadlock(r) ==
    /\ Deadlocked(r)
    /\ ReleaseLocks(r)
    /\ Answer(r, "error")
    /\ UNCHANGED <<clock, users, otp, kept>>

Tick ==
    /\ clock < MaxTime
    /\ clock' = clock + 1
    /\ UNCHANGED <<users, otp, locks, pc, local, reply, kept>>

Arrive(r) ==
    Register(r) \/ ResendPhoneVerification(r) \/ VerifyPhone(r) \/ RejectMalformed(r)

IssueStep(r) ==
    \/ CreateUser(r) \/ RefuseDuplicate(r) \/ FindByPhone(r) \/ BeginIssue(r)
    \/ LockUser(r) \/ LockLatest(r) \/ RefuseCooldown(r) \/ RefuseRateLimited(r)
    \/ RevokeLive(r) \/ InsertChallenge(r) \/ SendSMS(r)

VerifyStep(r) ==
    \/ SelectLive(r) \/ NoLiveChallenge(r) \/ LockChallenge(r) \/ SkipSettled(r)
    \/ RefuseExpired(r) \/ RefuseWrongCode(r) \/ AcceptCode(r) \/ ActivateUser(r)
    \/ IssueSession(r)

Finished == (\A r \in Requests : pc[r] = "done") /\ UNCHANGED vars

Next ==
    \/ \E r \in Requests :
          Arrive(r) \/ IssueStep(r) \/ VerifyStep(r) \/ Fail(r) \/ AbortDeadlock(r)
    \/ Tick
    \/ Finished

Spec == Init /\ [][Next]_vars

(* A goroutine that can take a step takes one, and the deadlock detector   *)
(* runs.  Nothing is assumed of arrivals, failures or the clock.           *)
Fairness ==
    \A r \in Requests :
        WF_vars(IssueStep(r)) /\ WF_vars(VerifyStep(r)) /\ WF_vars(AbortDeadlock(r))

FairSpec == Spec /\ Fairness

-----------------------------------------------------------------------------
(* Properties *)

(* A user never has two live challenges: IssueOTP revokes the live ones    *)
(* under the lock on the user before it stores its own.                    *)
AtMostOneLive == \A u \in Users : \A c, d \in Live(u) : c = d

(* In no interval of the length of the resend window are more than         *)
(* MaxResends challenges of one user created, however requests interleave  *)
(* and whenever their transactions began.                                  *)
WindowLimit ==
    \A u \in Users : \A t \in 0 .. MaxTime :
        Cardinality({c \in Challenges(u) : otp[c].created \in t .. t + ResendWindow})
            <= MaxResends

Guesses(c) == {r \in Requests : guessed[r] = c}
Redemptions(c) == {r \in Requests : redeemed[r] = c}

(* No guess is lost: attempt_count is the number of requests whose wrong   *)
(* code was compared with the challenge, it never exceeds MaxAttempts, and *)
(* a challenge that has reached it is dead.                                *)
GuessBudget ==
    \A c \in DOMAIN otp :
        /\ otp[c].attempts = Cardinality(Guesses(c))
        /\ otp[c].attempts <= MaxAttempts
        /\ otp[c].attempts = MaxAttempts => otp[c].revoked = "yes" /\ otp[c].verified = Never

(* A code opens the account once: of all the requests that submit the      *)
(* right code for a challenge at most one is told so.                      *)
OneRedemption ==
    \A c \in DOMAIN otp :
        \A r, s \in Redemptions(c) : r = s

(* The time of verification lies before the expiry on the API's clock.     *)
VerifiedInTime ==
    \A c \in DOMAIN otp :
        otp[c].verified # Never => otp[c].verified + Skew < otp[c].expires

(* A challenge that was verified or revoked never changes again, and no    *)
(* challenge disappears.                                                   *)
SettledFrozen ==
    [][\A c \in DOMAIN otp :
          /\ c \in DOMAIN otp'
          /\ ~IsLive(c) => otp'[c] = otp[c]]_vars

(* phone_verified_at keeps its first value, though a resend that raced     *)
(* with a verification lets the user verify a second time.                 *)
FirstVerificationStands ==
    [][\A u \in Users : verifiedAt[u] # Never => verifiedAt'[u] = verifiedAt[u]]_vars

(* When a challenge is stored, every earlier one of the same user is at    *)
(* least Cooldown old on the API's clock.                                  *)
CooldownHeld ==
    [][\A r \in DOMAIN otp' \ DOMAIN otp :
          \A c \in Challenges(target[r]) : AppNow - otp[c].created >= Cooldown]_vars

(* In its handler, with no lock to wait for. *)
Free(r) == pc[r] \in InFlight /\ \A s \in Requests : ~WaitsFor(r, s)

(* No request waits in vain: who holds what it waits for can go on, waits  *)
(* for one that can, or is in a deadlock of two, which PostgreSQL breaks.  *)
WaitsEnd ==
    \A r, s \in Requests : WaitsFor(r, s) =>
        \/ Free(s) \/ Deadlocked(s)
        \/ \E t \in Requests : WaitsFor(s, t) /\ Free(t)

(* Every request is answered: a lock is always given back, and the cycle   *)
(* of IssueOTP and VerifyOTP is broken.                                    *)
EveryRequestAnswered ==
    \A r \in Requests : (pc[r] \in InFlight) ~> (pc[r] = "done")

(* Rows, locks, clocks and transactions implement the contract of the      *)
(* codes.                                                                  *)
CodeOf(u) == IF Live(u) = {} THEN NoRequest ELSE CHOOSE c \in Live(u) : TRUE

TriesOf(u) == IF Live(u) = {} THEN 0 ELSE otp[CodeOf(u)].attempts

Contract == INSTANCE OtpContract WITH
    Codes <- Requests, NoCode <- NoRequest,
    pending <- [u \in Users |-> CodeOf(u)],
    tries <- [u \in Users |-> TriesOf(u)],
    verified <- {u \in Users : verifiedAt[u] # Never}

ImplementsContract == Contract!Spec
=============================================================================
