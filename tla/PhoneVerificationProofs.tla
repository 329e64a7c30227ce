----------------------- MODULE PhoneVerificationProofs -----------------------
(***************************************************************************)
(* Proofs about PhoneVerification for every set of users and requests and  *)
(* every policy.  The inductive invariant IInv says who may hold which     *)
(* lock and what a transaction knows while it holds it.                    *)
(***************************************************************************)
EXTENDS PhoneVerification, FiniteSetTheorems, TLAPS

(* The lock on a user belongs to the IssueOTP transaction about that user; *)
(* the lock on a challenge to an IssueOTP or VerifyOTP transaction that is *)
(* past the statement that takes it.                                       *)
LocksOwned ==
    /\ \A u \in Users : userLock[u] # NoRequest =>
          pc[userLock[u]] \in Issuing /\ target[userLock[u]] = u
    /\ \A r \in Requests : pc[r] \in Issuing => userLock[target[r]] = r
    /\ \A c \in Requests : rowLock[c] # NoRequest =>
          pc[rowLock[c]] \in {"count", "insert"} \cup Judging
    /\ \A r \in Requests : pc[r] \in Judging => rowLock[picked[r]] = r

(* A request works on challenges of its own user; the challenge it stores  *)
(* appears when its transaction commits.                                   *)
RowsKnown ==
    /\ \A c \in DOMAIN otp : otp[c].user = target[c] /\ pc[c] \in {"send", "done"}
    /\ \A r \in Requests : pc[r] \in {"lock_latest", "lock_row"} \cup Judging =>
          picked[r] \in Challenges(target[r])
    /\ \A r \in Requests : pc[r] = "lock_row" => others[r] \subseteq Challenges(target[r])

(* What VerifyOTP read under the lock still holds. *)
JudgedLive ==
    \A r \in Requests : pc[r] \in Judging =>
        IsLive(picked[r]) /\ seen[r] = otp[picked[r]].attempts

(* What IssueOTP tested under the lock still holds. *)
IssueReady ==
    /\ \A r \in Requests : pc[r] = "lock_latest" =>
          picked[r] \in Newest(Challenges(target[r]))
    /\ \A r \in Requests : pc[r] \in {"count", "insert"} =>
          \A c \in Challenges(target[r]) : AppNow - otp[c].created >= Cooldown
    /\ \A r \in Requests : pc[r] = "insert" =>
          ~OverLimit(r) /\ \A c \in Live(target[r]) : rowLock[c] = r

(* Wrong and right codes are those of requests whose VerifyOTP committed. *)
VerdictsKnown ==
    /\ \A r \in Requests : pc[r] # "done" => guessed[r] = NoRequest
    /\ \A r \in Requests : pc[r] \notin {"session", "done"} => redeemed[r] = NoRequest
    /\ \A r \in Requests : guessed[r] # NoRequest => guessed[r] \in DOMAIN otp
    /\ \A r \in Requests : redeemed[r] # NoRequest =>
          redeemed[r] \in DOMAIN otp /\ otp[redeemed[r]].verified # Never

(* No transaction began in the future; one that accepted a code did so     *)
(* before the expiry.                                                      *)
TimesKnown ==
    /\ \A r \in Requests : txNow[r] <= clock
    /\ \A r \in Requests : pc[r] = "activate" =>
          txNow[r] + Skew < otp[picked[r]].expires

IInv ==
    /\ TypeOK
    /\ LocksOwned
    /\ RowsKnown
    /\ JudgedLive
    /\ IssueReady
    /\ VerdictsKnown
    /\ TimesKnown

-----------------------------------------------------------------------------
(* Type correctness *)

LEMMA InitTypeOK == Init => TypeOK
BY ClockAssumption DEF Init, TypeOK, Never, InFlight, Replies

(* An answer frees the local variables of its request and nothing else. *)
LEMMA AnswerType ==
    ASSUME TypeOK, NEW r \in Requests, NEW a \in Replies, Answer(r, a)
    PROVE  /\ pc' \in [Requests -> {"idle", "done"} \cup InFlight]
           /\ expiresAt' \in [Requests -> Int]
           /\ txNow' \in [Requests -> Nat]
           /\ picked' \in [Requests -> Requests \cup {NoRequest}]
           /\ others' \in [Requests -> SUBSET Requests]
           /\ seen' \in [Requests -> Nat]
           /\ reply' \in [Requests -> Replies]
BY DEF Answer, Goto, TypeOK

LEMMA ReleaseType ==
    ASSUME TypeOK, NEW r \in Requests, ReleaseLocks(r)
    PROVE  /\ userLock' \in [Users -> Requests \cup {NoRequest}]
           /\ rowLock' \in [Requests -> Requests \cup {NoRequest}]
BY DEF ReleaseLocks, TypeOK

LEMMA ArriveType ==
    ASSUME TypeOK, NEW r \in Requests, Arrive(r)
    PROVE  TypeOK'
<1>1. CASE Register(r)
  BY <1>1 DEF Register, Goto, TypeOK, InFlight, users, locks, local, kept
<1>2. CASE ResendPhoneVerification(r)
  BY <1>2 DEF ResendPhoneVerification, Goto, TypeOK, InFlight, users, locks, local, kept
<1>3. CASE VerifyPhone(r)
  BY <1>3 DEF VerifyPhone, Goto, TypeOK, InFlight, users, locks, local, kept
<1>4. CASE RejectMalformed(r)
  BY <1>4, AnswerType DEF RejectMalformed, Replies, TypeOK, users, locks, kept
<1>. QED
  BY <1>1, <1>2, <1>3, <1>4 DEF Arrive

(* The three updates of VerifyOTP, as the rows they leave: one row gets new *)
(* values of attempts, verified and revoked, the others stay.               *)
Row(c, attempts, verified, revoked) ==
    [user |-> otp[c].user, created |-> otp[c].created, expires |-> otp[c].expires,
     attempts |-> attempts, verified |-> verified, revoked |-> revoked]

OnlyRow(c, row) ==
    /\ c \in DOMAIN otp
    /\ DOMAIN otp' = DOMAIN otp
    /\ otp'[c] = row
    /\ row \in Challenge
    /\ \A d \in DOMAIN otp : d # c => otp'[d] = otp[d]

LEMMA OnlyRowType ==
    ASSUME TypeOK, NEW c, NEW row, OnlyRow(c, row)
    PROVE  DOMAIN otp' \subseteq Requests /\ \A d \in DOMAIN otp' : otp'[d] \in Challenge
BY DEF OnlyRow, TypeOK

LEMMA ExpiredRow ==
    ASSUME TypeOK, RowsKnown, NEW r \in Requests, RefuseExpired(r)
    PROVE  OnlyRow(picked[r], Row(picked[r], otp[picked[r]].attempts,
                                  otp[picked[r]].verified, "yes"))
<1> DEFINE p == picked[r]
<1>1. p \in DOMAIN otp /\ otp[p] \in Challenge
  BY DEF TypeOK, RowsKnown, RefuseExpired, Challenges, Judging
<1>2. otp' = [otp EXCEPT ![p] = [otp[p] EXCEPT !.revoked = "yes"]]
  BY DEF RefuseExpired
<1>3. [otp[p] EXCEPT !.revoked = "yes"] = Row(p, otp[p].attempts, otp[p].verified, "yes")
  BY <1>1 DEF Challenge, Row
<1>4. otp' = [otp EXCEPT ![p] = Row(p, otp[p].attempts, otp[p].verified, "yes")]
  BY <1>2, <1>3
<1>5. Row(p, otp[p].attempts, otp[p].verified, "yes") \in Challenge
  BY <1>1, PolicyAssumption DEF Row, Challenge
<1>. QED
  BY <1>1, <1>4, <1>5 DEF OnlyRow

LEMMA RevokedField ==
    ASSUME NEW x \in Challenge, NEW v \in {"no", "yes"}
    PROVE  [x EXCEPT !.revoked = v] =
             [user |-> x.user, created |-> x.created, expires |-> x.expires,
              attempts |-> x.attempts, verified |-> x.verified, revoked |-> v]
BY DEF Challenge

LEMMA WrongCodeFields ==
    ASSUME NEW x \in Challenge, NEW n \in Nat, NEW v \in {"no", "yes"}
    PROVE  [[x EXCEPT !.attempts = n] EXCEPT !.revoked = v] =
             [user |-> x.user, created |-> x.created, expires |-> x.expires,
              attempts |-> n, verified |-> x.verified, revoked |-> v]
<1>1. [x EXCEPT !.attempts = n] =
        [user |-> x.user, created |-> x.created, expires |-> x.expires,
         attempts |-> n, verified |-> x.verified, revoked |-> x.revoked]
  BY DEF Challenge
<1> DEFINE y == [user |-> x.user, created |-> x.created, expires |-> x.expires,
                 attempts |-> n, verified |-> x.verified, revoked |-> x.revoked]
<1>2. y \in Challenge
  BY DEF Challenge
<1>3. [y EXCEPT !.revoked = v] =
        [user |-> y.user, created |-> y.created, expires |-> y.expires,
         attempts |-> y.attempts, verified |-> y.verified, revoked |-> v]
  BY <1>2, RevokedField
<1>. QED
  BY <1>1, <1>3

LEMMA WrongCodeRow ==
    ASSUME TypeOK, RowsKnown, NEW r \in Requests, RefuseWrongCode(r)
    PROVE  OnlyRow(picked[r], Row(picked[r], seen[r] + 1, otp[picked[r]].verified,
                    IF seen[r] + 1 >= MaxAttempts THEN "yes" ELSE otp[picked[r]].revoked))
<1> DEFINE p == picked[r]
           n == seen[r] + 1
           v == IF n >= MaxAttempts THEN "yes" ELSE otp[p].revoked
<1>1. p \in DOMAIN otp /\ otp[p] \in Challenge /\ n \in Nat
  BY DEF TypeOK, RowsKnown, RefuseWrongCode, Challenges, Judging
<1>2. otp' = [otp EXCEPT ![p] = [[otp[p] EXCEPT !.attempts = n]
                                    EXCEPT !.revoked = v]]
  BY <1>1 DEF RefuseWrongCode
<1>. v \in {"no", "yes"}
  BY <1>1 DEF Challenge
<1>. HIDE DEF n, v
<1>3. [[otp[p] EXCEPT !.attempts = n] EXCEPT !.revoked = v]
        = Row(p, n, otp[p].verified, v)
  BY <1>1, WrongCodeFields DEF Row
<1>4. otp' = [otp EXCEPT ![p] = Row(p, n, otp[p].verified, v)]
  BY <1>2, <1>3
<1>5. Row(p, n, otp[p].verified, v) \in Challenge
  BY <1>1, PolicyAssumption DEF Row, Challenge
<1>. QED
  BY <1>1, <1>4, <1>5 DEF OnlyRow, n, v

LEMMA RightCodeRow ==
    ASSUME TypeOK, RowsKnown, NEW r \in Requests, ActivateUser(r)
    PROVE  OnlyRow(picked[r], Row(picked[r], otp[picked[r]].attempts, txNow[r],
                                  otp[picked[r]].revoked))
<1> DEFINE p == picked[r]
<1>1. p \in DOMAIN otp /\ otp[p] \in Challenge /\ txNow[r] \in Nat
  BY DEF TypeOK, RowsKnown, ActivateUser, Challenges, Judging
<1>2. otp' = [otp EXCEPT ![p] = [otp[p] EXCEPT !.verified = txNow[r]]]
  BY DEF ActivateUser
<1>3. [otp[p] EXCEPT !.verified = txNow[r]]
        = Row(p, otp[p].attempts, txNow[r], otp[p].revoked)
  BY <1>1 DEF Challenge, Row
<1>4. otp' = [otp EXCEPT ![p] = Row(p, otp[p].attempts, txNow[r], otp[p].revoked)]
  BY <1>2, <1>3
<1>5. Row(p, otp[p].attempts, txNow[r], otp[p].revoked) \in Challenge
  BY <1>1, PolicyAssumption DEF Row, Challenge
<1>. QED
  BY <1>1, <1>4, <1>5 DEF OnlyRow

(* IssueOTP adds one row and revokes the live rows it has locked. *)
LEMMA InsertedRows ==
    ASSUME TypeOK, NEW r \in Requests, InsertChallenge(r)
    PROVE  /\ DOMAIN otp' = DOMAIN otp \cup {r}
           /\ otp'[r] = NewChallenge(r)
           /\ NewChallenge(r) \in Challenge
           /\ \A c \in DOMAIN otp \ {r} :
                 otp'[c] = IF rowLock[c] = r /\ IsLive(c)
                           THEN Row(c, otp[c].attempts, otp[c].verified, "yes")
                           ELSE otp[c]
           /\ \A c \in DOMAIN otp' : otp'[c] \in Challenge
<1>1. /\ DOMAIN otp' = DOMAIN otp \cup {r}
      /\ otp'[r] = NewChallenge(r)
      /\ \A c \in DOMAIN otp \ {r} :
            otp'[c] = IF rowLock[c] = r /\ IsLive(c)
                      THEN [otp[c] EXCEPT !.revoked = "yes"] ELSE otp[c]
  BY DEF InsertChallenge
<1>2. NewChallenge(r) \in Challenge
  BY DEF NewChallenge, Challenge, TypeOK
<1>3. ASSUME NEW c \in DOMAIN otp
      PROVE  /\ [otp[c] EXCEPT !.revoked = "yes"]
                   = Row(c, otp[c].attempts, otp[c].verified, "yes")
             /\ Row(c, otp[c].attempts, otp[c].verified, "yes") \in Challenge
             /\ otp[c] \in Challenge
  BY DEF TypeOK, Row, Challenge
<1>4. \A c \in DOMAIN otp \ {r} :
        otp'[c] = IF rowLock[c] = r /\ IsLive(c)
                  THEN Row(c, otp[c].attempts, otp[c].verified, "yes") ELSE otp[c]
  BY <1>1, <1>3
<1>. QED
  BY <1>1, <1>2, <1>3, <1>4

LEMMA IssueType ==
    ASSUME TypeOK, NEW r \in Requests, IssueStep(r)
    PROVE  TypeOK'
<1>1. CASE CreateUser(r)
  BY <1>1, ClockAssumption, PolicyAssumption
     DEF CreateUser, PrepareCode, AppNow, Goto, InFlight, Issuing, Judging, TypeOK,
         users, locks, local, kept
<1>2. CASE RefuseDuplicate(r)
  BY <1>2, AnswerType DEF RefuseDuplicate, Replies, TypeOK, users, locks, local, kept
<1>3. CASE FindByPhone(r)
  BY <1>3, AnswerType, ClockAssumption, PolicyAssumption
     DEF FindByPhone, PrepareCode, AppNow, Replies, Goto, InFlight, Issuing,
         Judging, TypeOK, users, locks, local, kept
<1>4. CASE BeginIssue(r)
  BY <1>4
     DEF BeginIssue, Goto, InFlight, Issuing, Judging, TypeOK, users, locks, local,
         kept
<1>5. CASE LockUser(r)
  BY <1>5
     DEF LockUser, Newest, Challenges, Goto, InFlight, Issuing, Judging, TypeOK,
         users, locks, local, kept
<1>6. CASE LockLatest(r)
  BY <1>6
     DEF LockLatest, Goto, InFlight, Issuing, Judging, TypeOK, users, locks, local,
         kept
<1>7. CASE RefuseCooldown(r)
  BY <1>7, AnswerType, ReleaseType
     DEF RefuseCooldown, Replies, TypeOK, users, locks, local, kept
<1>8. CASE RefuseRateLimited(r)
  BY <1>8, AnswerType, ReleaseType
     DEF RefuseRateLimited, Replies, TypeOK, users, locks, local, kept
<1>9. CASE RevokeLive(r)
  BY <1>9
     DEF RevokeLive, Goto, InFlight, Issuing, Judging, TypeOK, users, locks, local,
         kept
<1>10. CASE InsertChallenge(r)
  BY <1>10, ReleaseType, InsertedRows
     DEF InsertChallenge, Goto, InFlight, Issuing, Judging, TypeOK, users, locks,
         local, kept
<1>11. CASE SendSMS(r)
  BY <1>11, AnswerType DEF SendSMS, Replies, TypeOK, users, locks, local, kept
<1>. QED
  BY <1>1, <1>2, <1>3, <1>4, <1>5, <1>6, <1>7, <1>8, <1>9, <1>10, <1>11 DEF IssueStep

LEMMA VerifyType ==
    ASSUME TypeOK, RowsKnown, NEW r \in Requests, VerifyStep(r)
    PROVE  TypeOK'
<1>1. CASE SelectLive(r)
  BY <1>1
     DEF SelectLive, Newest, Live, Challenges, Goto, InFlight, Issuing, Judging,
         TypeOK, users, locks, local, kept
<1>2. CASE NoLiveChallenge(r)
  BY <1>2, AnswerType DEF NoLiveChallenge, Replies, TypeOK, users, locks, local, kept
<1>3. CASE LockChallenge(r)
  BY <1>3
     DEF LockChallenge, RowsKnown, Challenges, Challenge, Goto, InFlight, Issuing,
         Judging, TypeOK, users, locks, local, kept
<1>4. CASE SkipSettled(r)
  BY <1>4, AnswerType
     DEF SkipSettled, Newest, Replies, Goto, InFlight, Issuing, Judging, TypeOK,
         users, locks, local, kept
<1>5. CASE RefuseExpired(r)
  <2>1. DOMAIN otp' \subseteq Requests /\ \A d \in DOMAIN otp' : otp'[d] \in Challenge
    BY <1>5, ExpiredRow, OnlyRowType
  <2>. QED
    BY <1>5, <2>1, AnswerType, ReleaseType DEF RefuseExpired, Replies, TypeOK, users, kept
<1>6. CASE RefuseWrongCode(r)
  <2>1. DOMAIN otp' \subseteq Requests /\ \A d \in DOMAIN otp' : otp'[d] \in Challenge
    BY <1>6, WrongCodeRow, OnlyRowType
  <2>. QED
    BY <1>6, <2>1, AnswerType, ReleaseType DEF RefuseWrongCode, Replies, TypeOK, users
<1>7. CASE AcceptCode(r)
  BY <1>7
     DEF AcceptCode, Goto, InFlight, Issuing, Judging, TypeOK, users, locks, local,
         kept
<1>8. CASE ActivateUser(r)
  BY <1>8, ReleaseType, RightCodeRow
     DEF ActivateUser, OnlyRow, RowsKnown, Challenges, Challenge, FirstOf, Never,
         Goto, InFlight, Issuing, Judging, TypeOK, users, locks, local, kept
<1>9. CASE IssueSession(r)
  BY <1>9, AnswerType DEF IssueSession, Replies, TypeOK, users, locks, local, kept
<1>. QED
  BY <1>1, <1>2, <1>3, <1>4, <1>5, <1>6, <1>7, <1>8, <1>9 DEF VerifyStep

LEMMA TypeStep ==
    ASSUME TypeOK, RowsKnown, [Next]_vars
    PROVE  TypeOK'
<1>1. ASSUME NEW r \in Requests, Fail(r)
      PROVE  TypeOK'
  BY <1>1, AnswerType, ReleaseType DEF Fail, Replies, TypeOK, users, locks, kept
<1>2. ASSUME NEW r \in Requests, AbortDeadlock(r)
      PROVE  TypeOK'
  BY <1>2, AnswerType, ReleaseType DEF AbortDeadlock, Replies, TypeOK, users, locks, kept
<1>3. CASE Tick
  BY <1>3, ClockAssumption DEF Tick, TypeOK, users, locks, local, kept
<1>4. CASE UNCHANGED vars
  BY <1>4 DEF TypeOK, vars, users, locks, local, kept
<1>. QED
  BY <1>1, <1>2, <1>3, <1>4, ArriveType, IssueType, VerifyType DEF Next, Finished

-----------------------------------------------------------------------------
(* The steps by what they do to locks and rows: quiet steps touch neither, *)
(* a step that gives up only releases locks, and seven steps take locks or *)
(* write rows.                                                             *)

Critical == Issuing \cup Judging

QuietStep(r) ==
    \/ Arrive(r)
    \/ CreateUser(r) \/ RefuseDuplicate(r) \/ FindByPhone(r) \/ BeginIssue(r) \/ SendSMS(r)
    \/ SelectLive(r) \/ NoLiveChallenge(r) \/ SkipSettled(r) \/ IssueSession(r)

GiveUp(r) == RefuseCooldown(r) \/ RefuseRateLimited(r) \/ Fail(r) \/ AbortDeadlock(r)

(* A step of r leaves the local state of every other request alone. *)
Frame(r) ==
    /\ clock' = clock /\ target' = target
    /\ \A s \in Requests \ {r} :
          /\ pc'[s] = pc[s] /\ txNow'[s] = txNow[s] /\ picked'[s] = picked[s]
          /\ others'[s] = others[s] /\ seen'[s] = seen[s]
          /\ guessed'[s] = guessed[s] /\ redeemed'[s] = redeemed[s]

Quiet(r) ==
    /\ Frame(r)
    /\ otp' = otp /\ userLock' = userLock /\ rowLock' = rowLock
    /\ guessed' = guessed /\ redeemed' = redeemed
    /\ pc[r] \notin Critical \cup {"done"}
    /\ pc'[r] \notin Critical \cup {"session", "send"}
    /\ pc[r] \in {"session", "send"} => pc'[r] = "done"
    /\ pc'[r] = "lock_row" => /\ picked'[r] \in Challenges(target[r])
                              /\ others'[r] \subseteq Challenges(target[r])
    /\ txNow'[r] <= clock

(* The transaction of r ends; r is past every lock. *)
Leave(r) ==
    /\ Frame(r)
    /\ ReleaseLocks(r)
    /\ pc[r] \notin {"idle", "done"}
    /\ pc'[r] \in {"send", "session", "done"}
    /\ txNow'[r] <= clock

LEMMA NextCases ==
    ASSUME [Next]_vars
    PROVE  \/ \E r \in Requests :
                 \/ QuietStep(r) \/ GiveUp(r)
                 \/ LockUser(r) \/ LockLatest(r) \/ RevokeLive(r) \/ InsertChallenge(r)
                 \/ LockChallenge(r) \/ RefuseExpired(r) \/ RefuseWrongCode(r)
                 \/ AcceptCode(r) \/ ActivateUser(r)
           \/ Tick
           \/ UNCHANGED vars
BY DEF Next, IssueStep, VerifyStep, QuietStep, GiveUp, Finished

LEMMA QuietFacts ==
    ASSUME TypeOK, RowsKnown, TimesKnown, NEW r \in Requests, QuietStep(r)
    PROVE  Quiet(r)
<1> USE DEF Quiet, Frame, Critical, Issuing, Judging, Goto, Answer, PrepareCode,
            TypeOK, users, locks, local, kept
<1>1. CASE Arrive(r)
  BY <1>1 DEF Arrive, Register, ResendPhoneVerification, VerifyPhone, RejectMalformed,
              TimesKnown
<1>2. CASE CreateUser(r) \/ RefuseDuplicate(r) \/ FindByPhone(r)
  BY <1>2 DEF CreateUser, RefuseDuplicate, FindByPhone, TimesKnown
<1>3. CASE BeginIssue(r) \/ SendSMS(r) \/ IssueSession(r)
  BY <1>3 DEF BeginIssue, SendSMS, IssueSession
<1>4. CASE SelectLive(r)
  BY <1>4 DEF SelectLive, Newest, Live, TimesKnown
<1>5. CASE NoLiveChallenge(r)
  BY <1>5 DEF NoLiveChallenge
<1>6. CASE SkipSettled(r)
  BY <1>6 DEF SkipSettled, RowsKnown, TimesKnown, Newest
<1>. QED
  BY <1>1, <1>2, <1>3, <1>4, <1>5, <1>6 DEF QuietStep

LEMMA LeaveFacts ==
    ASSUME TypeOK, TimesKnown, NEW r \in Requests,
           \/ GiveUp(r) \/ InsertChallenge(r) \/ RefuseExpired(r) \/ RefuseWrongCode(r)
           \/ ActivateUser(r)
    PROVE  Leave(r)
<1> USE DEF Leave, Frame, Goto, Answer, TypeOK, users, locks, local, kept
<1>1. CASE GiveUp(r)
  <2>1. pc[r] \notin {"idle", "done"}
    BY <1>1 DEF GiveUp, RefuseCooldown, RefuseRateLimited, Fail, AbortDeadlock, Deadlocked,
                WaitsFor, InFlight, Issuing, Judging
  <2>. QED
    BY <1>1, <2>1 DEF GiveUp, RefuseCooldown, RefuseRateLimited, Fail, AbortDeadlock
<1>2. CASE InsertChallenge(r)
  BY <1>2 DEF InsertChallenge, TimesKnown
<1>3. CASE RefuseExpired(r) \/ RefuseWrongCode(r)
  BY <1>3 DEF RefuseExpired, RefuseWrongCode
<1>4. CASE ActivateUser(r)
  BY <1>4 DEF ActivateUser, TimesKnown
<1>. QED
  BY <1>1, <1>2, <1>3, <1>4

LEMMA GiveUpRows ==
    ASSUME TypeOK, NEW r \in Requests, GiveUp(r)
    PROVE  otp' = otp /\ guessed' = guessed /\ redeemed' = redeemed /\ pc'[r] = "done"
BY DEF GiveUp, RefuseCooldown, RefuseRateLimited, Fail, AbortDeadlock, Answer, Goto,
       TypeOK, kept

(* A request that judges a challenge has picked one. *)
LEMMA RowsInRequests ==
    ASSUME TypeOK, RowsKnown, NEW s \in Requests,
           pc[s] \in {"lock_latest", "lock_row"} \cup Judging
    PROVE  picked[s] \in Requests /\ picked[s] \in DOMAIN otp
BY DEF TypeOK, RowsKnown, Challenges

LEMMA RowFields ==
    ASSUME NEW c, NEW a, NEW v, NEW w
    PROVE  /\ Row(c, a, v, w).user = otp[c].user
           /\ Row(c, a, v, w).created = otp[c].created
           /\ Row(c, a, v, w).expires = otp[c].expires
           /\ Row(c, a, v, w).attempts = a
           /\ Row(c, a, v, w).verified = v
           /\ Row(c, a, v, w).revoked = w
BY DEF Row

(* A row keeps its user, its creation time and its expiry. *)
LEMMA FieldsKept ==
    ASSUME TypeOK, RowsKnown, NEW r \in Requests,
           \/ InsertChallenge(r) \/ RefuseExpired(r) \/ RefuseWrongCode(r) \/ ActivateUser(r)
    PROVE  /\ r \notin DOMAIN otp
           /\ \A c \in DOMAIN otp :
                 /\ c \in DOMAIN otp'
                 /\ otp'[c].user = otp[c].user
                 /\ otp'[c].created = otp[c].created
                 /\ otp'[c].expires = otp[c].expires
<1>1. r \notin DOMAIN otp
  BY DEF RowsKnown, InsertChallenge, RefuseExpired, RefuseWrongCode, ActivateUser
<1>3. CASE InsertChallenge(r)
  <2> SUFFICES ASSUME NEW c \in DOMAIN otp
               PROVE  /\ c \in DOMAIN otp'
                      /\ otp'[c].user = otp[c].user
                      /\ otp'[c].created = otp[c].created
                      /\ otp'[c].expires = otp[c].expires
    BY <1>1
  <2>1. c \in DOMAIN otp \ {r} /\ c \in DOMAIN otp'
    BY <1>1, <1>3, InsertedRows
  <2>2. \/ otp'[c] = otp[c]
        \/ otp'[c] = Row(c, otp[c].attempts, otp[c].verified, "yes")
    BY <2>1, <1>3, InsertedRows
  <2>. QED
    BY <2>1, <2>2, RowFields
<1>4. CASE RefuseExpired(r)
  BY <1>1, RowFields, <1>4, ExpiredRow DEF OnlyRow
<1>5. CASE RefuseWrongCode(r)
  BY <1>1, RowFields, <1>5, WrongCodeRow DEF OnlyRow
<1>6. CASE ActivateUser(r)
  BY <1>1, RowFields, <1>6, RightCodeRow DEF OnlyRow
<1>. QED
  BY <1>3, <1>4, <1>5, <1>6

-----------------------------------------------------------------------------
(* Locks *)

LEMMA LocksQuiet ==
    ASSUME TypeOK, LocksOwned, NEW r \in Requests, Quiet(r)
    PROVE  LocksOwned'
BY DEF LocksOwned, TypeOK, Quiet, Frame, Critical, Issuing, Judging

LEMMA LocksLeave ==
    ASSUME TypeOK, RowsKnown, LocksOwned, NEW r \in Requests, Leave(r)
    PROVE  LocksOwned'
<1> USE DEF LocksOwned, TypeOK, Leave, Frame, ReleaseLocks, Issuing, Judging
<1>1. \A u \in Users : userLock'[u] # NoRequest =>
         pc'[userLock'[u]] \in Issuing /\ target'[userLock'[u]] = u
  OBVIOUS
<1>2. \A s \in Requests : pc'[s] \in Issuing => userLock'[target'[s]] = s
  OBVIOUS
<1>3. \A c \in Requests : rowLock'[c] # NoRequest =>
         pc'[rowLock'[c]] \in {"count", "insert"} \cup Judging
  OBVIOUS
<1>4. \A s \in Requests : pc'[s] \in Judging => rowLock'[picked'[s]] = s
  <2> SUFFICES ASSUME NEW s \in Requests, pc'[s] \in Judging
               PROVE  rowLock'[picked'[s]] = s
    OBVIOUS
  <2>1. s # r /\ pc[s] \in Judging /\ picked'[s] = picked[s]
    OBVIOUS
  <2>2. rowLock[picked[s]] = s /\ picked[s] \in Requests
    BY <2>1, RowsInRequests
  <2>. QED
    BY <2>1, <2>2
<1>. QED
  BY <1>1, <1>2, <1>3, <1>4 DEF LocksOwned

LEMMA LocksStep ==
    ASSUME TypeOK, RowsKnown, TimesKnown, LocksOwned, [Next]_vars
    PROVE  LocksOwned'
<1> USE DEF LocksOwned, Issuing, Judging, Goto, users, locks, local, kept
<1>. /\ userLock \in [Users -> Requests \cup {NoRequest}]
     /\ rowLock \in [Requests -> Requests \cup {NoRequest}]
     /\ pc \in [Requests -> {"idle", "done"} \cup InFlight]
     /\ target \in [Requests -> Users]
     /\ picked \in [Requests -> Requests \cup {NoRequest}]
  BY DEF TypeOK
<1>1. ASSUME NEW r \in Requests, QuietStep(r)
      PROVE  LocksOwned'
  BY <1>1, QuietFacts, LocksQuiet
<1>2. ASSUME NEW r \in Requests,
             \/ GiveUp(r) \/ InsertChallenge(r) \/ RefuseExpired(r) \/ RefuseWrongCode(r)
             \/ ActivateUser(r)
      PROVE  LocksOwned'
  BY <1>2, LeaveFacts, LocksLeave
<1>3. ASSUME NEW r \in Requests, LockUser(r)
      PROVE  LocksOwned'
  <2>1. /\ pc[r] = "lock_user" /\ pc'[r] \in Issuing /\ userLock[target[r]] = NoRequest
        /\ \A s \in Requests \ {r} : pc'[s] = pc[s] /\ picked'[s] = picked[s]
        /\ userLock' = [userLock EXCEPT ![target[r]] = r]
        /\ rowLock' = rowLock /\ target' = target
    BY <1>3 DEF LockUser
  <2>. QED
    BY <2>1, NobodyAssumption
<1>4. ASSUME NEW r \in Requests, LockLatest(r)
      PROVE  LocksOwned'
  <2>1. picked[r] \in Requests
    BY <1>4, RowsInRequests DEF LockLatest
  <2>2. /\ pc[r] = "lock_latest" /\ pc' = [pc EXCEPT ![r] = "count"]
        /\ rowLock[picked[r]] = NoRequest /\ rowLock' = [rowLock EXCEPT ![picked[r]] = r]
        /\ userLock' = userLock /\ target' = target /\ picked' = picked
    BY <1>4 DEF LockLatest
  <2>. QED
    BY <2>1, <2>2, NobodyAssumption
<1>5. ASSUME NEW r \in Requests, RevokeLive(r)
      PROVE  LocksOwned'
  <2>1. /\ pc[r] = "count" /\ pc' = [pc EXCEPT ![r] = "insert"]
        /\ userLock' = userLock /\ target' = target /\ picked' = picked
    BY <1>5 DEF RevokeLive
  <2>3. /\ rowLock' = [c \in Requests |-> IF c \in Live(target[r]) THEN r ELSE rowLock[c]]
        /\ \A c \in Live(target[r]) : rowLock[c] \in {NoRequest, r}
    BY <1>5 DEF RevokeLive
  <2>4. \A c \in Requests : \/ rowLock'[c] = rowLock[c]
                            \/ rowLock[c] \in {NoRequest, r} /\ rowLock'[c] = r
    BY <2>3
  <2>2. \A s \in Requests : pc[s] \in Judging => picked[s] \in Requests
    BY RowsInRequests
  <2>. QED
    BY <2>1, <2>2, <2>4, NobodyAssumption
<1>6. ASSUME NEW r \in Requests, LockChallenge(r)
      PROVE  LocksOwned'
  <2>1. picked[r] \in Requests
    BY <1>6, RowsInRequests DEF LockChallenge
  <2>2. /\ pc[r] = "lock_row" /\ pc' = [pc EXCEPT ![r] = "judge"]
        /\ rowLock[picked[r]] = NoRequest /\ rowLock' = [rowLock EXCEPT ![picked[r]] = r]
        /\ userLock' = userLock /\ target' = target /\ picked' = picked
    BY <1>6 DEF LockChallenge
  <2>. QED
    BY <2>1, <2>2, NobodyAssumption
<1>7. ASSUME NEW r \in Requests, AcceptCode(r)
      PROVE  LocksOwned'
  BY <1>7 DEF AcceptCode
<1>8. CASE Tick
  BY <1>8 DEF Tick
<1>9. CASE UNCHANGED vars
  BY <1>9 DEF vars
<1>. QED
  BY <1>1, <1>2, <1>3, <1>4, <1>5, <1>6, <1>7, <1>8, <1>9, NextCases

-----------------------------------------------------------------------------
(* Rows *)

LEMMA RowsStep ==
    ASSUME TypeOK, RowsKnown, TimesKnown, LocksOwned, [Next]_vars
    PROVE  RowsKnown'
<1> USE DEF RowsKnown, TypeOK, Challenges, Issuing, Judging
<1>1. ASSUME NEW r \in Requests, QuietStep(r)
      PROVE  RowsKnown'
  <2>1. Quiet(r)
    BY <1>1, QuietFacts
  <2>2. \A c \in DOMAIN otp' : otp'[c].user = target'[c] /\ pc'[c] \in {"send", "done"}
    BY <2>1 DEF Quiet, Frame, Critical
  <2>3. \A s \in Requests : pc'[s] \in {"lock_latest", "lock_row"} \cup Judging =>
           picked'[s] \in Challenges(target[s])
    BY <2>1 DEF Quiet, Frame, Critical
  <2>4. \A s \in Requests : pc'[s] = "lock_row" => others'[s] \subseteq Challenges(target[s])
    BY <2>1 DEF Quiet, Frame, Critical
  <2>. QED
    BY <2>1, <2>2, <2>3, <2>4 DEF Quiet, Frame
<1>2. ASSUME NEW r \in Requests, GiveUp(r)
      PROVE  RowsKnown'
  <2>1. Leave(r)
    BY <1>2, LeaveFacts
  <2>. QED
    BY <1>2, <2>1, GiveUpRows DEF Leave, Frame
<1>3. ASSUME NEW r \in Requests, InsertChallenge(r)
      PROVE  RowsKnown'
  <2>1. Leave(r)
    BY <1>3, LeaveFacts
  <2>2. /\ DOMAIN otp' = DOMAIN otp \cup {r}
        /\ otp'[r].user = target[r]
        /\ \A c \in DOMAIN otp : otp'[c].user = otp[c].user
        /\ pc'[r] = "send"
    BY <1>3, InsertedRows, FieldsKept DEF NewChallenge, InsertChallenge, Goto
  <2>. QED
    BY <2>1, <2>2 DEF Leave, Frame
<1>4. ASSUME NEW r \in Requests, RefuseExpired(r) \/ RefuseWrongCode(r) \/ ActivateUser(r)
      PROVE  RowsKnown'
  <2>1. Leave(r) /\ r \notin DOMAIN otp
    BY <1>4, LeaveFacts DEF RefuseExpired, RefuseWrongCode, ActivateUser
  <2>2. DOMAIN otp' = DOMAIN otp /\ \A c \in DOMAIN otp : otp'[c].user = otp[c].user
    BY <1>4, ExpiredRow, WrongCodeRow, RightCodeRow, FieldsKept DEF OnlyRow
  <2>. QED
    BY <2>1, <2>2 DEF Leave, Frame
<1>5. ASSUME NEW r \in Requests,
             LockUser(r) \/ LockLatest(r) \/ RevokeLive(r) \/ LockChallenge(r) \/ AcceptCode(r)
      PROVE  RowsKnown'
  BY <1>5 DEF LockUser, LockLatest, RevokeLive, LockChallenge, AcceptCode, Goto, Newest,
              users, locks, local, kept
<1>6. CASE Tick
  BY <1>6 DEF Tick, users, locks, local, kept
<1>7. CASE UNCHANGED vars
  BY <1>7 DEF vars, users, locks, local, kept
<1>. QED
  BY <1>1, <1>2, <1>3, <1>4, <1>5, <1>6, <1>7, NextCases

-----------------------------------------------------------------------------
(* Times *)

LEMMA TimesStep ==
    ASSUME TypeOK, RowsKnown, TimesKnown, LocksOwned, [Next]_vars
    PROVE  TimesKnown'
<1> USE DEF TimesKnown, TypeOK
<1>1. ASSUME NEW r \in Requests, QuietStep(r)
      PROVE  TimesKnown'
  BY <1>1, QuietFacts DEF Quiet, Frame, Critical, Judging
<1>2. ASSUME NEW r \in Requests, GiveUp(r)
      PROVE  TimesKnown'
  BY <1>2, LeaveFacts, GiveUpRows DEF Leave, Frame
<1>3. ASSUME NEW r \in Requests, InsertChallenge(r)
      PROVE  TimesKnown'
  <2>1. Leave(r)
    BY <1>3, LeaveFacts
  <2>2. \A c \in DOMAIN otp : otp'[c].expires = otp[c].expires
    BY <1>3, FieldsKept
  <2>. QED
    BY <2>1, <2>2 DEF Leave, Frame, RowsKnown, Challenges, Judging
<1>4. ASSUME NEW r \in Requests, RefuseExpired(r) \/ RefuseWrongCode(r) \/ ActivateUser(r)
      PROVE  TimesKnown'
  <2>1. Leave(r)
    BY <1>4, LeaveFacts
  <2>2. \A c \in DOMAIN otp : otp'[c].expires = otp[c].expires
    BY <1>4, FieldsKept
  <2>. QED
    BY <2>1, <2>2 DEF Leave, Frame, RowsKnown, Challenges, Judging
<1>5. ASSUME NEW r \in Requests,
             LockUser(r) \/ LockLatest(r) \/ RevokeLive(r) \/ LockChallenge(r)
      PROVE  TimesKnown'
  BY <1>5
     DEF LockUser, LockLatest, RevokeLive, LockChallenge, Goto, users, locks, local,
         kept
<1>6. ASSUME NEW r \in Requests, AcceptCode(r)
      PROVE  TimesKnown'
  <2>1. otp[picked[r]].expires \in Int
    BY <1>6 DEF AcceptCode, RowsKnown, Challenges, Judging, Challenge
  <2>. QED
    BY <1>6, <2>1, ClockAssumption
       DEF AcceptCode, Expired, AppNow, Goto, users, locks, local, kept
<1>7. CASE Tick
  BY <1>7 DEF Tick, users, locks, local, kept
<1>8. CASE UNCHANGED vars
  BY <1>8 DEF vars, users, locks, local, kept
<1>. QED
  BY <1>1, <1>2, <1>3, <1>4, <1>5, <1>6, <1>7, <1>8, NextCases

-----------------------------------------------------------------------------
(* What a transaction learned while it holds its locks *)

(* The row that a verification has locked is not written by another one. *)
LEMMA LockedRowKept ==
    ASSUME TypeOK, RowsKnown, LocksOwned, NEW r \in Requests,
           \/ InsertChallenge(r) \/ RefuseExpired(r) \/ RefuseWrongCode(r) \/ ActivateUser(r),
           NEW s \in Requests \ {r}, pc[s] \in Judging
    PROVE  otp'[picked[s]] = otp[picked[s]]
<1>1. picked[s] \in DOMAIN otp /\ picked[s] \in Requests /\ rowLock[picked[s]] = s
  BY RowsInRequests DEF LocksOwned
<1>2. CASE InsertChallenge(r)
  BY <1>1, <1>2, InsertedRows, FieldsKept
<1>3. CASE RefuseExpired(r) \/ RefuseWrongCode(r) \/ ActivateUser(r)
  <2>1. rowLock[picked[r]] = r
    BY <1>3 DEF RefuseExpired, RefuseWrongCode, ActivateUser, LocksOwned, Judging
  <2>. QED
    BY <1>1, <1>3, <2>1, ExpiredRow, WrongCodeRow, RightCodeRow DEF OnlyRow
<1>. QED
  BY <1>2, <1>3

LEMMA JudgedStep ==
    ASSUME TypeOK, RowsKnown, TimesKnown, LocksOwned, JudgedLive, [Next]_vars
    PROVE  JudgedLive'
<1> USE DEF JudgedLive, IsLive, Judging
<1>. /\ pc \in [Requests -> {"idle", "done"} \cup InFlight]
     /\ picked \in [Requests -> Requests \cup {NoRequest}]
     /\ seen \in [Requests -> Nat]
  BY DEF TypeOK
<1>1. ASSUME NEW r \in Requests, QuietStep(r)
      PROVE  JudgedLive'
  BY <1>1, QuietFacts DEF Quiet, Frame, Critical
<1>2. ASSUME NEW r \in Requests, GiveUp(r)
      PROVE  JudgedLive'
  BY <1>2, LeaveFacts, GiveUpRows DEF Leave, Frame
<1>3. ASSUME NEW r \in Requests,
             \/ InsertChallenge(r) \/ RefuseExpired(r) \/ RefuseWrongCode(r) \/ ActivateUser(r)
      PROVE  JudgedLive'
  <2>1. Leave(r)
    BY <1>3, LeaveFacts
  <2>2. ASSUME NEW s \in Requests, pc'[s] \in Judging
        PROVE  /\ s # r /\ pc[s] \in Judging
               /\ picked'[s] = picked[s] /\ seen'[s] = seen[s]
               /\ otp'[picked[s]] = otp[picked[s]]
    <3>1. s # r /\ pc[s] = pc'[s] /\ picked'[s] = picked[s] /\ seen'[s] = seen[s]
      BY <2>1, <2>2 DEF Leave, Frame
    <3>. QED
      BY <1>3, <2>2, <3>1, LockedRowKept
  <2>. QED
    BY <2>2
<1>4. ASSUME NEW r \in Requests, LockUser(r) \/ LockLatest(r) \/ RevokeLive(r)
      PROVE  JudgedLive'
  BY <1>4 DEF LockUser, LockLatest, RevokeLive, Goto, local
<1>5. ASSUME NEW r \in Requests, LockChallenge(r)
      PROVE  JudgedLive'
  BY <1>5 DEF LockChallenge, Goto
<1>6. ASSUME NEW r \in Requests, AcceptCode(r)
      PROVE  JudgedLive'
  BY <1>6 DEF AcceptCode, Goto, local
<1>7. CASE Tick
  BY <1>7 DEF Tick, local
<1>8. CASE UNCHANGED vars
  BY <1>8 DEF vars, local
<1>. QED
  BY <1>1, <1>2, <1>3, <1>4, <1>5, <1>6, <1>7, <1>8, NextCases

(* While a request holds the lock on a user, nobody adds a challenge of    *)
(* that user, and none of its dead challenges comes back to life.          *)
LEMMA LockedUserKept ==
    ASSUME TypeOK, RowsKnown, LocksOwned, JudgedLive, NEW r \in Requests,
           \/ InsertChallenge(r) \/ RefuseExpired(r) \/ RefuseWrongCode(r) \/ ActivateUser(r),
           NEW s \in Requests \ {r}, pc[s] \in Issuing
    PROVE  /\ target' = target
           /\ {c \in DOMAIN otp' : otp'[c].user = target[s]} = Challenges(target[s])
           /\ {c \in DOMAIN otp' : otp'[c].user = target[s] /\ otp'[c].verified = Never
                                   /\ otp'[c].revoked = "no"} \subseteq Live(target[s])
           /\ \A c \in Challenges(target[s]) : otp'[c].created = otp[c].created
<1>0. target' = target
  BY DEF InsertChallenge, RefuseExpired, RefuseWrongCode, ActivateUser, kept
<1>1. \A c \in DOMAIN otp : /\ c \in DOMAIN otp'
                            /\ otp'[c].user = otp[c].user
                            /\ otp'[c].created = otp[c].created
  BY FieldsKept
<1>2. \A c \in DOMAIN otp' \ DOMAIN otp : otp'[c].user # target[s]
  <2>1. CASE InsertChallenge(r)
    <3>1. target[r] # target[s]
      BY <2>1 DEF InsertChallenge, LocksOwned, Issuing
    <3>2. DOMAIN otp' = DOMAIN otp \cup {r} /\ otp'[r] = NewChallenge(r)
      BY <2>1, InsertedRows
    <3>3. NewChallenge(r).user = target[r]
      BY DEF NewChallenge
    <3>. QED
      BY <3>1, <3>2, <3>3
  <2>2. CASE RefuseExpired(r) \/ RefuseWrongCode(r) \/ ActivateUser(r)
    BY <2>2, ExpiredRow, WrongCodeRow, RightCodeRow DEF OnlyRow
  <2>. QED
    BY <2>1, <2>2
<1>3. ASSUME NEW c \in DOMAIN otp, otp'[c].verified = Never, otp'[c].revoked = "no"
      PROVE  IsLive(c)
  <2>1. CASE InsertChallenge(r)
    BY <1>3, <2>1, InsertedRows, FieldsKept DEF Row, IsLive
  <2>2. CASE RefuseExpired(r) \/ RefuseWrongCode(r) \/ ActivateUser(r)
    <3>1. IsLive(picked[r])
      BY <2>2 DEF RefuseExpired, RefuseWrongCode, ActivateUser, JudgedLive, Judging
    <3>2. c # picked[r] => otp'[c] = otp[c]
      BY <2>2, ExpiredRow, WrongCodeRow, RightCodeRow DEF OnlyRow
    <3>. QED
      BY <1>3, <3>1, <3>2 DEF IsLive
  <2>. QED
    BY <2>1, <2>2
<1>4. {c \in DOMAIN otp' : otp'[c].user = target[s]} = Challenges(target[s])
  BY <1>1, <1>2 DEF Challenges
<1>5. {c \in DOMAIN otp' : otp'[c].user = target[s] /\ otp'[c].verified = Never
                            /\ otp'[c].revoked = "no"} \subseteq Live(target[s])
  BY <1>1, <1>2, <1>3 DEF Challenges, Live
<1>. QED
  BY <1>0, <1>1, <1>4, <1>5 DEF Challenges

-----------------------------------------------------------------------------
(* Cooldown and limit, once tested, hold until the transaction ends *)

(* IssueReady about one request. *)
ReadyOf(s) ==
    /\ pc[s] = "lock_latest" => picked[s] \in Newest(Challenges(target[s]))
    /\ pc[s] \in {"count", "insert"} =>
          \A c \in Challenges(target[s]) : AppNow - otp[c].created >= Cooldown
    /\ pc[s] = "insert" => ~OverLimit(s) /\ \A c \in Live(target[s]) : rowLock[c] = s

LEMMA ReadyKept ==
    ASSUME TypeOK, RowsKnown, LocksOwned, JudgedLive, TimesKnown, NEW r \in Requests,
           \/ InsertChallenge(r) \/ RefuseExpired(r) \/ RefuseWrongCode(r) \/ ActivateUser(r),
           NEW s \in Requests, ReadyOf(s)
    PROVE  ReadyOf(s)'
<1>1. Leave(r)
  BY LeaveFacts
<1>2. CASE pc'[s] \notin Issuing
  BY <1>2 DEF ReadyOf, Issuing
<1>3. CASE pc'[s] \in Issuing
  <2>1. /\ s # r /\ pc'[s] = pc[s] /\ pc[s] \in Issuing
        /\ picked'[s] = picked[s] /\ txNow'[s] = txNow[s] /\ clock' = clock
    BY <1>1, <1>3 DEF Leave, Frame, Issuing
  <2>2. /\ target' = target
        /\ {c \in DOMAIN otp' : otp'[c].user = target[s]} = Challenges(target[s])
        /\ {c \in DOMAIN otp' : otp'[c].user = target[s] /\ otp'[c].verified = Never
                                /\ otp'[c].revoked = "no"} \subseteq Live(target[s])
        /\ \A c \in Challenges(target[s]) : otp'[c].created = otp[c].created
    BY <2>1, LockedUserKept
  <2>3. Challenges(target[s])' = Challenges(target[s])
    BY <2>2 DEF Challenges
  <2>4. Newest(Challenges(target[s]))' = Newest(Challenges(target[s]))
    BY <2>2, <2>3 DEF Newest
  <2>5. InWindow(target[s], txNow[s])' = InWindow(target[s], txNow[s])
    BY <2>1, <2>2, <2>3 DEF InWindow
  <2>6. Live(target[s])' \subseteq Live(target[s])
    BY <2>2 DEF Live, Challenges, IsLive
  <2>7. \A c \in Live(target[s]) : rowLock[c] = s => rowLock'[c] = s
    BY <1>1, <2>1 DEF Leave, ReleaseLocks, Live, Challenges, TypeOK
  <2>8. OverLimit(s)' <=> OverLimit(s)
    BY <2>5 DEF OverLimit
  <2>9. AppNow' = AppNow
    BY <2>1 DEF AppNow
  <2>. QED
    BY <2>1, <2>2, <2>3, <2>4, <2>6, <2>7, <2>8, <2>9 DEF ReadyOf
<1>. QED
  BY <1>2, <1>3

(* A step that leaves the rows alone, does not turn the clock back and     *)
(* takes no row lock from s keeps what s knows.                            *)
LEMMA ReadySame ==
    ASSUME TypeOK, NEW s \in Requests, ReadyOf(s),
           otp' = otp, target' = target, AppNow' >= AppNow, AppNow' \in Int, AppNow \in Int,
           pc'[s] = pc[s], picked'[s] = picked[s], txNow'[s] = txNow[s],
           \A c \in Requests : rowLock[c] = s => rowLock'[c] = s
    PROVE  ReadyOf(s)'
<1>1. \A c \in Challenges(target[s]) : otp[c].created \in Nat /\ c \in Requests
  BY DEF Challenges, TypeOK, Challenge
<1>2. \A c \in Challenges(target[s]) :
         AppNow - otp[c].created >= Cooldown => AppNow' - otp[c].created >= Cooldown
  BY <1>1, PolicyAssumption
<1>3. OverLimit(s)' <=> OverLimit(s)
  BY DEF OverLimit, InWindow, Challenges
<1>4. /\ Challenges(target[s])' = Challenges(target[s])
      /\ Newest(Challenges(target[s]))' = Newest(Challenges(target[s]))
      /\ Live(target[s])' = Live(target[s])
  BY DEF Challenges, Newest, Live, IsLive
<1>5. \A c \in Live(target[s]) : rowLock[c] = s => rowLock'[c] = s
  BY <1>1 DEF Live
<1>. QED
  BY <1>2, <1>3, <1>4, <1>5 DEF ReadyOf

LEMMA ReadyStep ==
    ASSUME TypeOK, RowsKnown, TimesKnown, LocksOwned, JudgedLive, IssueReady, [Next]_vars
    PROVE  IssueReady'
<1> SUFFICES ASSUME NEW s \in Requests
             PROVE  ReadyOf(s)'
  BY DEF IssueReady, ReadyOf
<1>0. ReadyOf(s) /\ AppNow \in Int /\ AppNow' \in Int /\ (clock' = clock => AppNow' = AppNow)
  <2>1. ReadyOf(s)
    BY DEF IssueReady, ReadyOf
  <2>2. TypeOK'
    BY TypeStep
  <2>3. clock \in Int /\ clock' \in Int
    BY <2>2, ClockAssumption DEF TypeOK
  <2>4. AppNow \in Int
    BY <2>3, ClockAssumption DEF AppNow
  <2>5. AppNow' \in Int
    BY <2>3, ClockAssumption DEF AppNow
  <2>6. clock' = clock => AppNow' = AppNow
    BY DEF AppNow
  <2>. QED
    BY <2>1, <2>4, <2>5, <2>6
<1> USE DEF Issuing, Judging
<1>1. ASSUME NEW r \in Requests, QuietStep(r)
      PROVE  ReadyOf(s)'
  <2>1. Quiet(r)
    BY <1>1, QuietFacts
  <2>2. CASE s = r
    BY <2>1, <2>2 DEF Quiet, Critical, ReadyOf
  <2>3. CASE s # r
    BY <1>0, <2>1, <2>3, ReadySame DEF Quiet, Frame
  <2>. QED
    BY <2>2, <2>3
<1>2. ASSUME NEW r \in Requests, GiveUp(r)
      PROVE  ReadyOf(s)'
  <2>1. Leave(r) /\ otp' = otp
    BY <1>2, LeaveFacts, GiveUpRows
  <2>2. CASE s = r
    BY <2>1, <2>2 DEF Leave, ReadyOf
  <2>3. CASE s # r
    <3>1. \A c \in Requests : rowLock[c] = s => rowLock'[c] = s
      BY <2>1, <2>3 DEF Leave, ReleaseLocks
    <3>. QED
      BY <1>0, <2>1, <2>3, <3>1, ReadySame DEF Leave, Frame
  <2>. QED
    BY <2>2, <2>3
<1>3. ASSUME NEW r \in Requests,
             \/ InsertChallenge(r) \/ RefuseExpired(r) \/ RefuseWrongCode(r) \/ ActivateUser(r)
      PROVE  ReadyOf(s)'
  BY <1>0, <1>3, ReadyKept
<1>4. ASSUME NEW r \in Requests, s # r,
             LockUser(r) \/ LockLatest(r) \/ RevokeLive(r) \/ LockChallenge(r) \/ AcceptCode(r)
      PROVE  ReadyOf(s)'
  <2>1. /\ otp' = otp /\ target' = target /\ clock' = clock
        /\ pc'[s] = pc[s] /\ picked'[s] = picked[s] /\ txNow'[s] = txNow[s]
    BY <1>4 DEF LockUser, LockLatest, RevokeLive, LockChallenge, AcceptCode, Goto, TypeOK,
                local, kept
  <2>2. \A c \in Requests : rowLock[c] = s => rowLock'[c] = s
    BY <1>4, NobodyAssumption
       DEF LockUser, LockLatest, RevokeLive, LockChallenge, AcceptCode, TypeOK, locks
  <2>. QED
    BY <1>0, <2>1, <2>2, ReadySame
<1>5. ASSUME LockUser(s)
      PROVE  ReadyOf(s)'
  <2>1. otp' = otp /\ target' = target /\ pc'[s] \in {"count", "lock_latest"}
    BY <1>5 DEF LockUser, Goto, TypeOK, kept
  <2>2. pc'[s] = "count" => Challenges(target[s]) = {}
    BY <1>5 DEF LockUser, Goto, TypeOK
  <2>3. pc'[s] = "lock_latest" => picked'[s] \in Newest(Challenges(target[s]))
    BY <1>5 DEF LockUser, Goto, TypeOK
  <2>4. /\ Challenges(target[s])' = Challenges(target[s])
        /\ Newest(Challenges(target[s]))' = Newest(Challenges(target[s]))
    BY <2>1 DEF Challenges, Newest
  <2>. QED
    BY <2>1, <2>2, <2>3, <2>4 DEF ReadyOf
<1>6. ASSUME LockLatest(s)
      PROVE  ReadyOf(s)'
  <2>1. otp' = otp /\ target' = target /\ clock' = clock /\ pc'[s] = "count"
    BY <1>6 DEF LockLatest, Goto, TypeOK, kept
  <2>2. picked[s] \in Newest(Challenges(target[s])) /\ ~TooSoon(picked[s])
    BY <1>0, <1>6 DEF LockLatest, ReadyOf
  <2>3. \A c \in Challenges(target[s]) : otp[c].created \in Nat
    BY DEF Challenges, TypeOK, Challenge
  <2>4. \A c \in Challenges(target[s]) : AppNow - otp[c].created >= Cooldown
    BY <1>0, <2>2, <2>3, PolicyAssumption DEF Newest, TooSoon
  <2>5. Challenges(target[s])' = Challenges(target[s])
    BY <2>1 DEF Challenges
  <2>. QED
    BY <1>0, <2>1, <2>4, <2>5 DEF ReadyOf
<1>7. ASSUME RevokeLive(s)
      PROVE  ReadyOf(s)'
  <2>1. /\ otp' = otp /\ target' = target /\ clock' = clock /\ txNow' = txNow
        /\ pc'[s] = "insert" /\ pc[s] = "count" /\ ~OverLimit(s)
    BY <1>7 DEF RevokeLive, Goto, TypeOK, kept, local
  <2>2. \A c \in Live(target[s]) : rowLock'[c] = s
    BY <1>7 DEF RevokeLive, Live, Challenges, TypeOK
  <2>3. /\ Challenges(target[s])' = Challenges(target[s])
        /\ Live(target[s])' = Live(target[s])
    BY <2>1 DEF Challenges, Live, IsLive
  <2>4. ~OverLimit(s)'
    BY <2>1 DEF OverLimit, InWindow, Challenges
  <2>. QED
    BY <1>0, <2>1, <2>2, <2>3, <2>4 DEF ReadyOf
<1>8. ASSUME LockChallenge(s) \/ AcceptCode(s)
      PROVE  ReadyOf(s)'
  BY <1>8 DEF LockChallenge, AcceptCode, Goto, TypeOK, ReadyOf
<1>9. CASE Tick
  <2>1. AppNow' >= AppNow
    BY <1>9, ClockAssumption DEF Tick, AppNow, TypeOK
  <2>. QED
    BY <1>0, <1>9, <2>1, ReadySame DEF Tick, local, kept, locks
<1>10. CASE UNCHANGED vars
  BY <1>0, <1>10, ReadySame DEF vars, local, kept, locks
<1>. QED
  BY <1>1, <1>2, <1>3, <1>4, <1>5, <1>6, <1>7, <1>8, <1>9, <1>10, NextCases

-----------------------------------------------------------------------------
(* Verdicts *)

LEMMA VerifiedKept ==
    ASSUME TypeOK, RowsKnown, NEW r \in Requests,
           InsertChallenge(r) \/ RefuseExpired(r) \/ RefuseWrongCode(r),
           NEW c \in DOMAIN otp
    PROVE  otp'[c].verified = otp[c].verified
<1>1. CASE InsertChallenge(r)
  <2>1. c \in DOMAIN otp \ {r}
    BY <1>1, FieldsKept
  <2>2. \/ otp'[c] = otp[c]
        \/ otp'[c] = Row(c, otp[c].attempts, otp[c].verified, "yes")
    BY <1>1, <2>1, InsertedRows
  <2>. QED
    BY <2>2, RowFields
<1>2. CASE RefuseExpired(r)
  BY <1>2, ExpiredRow, RowFields DEF OnlyRow
<1>3. CASE RefuseWrongCode(r)
  BY <1>3, WrongCodeRow, RowFields DEF OnlyRow
<1>. QED
  BY <1>1, <1>2, <1>3

LEMMA VerifiedNow ==
    ASSUME TypeOK, RowsKnown, NEW r \in Requests, ActivateUser(r)
    PROVE  /\ otp'[picked[r]].verified = txNow[r] /\ txNow[r] # Never
           /\ \A c \in DOMAIN otp : c # picked[r] => otp'[c] = otp[c]
<1>1. txNow[r] # Never
  BY DEF TypeOK, Never
<1>. QED
  BY <1>1, RightCodeRow, RowFields DEF OnlyRow

(* Rows change only in these four steps, and none is lost. *)
LEMMA RowSteps ==
    ASSUME TypeOK, RowsKnown, TimesKnown, [Next]_vars
    PROVE  \/ otp' = otp /\ guessed' = guessed /\ redeemed' = redeemed
           \/ \E r \in Requests : \/ InsertChallenge(r) \/ RefuseExpired(r)
                                  \/ RefuseWrongCode(r) \/ ActivateUser(r)
<1>1. ASSUME NEW r \in Requests, QuietStep(r)
      PROVE  otp' = otp /\ guessed' = guessed /\ redeemed' = redeemed
  BY <1>1, QuietFacts DEF Quiet
<1>2. ASSUME NEW r \in Requests, GiveUp(r)
      PROVE  otp' = otp /\ guessed' = guessed /\ redeemed' = redeemed
  BY <1>2, GiveUpRows
<1>3. ASSUME NEW r \in Requests,
             LockUser(r) \/ LockLatest(r) \/ RevokeLive(r) \/ LockChallenge(r) \/ AcceptCode(r)
      PROVE  otp' = otp /\ guessed' = guessed /\ redeemed' = redeemed
  BY <1>3 DEF LockUser, LockLatest, RevokeLive, LockChallenge, AcceptCode, kept
<1>4. Tick \/ UNCHANGED vars => otp' = otp /\ guessed' = guessed /\ redeemed' = redeemed
  BY DEF Tick, vars, kept
<1>. QED
  BY <1>1, <1>2, <1>3, <1>4, NextCases

LEMMA VerdictsStep ==
    ASSUME TypeOK, RowsKnown, TimesKnown, VerdictsKnown, [Next]_vars
    PROVE  VerdictsKnown'
<1> USE DEF VerdictsKnown
<1>. /\ pc \in [Requests -> {"idle", "done"} \cup InFlight]
     /\ guessed \in [Requests -> Requests \cup {NoRequest}]
     /\ redeemed \in [Requests -> Requests \cup {NoRequest}]
  BY DEF TypeOK
<1>1. ASSUME NEW r \in Requests, QuietStep(r)
      PROVE  VerdictsKnown'
  BY <1>1, QuietFacts DEF Quiet, Frame
<1>2. ASSUME NEW r \in Requests, GiveUp(r)
      PROVE  VerdictsKnown'
  BY <1>2, LeaveFacts, GiveUpRows DEF Leave, Frame
<1>3. ASSUME NEW r \in Requests, InsertChallenge(r) \/ RefuseExpired(r)
      PROVE  VerdictsKnown'
  <2>1. /\ guessed' = guessed /\ redeemed' = redeemed
        /\ pc[r] \notin {"session", "done"}
        /\ \A s \in Requests \ {r} : pc'[s] = pc[s]
    BY <1>3 DEF InsertChallenge, RefuseExpired, Answer, Goto, kept
  <2>2. \A c \in DOMAIN otp : c \in DOMAIN otp' /\ otp'[c].verified = otp[c].verified
    BY <1>3, FieldsKept, VerifiedKept
  <2>. QED
    BY <2>1, <2>2
<1>4. ASSUME NEW r \in Requests, RefuseWrongCode(r)
      PROVE  VerdictsKnown'
  <2>1. /\ guessed' = [guessed EXCEPT ![r] = picked[r]] /\ redeemed' = redeemed
        /\ pc' = [pc EXCEPT ![r] = "done"]
    BY <1>4 DEF RefuseWrongCode, Answer, Goto
  <2>2. picked[r] \in DOMAIN otp
    BY <1>4 DEF RefuseWrongCode, RowsKnown, Judging, Challenges
  <2>3. \A c \in DOMAIN otp : c \in DOMAIN otp' /\ otp'[c].verified = otp[c].verified
    BY <1>4, FieldsKept, VerifiedKept
  <2>. QED
    BY <2>1, <2>2, <2>3
<1>5. ASSUME NEW r \in Requests, ActivateUser(r)
      PROVE  VerdictsKnown'
  <2>1. /\ redeemed' = [redeemed EXCEPT ![r] = picked[r]] /\ guessed' = guessed
        /\ pc' = [pc EXCEPT ![r] = "session"] /\ pc[r] = "activate"
    BY <1>5 DEF ActivateUser, Goto
  <2>2. picked[r] \in DOMAIN otp
    BY <1>5 DEF ActivateUser, RowsKnown, Judging, Challenges
  <2>3. \A c \in DOMAIN otp :
           /\ c \in DOMAIN otp'
           /\ otp[c].verified # Never \/ c = picked[r] => otp'[c].verified # Never
    BY <1>5, FieldsKept, VerifiedNow
  <2>. QED
    BY <2>1, <2>2, <2>3
<1>6. ASSUME NEW r \in Requests,
             LockUser(r) \/ LockLatest(r) \/ RevokeLive(r) \/ LockChallenge(r) \/ AcceptCode(r)
      PROVE  VerdictsKnown'
  BY <1>6 DEF LockUser, LockLatest, RevokeLive, LockChallenge, AcceptCode, Goto, kept
<1>7. CASE Tick
  BY <1>7 DEF Tick, kept
<1>8. CASE UNCHANGED vars
  BY <1>8 DEF vars, kept
<1>. QED
  BY <1>1, <1>2, <1>3, <1>4, <1>5, <1>6, <1>7, <1>8, NextCases

-----------------------------------------------------------------------------
(* The inductive invariant *)

LEMMA InitIInv == Init => IInv
BY InitTypeOK, NobodyAssumption
   DEF Init, IInv, LocksOwned, RowsKnown, JudgedLive, IssueReady, VerdictsKnown, TimesKnown,
       Issuing, Judging

LEMMA StepIInv == IInv /\ [Next]_vars => IInv'
BY TypeStep, LocksStep, RowsStep, TimesStep, JudgedStep, ReadyStep, VerdictsStep DEF IInv

(* Every reachable state satisfies the inductive invariant. *)
THEOREM Invariance == Spec => []IInv
BY InitIInv, StepIInv, PTL DEF Spec

(* Every variable keeps its type: the rows of otp_challenges, the locks    *)
(* and the state of the requests.                                          *)
THEOREM TypeCorrect == Spec => []TypeOK
<1>1. IInv => TypeOK
  BY DEF IInv
<1>. QED
  BY Invariance, <1>1, PTL

-----------------------------------------------------------------------------
(* The properties *)

(* A settled row is not written again, and no row disappears. *)
LEMMA SettledKept ==
    ASSUME IInv, NEW r \in Requests,
           \/ InsertChallenge(r) \/ RefuseExpired(r) \/ RefuseWrongCode(r) \/ ActivateUser(r),
           NEW c \in DOMAIN otp
    PROVE  /\ c \in DOMAIN otp'
           /\ ~IsLive(c) => otp'[c] = otp[c]
<1>. TypeOK /\ RowsKnown /\ JudgedLive
  BY DEF IInv
<1>1. c \in DOMAIN otp' /\ c # r
  BY FieldsKept
<1>2. CASE InsertChallenge(r)
  BY <1>1, <1>2, InsertedRows
<1>3. CASE RefuseExpired(r) \/ RefuseWrongCode(r) \/ ActivateUser(r)
  <2>1. IsLive(picked[r])
    BY <1>3 DEF RefuseExpired, RefuseWrongCode, ActivateUser, JudgedLive, Judging
  <2>2. c # picked[r] => otp'[c] = otp[c]
    BY <1>3, ExpiredRow, WrongCodeRow, RightCodeRow DEF OnlyRow
  <2>. QED
    BY <1>1, <2>1, <2>2
<1>. QED
  BY <1>1, <1>2, <1>3

(* A challenge that was verified or revoked never changes again. *)
THEOREM SettledChallengesFrozen == Spec => SettledFrozen
<1> DEFINE A == \A c \in DOMAIN otp : /\ c \in DOMAIN otp'
                                      /\ ~IsLive(c) => otp'[c] = otp[c]
<1>1. IInv /\ [Next]_vars => A
  <2> SUFFICES ASSUME IInv, [Next]_vars
               PROVE  A
    OBVIOUS
  <2>1. CASE otp' = otp
    BY <2>1
  <2>2. ASSUME NEW r \in Requests,
               \/ InsertChallenge(r) \/ RefuseExpired(r) \/ RefuseWrongCode(r)
               \/ ActivateUser(r)
        PROVE  A
    BY <2>2, SettledKept
  <2>. QED
    BY <2>1, <2>2, RowSteps DEF IInv
<1>2. IInv /\ [Next]_vars => [A]_vars
  BY <1>1
<1>. HIDE DEF A
<1>3. Spec => [][A]_vars
  BY <1>2, Invariance, PTL DEF Spec
<1>. QED
  BY <1>3 DEF SettledFrozen, A

(* The live rows of a user after a step that writes rows: none that was    *)
(* dead, and after an INSERT for the user only the new one.                *)
LEMMA LiveAfter ==
    ASSUME IInv, NEW r \in Requests,
           \/ InsertChallenge(r) \/ RefuseExpired(r) \/ RefuseWrongCode(r) \/ ActivateUser(r),
           NEW u \in Users
    PROVE  \/ Live(u)' \subseteq Live(u)
           \/ InsertChallenge(r) /\ u = target[r] /\ Live(u)' \subseteq {r}
<1>. TypeOK /\ RowsKnown /\ JudgedLive /\ IssueReady
  BY DEF IInv
<1>1. ASSUME NEW c \in DOMAIN otp, c \in Live(u)'
      PROVE  c \in Live(u)
  <2>1. otp'[c].user = otp[c].user
    BY FieldsKept
  <2>2. IsLive(c)
    BY <1>1, SettledKept DEF Live, IsLive
  <2>. QED
    BY <1>1, <2>1, <2>2 DEF Live, Challenges
<1>2. CASE RefuseExpired(r) \/ RefuseWrongCode(r) \/ ActivateUser(r)
  <2>1. DOMAIN otp' = DOMAIN otp
    BY <1>2, ExpiredRow, WrongCodeRow, RightCodeRow DEF OnlyRow
  <2>. QED
    BY <1>1, <2>1 DEF Live, Challenges
<1>3. CASE InsertChallenge(r)
  <2>1. DOMAIN otp' = DOMAIN otp \cup {r} /\ otp'[r] = NewChallenge(r)
    BY <1>3, InsertedRows
  <2>2. NewChallenge(r).user = target[r]
    BY DEF NewChallenge
  <2>3. CASE u # target[r]
    BY <1>1, <2>1, <2>2, <2>3 DEF Live, Challenges
  <2>4. CASE u = target[r]
    <3>1. ASSUME NEW c \in DOMAIN otp, c \in Live(u)'
          PROVE  FALSE
      <4>1. IsLive(c) /\ rowLock[c] = r
        BY <1>1, <1>3, <2>4, <3>1 DEF IssueReady, InsertChallenge, Live
      <4>2. otp'[c] = Row(c, otp[c].attempts, otp[c].verified, "yes")
        <5>1. c \in DOMAIN otp \ {r}
          BY <1>3, FieldsKept
        <5>. QED
          BY <1>3, <4>1, <5>1, InsertedRows
      <4>3. otp'[c].revoked = "yes"
        BY <4>2, RowFields
      <4>. QED
        BY <3>1, <4>3 DEF Live, IsLive
    <3>. QED
      BY <1>3, <2>1, <2>4, <3>1 DEF Live, Challenges
  <2>. QED
    BY <2>3, <2>4
<1>. QED
  BY <1>2, <1>3

(* A user never has two live challenges. *)
THEOREM OneLiveChallenge == Spec => []AtMostOneLive
<1>1. Init => AtMostOneLive
  BY DEF Init, AtMostOneLive, Live, Challenges
<1>2. IInv /\ AtMostOneLive /\ [Next]_vars => AtMostOneLive'
  <2> SUFFICES ASSUME IInv, AtMostOneLive, [Next]_vars
               PROVE  AtMostOneLive'
    OBVIOUS
  <2>1. CASE otp' = otp
    BY <2>1 DEF AtMostOneLive, Live, Challenges, IsLive
  <2>2. ASSUME NEW r \in Requests,
               \/ InsertChallenge(r) \/ RefuseExpired(r) \/ RefuseWrongCode(r)
               \/ ActivateUser(r)
        PROVE  AtMostOneLive'
    BY <2>2, LiveAfter DEF AtMostOneLive
  <2>. QED
    BY <2>1, <2>2, RowSteps DEF IInv
<1>. QED
  BY <1>1, <1>2, Invariance, PTL DEF Spec

(* A challenge is redeemed by at most one request. *)
THEOREM RedeemedOnce == Spec => []OneRedemption
<1>1. Init => OneRedemption
  BY DEF Init, OneRedemption
<1>2. IInv /\ OneRedemption /\ [Next]_vars => OneRedemption'
  <2> SUFFICES ASSUME IInv, OneRedemption, [Next]_vars
               PROVE  OneRedemption'
    OBVIOUS
  <2>. TypeOK /\ RowsKnown /\ JudgedLive /\ VerdictsKnown
    BY DEF IInv
  <2>. USE DEF OneRedemption, Redemptions
  <2>1. CASE otp' = otp /\ redeemed' = redeemed
    BY <2>1
  <2>2. ASSUME NEW r \in Requests, InsertChallenge(r)
        PROVE  OneRedemption'
    <3>1. redeemed' = redeemed /\ DOMAIN otp' = DOMAIN otp \cup {r} /\ r \notin DOMAIN otp
      BY <2>2, InsertedRows, FieldsKept DEF InsertChallenge, kept
    <3>2. \A s \in Requests : redeemed[s] # r
      BY <3>1, NobodyAssumption DEF VerdictsKnown
    <3>. QED
      BY <3>1, <3>2
  <2>3. ASSUME NEW r \in Requests, RefuseExpired(r) \/ RefuseWrongCode(r)
        PROVE  OneRedemption'
    BY <2>3, ExpiredRow, WrongCodeRow DEF OnlyRow, RefuseExpired, RefuseWrongCode, kept
  <2>4. ASSUME NEW r \in Requests, ActivateUser(r)
        PROVE  OneRedemption'
    <3>1. redeemed' = [redeemed EXCEPT ![r] = picked[r]] /\ DOMAIN otp' = DOMAIN otp
      BY <2>4, RightCodeRow DEF ActivateUser, OnlyRow
    <3>2. otp[picked[r]].verified = Never /\ picked[r] \in DOMAIN otp
      BY <2>4, RowsInRequests DEF ActivateUser, JudgedLive, IsLive, Judging
    <3>3. \A s \in Requests : redeemed[s] # picked[r]
      BY <3>2, NobodyAssumption DEF VerdictsKnown, TypeOK
    <3>. QED
      BY <3>1, <3>3 DEF TypeOK
  <2>. QED
    BY <2>1, <2>2, <2>3, <2>4, RowSteps DEF IInv
<1>. QED
  BY <1>1, <1>2, Invariance, PTL DEF Spec

(* phone_verified_at is written by VerifyOTP only. *)
LEMMA VerifiedSteps ==
    ASSUME [Next]_vars
    PROVE  verifiedAt' = verifiedAt \/ \E r \in Requests : ActivateUser(r)
<1>1. ASSUME NEW r \in Requests, QuietStep(r) \/ GiveUp(r)
      PROVE  verifiedAt' = verifiedAt
  BY <1>1 DEF QuietStep, GiveUp, Arrive, Register, ResendPhoneVerification, VerifyPhone,
         RejectMalformed, CreateUser, RefuseDuplicate, FindByPhone, BeginIssue, SendSMS,
         SelectLive, NoLiveChallenge, SkipSettled, IssueSession, RefuseCooldown,
         RefuseRateLimited, Fail, AbortDeadlock, users
<1>2. ASSUME NEW r \in Requests,
             \/ LockUser(r) \/ LockLatest(r) \/ RevokeLive(r) \/ InsertChallenge(r)
             \/ LockChallenge(r) \/ RefuseExpired(r) \/ RefuseWrongCode(r) \/ AcceptCode(r)
      PROVE  verifiedAt' = verifiedAt
  BY <1>2 DEF LockUser, LockLatest, RevokeLive, InsertChallenge, LockChallenge,
         RefuseExpired, RefuseWrongCode, AcceptCode, users
<1>3. Tick \/ UNCHANGED vars => verifiedAt' = verifiedAt
  BY DEF Tick, vars, users
<1>. QED
  BY <1>1, <1>2, <1>3, NextCases

(* phone_verified_at keeps its first value. *)
THEOREM FirstVerificationKept == Spec => FirstVerificationStands
<1> DEFINE A == \A u \in Users : verifiedAt[u] # Never => verifiedAt'[u] = verifiedAt[u]
<1>1. IInv /\ [Next]_vars => [A]_vars
  <2> SUFFICES ASSUME IInv, [Next]_vars
               PROVE  A
    OBVIOUS
  <2>. TypeOK
    BY DEF IInv
  <2>1. CASE verifiedAt' = verifiedAt
    BY <2>1
  <2>2. ASSUME NEW r \in Requests, ActivateUser(r)
        PROVE  A
    BY <2>2 DEF ActivateUser, FirstOf, TypeOK
  <2>. QED
    BY <2>1, <2>2, VerifiedSteps
<1>. HIDE DEF A
<1>2. Spec => [][A]_vars
  BY <1>1, Invariance, PTL DEF Spec
<1>. QED
  BY <1>2 DEF FirstVerificationStands, A

(* A challenge is stored only when the earlier ones of the user are at     *)
(* least Cooldown old.                                                     *)
THEOREM CooldownRespected == Spec => CooldownHeld
<1> DEFINE A == \A r \in DOMAIN otp' \ DOMAIN otp :
                   \A c \in Challenges(target[r]) : AppNow - otp[c].created >= Cooldown
<1>1. IInv /\ [Next]_vars => [A]_vars
  <2> SUFFICES ASSUME IInv, [Next]_vars
               PROVE  A
    OBVIOUS
  <2>. TypeOK /\ RowsKnown /\ TimesKnown /\ IssueReady
    BY DEF IInv
  <2>1. CASE otp' = otp
    BY <2>1
  <2>2. ASSUME NEW r \in Requests, InsertChallenge(r)
        PROVE  A
    BY <2>2, InsertedRows DEF InsertChallenge, IssueReady
  <2>3. ASSUME NEW r \in Requests, RefuseExpired(r) \/ RefuseWrongCode(r) \/ ActivateUser(r)
        PROVE  A
    BY <2>3, ExpiredRow, WrongCodeRow, RightCodeRow DEF OnlyRow
  <2>. QED
    BY <2>1, <2>2, <2>3, RowSteps
<1>. HIDE DEF A
<1>2. Spec => [][A]_vars
  BY <1>1, Invariance, PTL DEF Spec
<1>. QED
  BY <1>2 DEF CooldownHeld, A

-----------------------------------------------------------------------------
(* The limits *)

(* What a step that writes rows leaves in a window of a user: the rows that *)
(* were there, and the row it inserts.                                      *)
InSpan(u, t) == {c \in Challenges(u) : otp[c].created \in t .. t + ResendWindow}

LEMMA SpanAfter ==
    ASSUME TypeOK, RowsKnown, NEW r \in Requests,
           \/ InsertChallenge(r) \/ RefuseExpired(r) \/ RefuseWrongCode(r) \/ ActivateUser(r),
           NEW u \in Users, NEW t \in Nat
    PROVE  \/ InSpan(u, t)' = InSpan(u, t)
           \/ /\ InsertChallenge(r) /\ u = target[r]
              /\ txNow[r] \in t .. t + ResendWindow
              /\ InSpan(u, t)' = InSpan(u, t) \cup {r}
<1>1. \A c \in DOMAIN otp :
         /\ c \in DOMAIN otp'
         /\ otp'[c].user = otp[c].user
         /\ otp'[c].created = otp[c].created
  BY FieldsKept
<1>2. CASE RefuseExpired(r) \/ RefuseWrongCode(r) \/ ActivateUser(r)
  <2>1. DOMAIN otp' = DOMAIN otp
    BY <1>2, ExpiredRow, WrongCodeRow, RightCodeRow DEF OnlyRow
  <2>. QED
    BY <1>1, <2>1 DEF InSpan, Challenges
<1>3. CASE InsertChallenge(r)
  <2>1. DOMAIN otp' = DOMAIN otp \cup {r} /\ otp'[r] = NewChallenge(r)
    BY <1>3, InsertedRows
  <2>2. NewChallenge(r).user = target[r] /\ NewChallenge(r).created = txNow[r]
    BY DEF NewChallenge
  <2>. QED
    BY <1>1, <1>3, <2>1, <2>2 DEF InSpan, Challenges
<1>. QED
  BY <1>2, <1>3

LEMMA SpanFinite ==
    ASSUME TypeOK, NEW u, NEW t
    PROVE  IsFiniteSet(InSpan(u, t))
<1>1. InSpan(u, t) \subseteq Requests
  BY DEF InSpan, Challenges, TypeOK
<1>. QED
  BY <1>1, RequestsAssumption, FS_Subset

(* No interval of the length of the resend window holds more than          *)
(* MaxResends challenges of a user: the count under the lock on the user   *)
(* is of a superset of what any such interval around the new row holds.    *)
THEOREM ResendsLimited == Spec => []WindowLimit
<1>1. Init => WindowLimit
  <2> SUFFICES ASSUME Init, NEW u \in Users, NEW t \in 0 .. MaxTime
               PROVE  Cardinality({c \in Challenges(u) :
                          otp[c].created \in t .. t + ResendWindow}) <= MaxResends
    BY DEF WindowLimit
  <2>1. {c \in Challenges(u) : otp[c].created \in t .. t + ResendWindow} = {}
    BY DEF Init, Challenges
  <2>. QED
    BY <2>1, FS_EmptySet, PolicyAssumption
<1>2. IInv /\ WindowLimit /\ [Next]_vars => WindowLimit'
  <2> SUFFICES ASSUME IInv, WindowLimit, [Next]_vars,
                      NEW u \in Users, NEW t \in 0 .. MaxTime
               PROVE  Cardinality(InSpan(u, t)') <= MaxResends
    BY DEF WindowLimit, InSpan
  <2>. TypeOK /\ RowsKnown /\ TimesKnown /\ IssueReady
    BY DEF IInv
  <2>1. t \in Nat /\ Cardinality(InSpan(u, t)) <= MaxResends
    BY ClockAssumption DEF WindowLimit, InSpan
  <2>2. CASE otp' = otp
    BY <2>1, <2>2 DEF InSpan, Challenges
  <2>3. ASSUME NEW r \in Requests, InsertChallenge(r), u = target[r],
               txNow[r] \in t .. t + ResendWindow,
               InSpan(u, t)' = InSpan(u, t) \cup {r}
        PROVE  Cardinality(InSpan(u, t)') <= MaxResends
    <3> DEFINE W == InWindow(u, txNow[r])
    <3>1. ~(Cardinality(W) >= MaxResends)
      BY <2>3 DEF IssueReady, InsertChallenge, OverLimit
    <3>2. InSpan(u, t) \subseteq W
      <4>1. \A c \in DOMAIN otp : otp[c].created \in Nat
        BY DEF TypeOK, Challenge
      <4>2. txNow[r] \in Nat
        BY DEF TypeOK
      <4>. QED
        BY <2>1, <2>3, <4>1, <4>2, PolicyAssumption DEF InSpan, InWindow, Challenges
    <3>3. IsFiniteSet(W)
      <4>1. W \subseteq Requests
        BY DEF InWindow, Challenges, TypeOK
      <4>. QED
        BY <4>1, RequestsAssumption, FS_Subset
    <3>. HIDE DEF W
    <3>4. /\ Cardinality(InSpan(u, t)) <= Cardinality(W)
          /\ Cardinality(W) \in Nat /\ Cardinality(InSpan(u, t)) \in Nat
      BY <3>2, <3>3, SpanFinite, FS_Subset, FS_CardinalityType
    <3>5. Cardinality(InSpan(u, t) \cup {r}) <= Cardinality(InSpan(u, t)) + 1
      BY <3>4, SpanFinite, FS_AddElement
    <3>6. Cardinality(InSpan(u, t) \cup {r}) \in Nat
      BY SpanFinite, FS_AddElement, FS_CardinalityType
    <3>. QED
      BY <2>3, <3>1, <3>4, <3>5, <3>6, PolicyAssumption
  <2>4. ASSUME NEW r \in Requests,
               \/ InsertChallenge(r) \/ RefuseExpired(r) \/ RefuseWrongCode(r)
               \/ ActivateUser(r)
        PROVE  Cardinality(InSpan(u, t)') <= MaxResends
    BY <2>1, <2>3, <2>4, SpanAfter
  <2>. QED
    BY <2>2, <2>4, RowSteps
<1>. QED
  BY <1>1, <1>2, Invariance, PTL DEF Spec

(* A challenge is verified only before its expiry on the API's clock. *)
THEOREM VerificationInTime == Spec => []VerifiedInTime
<1>1. Init => VerifiedInTime
  BY DEF Init, VerifiedInTime
<1>2. IInv /\ VerifiedInTime /\ [Next]_vars => VerifiedInTime'
  <2> SUFFICES ASSUME IInv, VerifiedInTime, [Next]_vars
               PROVE  VerifiedInTime'
    OBVIOUS
  <2>. TypeOK /\ RowsKnown /\ TimesKnown
    BY DEF IInv
  <2>1. CASE otp' = otp
    BY <2>1 DEF VerifiedInTime
  <2>2. ASSUME NEW r \in Requests, InsertChallenge(r) \/ RefuseExpired(r) \/ RefuseWrongCode(r)
        PROVE  VerifiedInTime'
    <3>1. \A c \in DOMAIN otp : /\ otp'[c].verified = otp[c].verified
                                /\ otp'[c].expires = otp[c].expires
      BY <2>2, VerifiedKept, FieldsKept
    <3>2. \A c \in DOMAIN otp' \ DOMAIN otp : otp'[c].verified = Never
      <4>1. NewChallenge(r).verified = Never
        BY DEF NewChallenge
      <4>2. CASE InsertChallenge(r)
        BY <4>1, <4>2, InsertedRows
      <4>3. CASE RefuseExpired(r) \/ RefuseWrongCode(r)
        BY <4>3, ExpiredRow, WrongCodeRow DEF OnlyRow
      <4>. QED
        BY <2>2, <4>2, <4>3
    <3>. QED
      BY <3>1, <3>2 DEF VerifiedInTime
  <2>3. ASSUME NEW r \in Requests, ActivateUser(r)
        PROVE  VerifiedInTime'
    <3>1. DOMAIN otp' = DOMAIN otp /\ picked[r] \in DOMAIN otp
      BY <2>3, RightCodeRow DEF OnlyRow
    <3>2. otp'[picked[r]].verified + Skew < otp'[picked[r]].expires
      BY <2>3, <3>1, VerifiedNow, FieldsKept DEF TimesKnown, ActivateUser
    <3>. QED
      BY <2>3, <3>1, <3>2, VerifiedNow DEF VerifiedInTime
  <2>. QED
    BY <2>1, <2>2, <2>3, RowSteps
<1>. QED
  BY <1>1, <1>2, Invariance, PTL DEF Spec

(* What a step does to the rows, to attempt_count and to who guessed. *)
Budget(c) ==
    /\ otp[c].attempts = Cardinality(Guesses(c))
    /\ otp[c].attempts <= MaxAttempts
    /\ otp[c].attempts = MaxAttempts => otp[c].revoked = "yes" /\ otp[c].verified = Never

LEMMA GuessesFinite ==
    ASSUME NEW c
    PROVE  IsFiniteSet(Guesses(c))
<1>1. Guesses(c) \subseteq Requests
  BY DEF Guesses
<1>. QED
  BY <1>1, RequestsAssumption, FS_Subset

LEMMA BudgetInsert ==
    ASSUME IInv, NEW r \in Requests, InsertChallenge(r), \A c \in DOMAIN otp : Budget(c),
           NEW c \in DOMAIN otp'
    PROVE  Budget(c)'
<1>. TypeOK /\ RowsKnown /\ VerdictsKnown
  BY DEF IInv
<1>1. guessed' = guessed
  BY DEF InsertChallenge, kept
<1>2. Guesses(c)' = Guesses(c)
  BY <1>1 DEF Guesses
<1>3. CASE c = r
  <2>1. r \notin DOMAIN otp /\ otp'[r] = NewChallenge(r)
    BY InsertedRows, FieldsKept
  <2>2. NewChallenge(r).attempts = 0
    BY DEF NewChallenge
  <2>3. Guesses(r) = {}
    BY <2>1, NobodyAssumption DEF Guesses, VerdictsKnown
  <2>. QED
    BY <1>2, <1>3, <2>1, <2>2, <2>3, FS_EmptySet, PolicyAssumption DEF Budget
<1>4. CASE c # r
  <2>0. DOMAIN otp' = DOMAIN otp \cup {r}
    BY InsertedRows
  <2>1. c \in DOMAIN otp \ {r}
    BY <1>4, <2>0
  <2>2. \/ otp'[c] = otp[c]
        \/ otp'[c] = Row(c, otp[c].attempts, otp[c].verified, "yes")
    BY <2>1, InsertedRows
  <2>3. /\ otp'[c].attempts = otp[c].attempts
        /\ otp'[c].verified = otp[c].verified
        /\ otp'[c].revoked = otp[c].revoked \/ otp'[c].revoked = "yes"
    BY <2>2, RowFields
  <2>. QED
    BY <1>2, <2>1, <2>3 DEF Budget
<1>. QED
  BY <1>3, <1>4

LEMMA BudgetExpired ==
    ASSUME IInv, NEW r \in Requests, RefuseExpired(r), \A c \in DOMAIN otp : Budget(c),
           NEW c \in DOMAIN otp'
    PROVE  Budget(c)'
<1>. TypeOK /\ RowsKnown
  BY DEF IInv
<1>1. guessed' = guessed
  BY DEF RefuseExpired, kept
<1>2. Guesses(c)' = Guesses(c)
  BY <1>1 DEF Guesses
<1>3. /\ c \in DOMAIN otp
      /\ otp'[c].attempts = otp[c].attempts
      /\ otp'[c].verified = otp[c].verified
      /\ otp'[c].revoked = otp[c].revoked \/ otp'[c].revoked = "yes"
  BY ExpiredRow, RowFields DEF OnlyRow
<1>. QED
  BY <1>2, <1>3 DEF Budget

LEMMA BudgetActivated ==
    ASSUME IInv, NEW r \in Requests, ActivateUser(r), \A c \in DOMAIN otp : Budget(c),
           NEW c \in DOMAIN otp'
    PROVE  Budget(c)'
<1>. TypeOK /\ RowsKnown /\ JudgedLive
  BY DEF IInv
<1>1. guessed' = guessed
  BY DEF ActivateUser
<1>2. Guesses(c)' = Guesses(c)
  BY <1>1 DEF Guesses
<1>3. c \in DOMAIN otp /\ otp'[c].attempts = otp[c].attempts
  BY RightCodeRow, RowFields DEF OnlyRow
<1>4. c # picked[r] => otp'[c] = otp[c]
  BY <1>3, VerifiedNow
<1>5. otp[picked[r]].revoked = "no"
  BY DEF ActivateUser, JudgedLive, Judging, IsLive
<1>. QED
  BY <1>2, <1>3, <1>4, <1>5 DEF Budget

LEMMA BudgetWrongCode ==
    ASSUME IInv, NEW r \in Requests, RefuseWrongCode(r), \A c \in DOMAIN otp : Budget(c),
           NEW c \in DOMAIN otp'
    PROVE  Budget(c)'
<1> DEFINE p == picked[r]
<1>. TypeOK /\ RowsKnown /\ JudgedLive /\ VerdictsKnown
  BY DEF IInv
<1>1. /\ guessed \in [Requests -> Requests \cup {NoRequest}]
      /\ guessed' = [guessed EXCEPT ![r] = p]
      /\ guessed[r] = NoRequest
  BY DEF RefuseWrongCode, VerdictsKnown, TypeOK
<1>2. /\ p \in DOMAIN otp /\ p \in Requests
      /\ seen[r] = otp[p].attempts /\ IsLive(p)
  BY RowsInRequests DEF RefuseWrongCode, JudgedLive, Judging
<1>3. CASE c # p
  <2>1. c \in DOMAIN otp /\ otp'[c] = otp[c]
    BY <1>3, WrongCodeRow DEF OnlyRow
  <2>2. c # NoRequest
    BY <2>1, NobodyAssumption DEF TypeOK
  <2>3. Guesses(c)' = Guesses(c)
    BY <1>1, <1>3, <2>2 DEF Guesses
  <2>. QED
    BY <2>1, <2>3 DEF Budget
<1>4. CASE c = p
  <2>1. Guesses(c)' = Guesses(c) \cup {r} /\ r \notin Guesses(c)
    BY <1>1, <1>2, <1>4, NobodyAssumption DEF Guesses
  <2>2. Cardinality(Guesses(c)') = Cardinality(Guesses(c)) + 1
    BY <2>1, GuessesFinite, FS_AddElement
  <2>3. /\ otp'[c].attempts = seen[r] + 1
        /\ otp'[c].verified = otp[c].verified
        /\ seen[r] + 1 >= MaxAttempts => otp'[c].revoked = "yes"
    BY <1>4, WrongCodeRow, RowFields DEF OnlyRow
  <2>4. seen[r] \in Nat /\ seen[r] < MaxAttempts
    BY <1>2, PolicyAssumption DEF Budget, IsLive, TypeOK
  <2>. QED
    BY <1>2, <1>4, <2>2, <2>3, <2>4, PolicyAssumption DEF Budget, IsLive
<1>. QED
  BY <1>3, <1>4

(* attempt_count is the number of wrong guesses, none lost, never above    *)
(* MaxAttempts, and a challenge that has reached it is dead.               *)
THEOREM GuessesCounted == Spec => []GuessBudget
<1>1. Init => GuessBudget
  BY DEF Init, GuessBudget
<1>2. IInv /\ GuessBudget /\ [Next]_vars => GuessBudget'
  <2> SUFFICES ASSUME IInv, \A c \in DOMAIN otp : Budget(c), [Next]_vars,
                      NEW c \in DOMAIN otp'
               PROVE  Budget(c)'
    BY DEF GuessBudget, Budget
  <2>1. CASE otp' = otp /\ guessed' = guessed
    BY <2>1 DEF Budget, Guesses
  <2>2. ASSUME NEW r \in Requests,
               \/ InsertChallenge(r) \/ RefuseExpired(r) \/ RefuseWrongCode(r)
               \/ ActivateUser(r)
        PROVE  Budget(c)'
    BY <2>2, BudgetInsert, BudgetExpired, BudgetWrongCode, BudgetActivated
  <2>. QED
    BY <2>1, <2>2, RowSteps DEF IInv
<1>. QED
  BY <1>1, <1>2, Invariance, PTL DEF Spec

-----------------------------------------------------------------------------
(* A transaction locks challenges of its own user only. *)
RowLocksOwn ==
    \A c \in Requests : rowLock[c] # NoRequest =>
        c \in DOMAIN otp /\ otp[c].user = target[rowLock[c]]

LEMMA RowLocksStep ==
    ASSUME IInv, RowLocksOwn, [Next]_vars
    PROVE  RowLocksOwn'
<1>. TypeOK /\ RowsKnown /\ TimesKnown
  BY DEF IInv
<1>. /\ rowLock \in [Requests -> Requests \cup {NoRequest}]
     /\ target \in [Requests -> Users]
     /\ DOMAIN otp \subseteq Requests
  BY DEF TypeOK
<1>1. ASSUME NEW r \in Requests, QuietStep(r)
      PROVE  RowLocksOwn'
  BY <1>1, QuietFacts DEF Quiet, Frame, RowLocksOwn
<1>2. ASSUME NEW r \in Requests, GiveUp(r)
      PROVE  RowLocksOwn'
  <2>1. otp' = otp /\ target' = target /\ ReleaseLocks(r)
    BY <1>2, GiveUpRows, LeaveFacts DEF Leave, Frame
  <2>. QED
    BY <2>1 DEF ReleaseLocks, RowLocksOwn
<1>3. ASSUME NEW r \in Requests,
             \/ InsertChallenge(r) \/ RefuseExpired(r) \/ RefuseWrongCode(r)
             \/ ActivateUser(r)
      PROVE  RowLocksOwn'
  <2>1. target' = target /\ ReleaseLocks(r)
    BY <1>3, LeaveFacts DEF Leave, Frame
  <2>2. \A c \in DOMAIN otp : c \in DOMAIN otp' /\ otp'[c].user = otp[c].user
    BY <1>3, FieldsKept
  <2>. QED
    BY <2>1, <2>2 DEF ReleaseLocks, RowLocksOwn
<1>4. ASSUME NEW r \in Requests, LockLatest(r) \/ LockChallenge(r)
      PROVE  RowLocksOwn'
  <2>1. picked[r] \in DOMAIN otp /\ otp[picked[r]].user = target[r]
    BY <1>4 DEF LockLatest, LockChallenge, RowsKnown, Challenges
  <2>2. /\ rowLock' = [rowLock EXCEPT ![picked[r]] = r]
        /\ otp' = otp /\ target' = target
    BY <1>4 DEF LockLatest, LockChallenge, kept
  <2>. QED
    BY <2>1, <2>2 DEF RowLocksOwn
<1>5. ASSUME NEW r \in Requests, RevokeLive(r)
      PROVE  RowLocksOwn'
  BY <1>5 DEF RevokeLive, RowLocksOwn, Live, Challenges, kept
<1>6. ASSUME NEW r \in Requests, LockUser(r) \/ AcceptCode(r)
      PROVE  RowLocksOwn'
  BY <1>6 DEF LockUser, AcceptCode, RowLocksOwn, locks, kept
<1>7. CASE Tick \/ UNCHANGED vars
  BY <1>7 DEF Tick, vars, locks, kept, RowLocksOwn
<1>. QED
  BY <1>1, <1>2, <1>3, <1>4, <1>5, <1>6, <1>7, NextCases

(* A transaction locks rows of its own user only. *)
THEOREM LocksOfOneUser == Spec => []RowLocksOwn
<1>1. Init => RowLocksOwn
  BY DEF Init, RowLocksOwn
<1>2. IInv /\ RowLocksOwn /\ [Next]_vars => RowLocksOwn'
  BY RowLocksStep
<1>. QED
  BY <1>1, <1>2, Invariance, PTL DEF Spec

-----------------------------------------------------------------------------
(* Who waits for whom *)

(* A request waits for transactions of its own user that hold locks. *)
LEMMA Holder ==
    ASSUME IInv, RowLocksOwn, NEW r \in Requests, NEW s \in Requests, WaitsFor(r, s)
    PROVE  pc[s] \in Issuing \cup Judging /\ target[s] = target[r]
<1>. /\ LocksOwned /\ RowsKnown
     /\ target \in [Requests -> Users] /\ DOMAIN otp \subseteq Requests
  BY DEF IInv, TypeOK
<1>1. CASE \E c \in Challenges(target[r]) : rowLock[c] = s
  <2>1. PICK c \in Challenges(target[r]) : rowLock[c] = s
    BY <1>1
  <2>2. pc[s] \in {"count", "insert"} \cup Judging
    BY <2>1, NobodyAssumption DEF LocksOwned, Challenges
  <2>3. target[s] = target[r]
    BY <2>1, NobodyAssumption DEF RowLocksOwn, Challenges
  <2>. QED
    BY <2>2, <2>3 DEF Issuing
<1>2. CASE userLock[target[r]] = s
  BY <1>2, NobodyAssumption DEF LocksOwned
<1>. QED
  BY <1>1, <1>2 DEF WaitsFor, RowsKnown, Live

(* Of the transactions of one user that hold locks at most one is an       *)
(* IssueOTP, because of the lock on the user, and at most one a VerifyOTP, *)
(* because each has locked the live challenge of the user.                 *)
LEMMA OneOfEach ==
    ASSUME IInv, AtMostOneLive, NEW r \in Requests, NEW s \in Requests,
           target[r] = target[s],
           \/ pc[r] \in Issuing /\ pc[s] \in Issuing
           \/ pc[r] \in Judging /\ pc[s] \in Judging
    PROVE  r = s
<1>. LocksOwned /\ RowsKnown /\ JudgedLive /\ target \in [Requests -> Users]
  BY DEF IInv, TypeOK
<1>1. CASE pc[r] \in Issuing /\ pc[s] \in Issuing
  BY <1>1 DEF LocksOwned
<1>2. CASE pc[r] \in Judging /\ pc[s] \in Judging
  <2>1. picked[r] \in Live(target[r]) /\ picked[s] \in Live(target[r])
    BY <1>2 DEF RowsKnown, JudgedLive, Live
  <2>2. picked[r] = picked[s]
    BY <2>1 DEF AtMostOneLive
  <2>. QED
    BY <1>2, <2>2 DEF LocksOwned
<1>. QED
  BY <1>1, <1>2

(* So an IssueOTP with locks waits for a VerifyOTP, and the other way      *)
(* round.                                                                  *)
LEMMA WaitsAcross ==
    ASSUME IInv, AtMostOneLive, RowLocksOwn, NEW r \in Requests, NEW s \in Requests,
           WaitsFor(r, s)
    PROVE  /\ pc[r] \in Issuing => pc[s] \in Judging
           /\ pc[r] \in Judging => pc[s] \in Issuing
<1>. /\ LocksOwned /\ RowsKnown
     /\ target \in [Requests -> Users] /\ DOMAIN otp \subseteq Requests
  BY DEF IInv, TypeOK
<1>1. ASSUME pc[r] \in Issuing
      PROVE  pc[s] \in Judging
  <2>1. r # s
    <3>1. CASE pc[r] = "lock_latest" /\ rowLock[picked[r]] = r
      BY <3>1, NobodyAssumption DEF LocksOwned, RowsKnown, Challenges, Judging
    <3>. QED
      BY <1>1, <3>1 DEF WaitsFor, Issuing
  <2>. QED
    BY <1>1, <2>1, Holder, OneOfEach
<1>2. ASSUME pc[r] \in Judging
      PROVE  pc[s] \in Issuing
  BY <1>2, NobodyAssumption DEF WaitsFor, Judging, LocksOwned
<1>. QED
  BY <1>1, <1>2

(* Every wait ends in a request that can go on, or in a deadlock of an     *)
(* IssueOTP and a VerifyOTP: no other cycle, and no lock without owner.    *)
THEOREM NobodyWaitsInVain == Spec => []WaitsEnd
<1>1. IInv /\ AtMostOneLive /\ RowLocksOwn => WaitsEnd
  <2> SUFFICES ASSUME IInv, AtMostOneLive, RowLocksOwn,
                      NEW r \in Requests, NEW s \in Requests, WaitsFor(r, s), ~Free(s)
               PROVE  \/ Deadlocked(s)
                      \/ \E t \in Requests : WaitsFor(s, t) /\ Free(t)
    BY DEF WaitsEnd
  <2>1. pc[s] \in Issuing \cup Judging
    BY Holder
  <2>2. PICK t \in Requests : WaitsFor(s, t)
    BY <2>1 DEF Free, InFlight
  <2>3. /\ pc[t] \in Issuing \cup Judging /\ target[t] = target[s]
        /\ pc[s] \in Issuing => pc[t] \in Judging
        /\ pc[s] \in Judging => pc[t] \in Issuing
    BY <2>2, Holder, WaitsAcross
  <2>4. ASSUME NEW x \in Requests, WaitsFor(t, x)
        PROVE  x = s
    <3>1. target[x] = target[t]
      BY <2>4, Holder
    <3>2. /\ pc[t] \in Issuing => pc[x] \in Judging
          /\ pc[t] \in Judging => pc[x] \in Issuing
      BY <2>4, WaitsAcross
    <3>. QED
      BY <2>1, <2>3, <3>1, <3>2, OneOfEach
  <2>5. s # t
    BY <2>1, <2>3 DEF Issuing, Judging
  <2>6. CASE Free(t)
    BY <2>2, <2>6
  <2>7. CASE ~Free(t)
    <3>1. PICK x \in Requests : WaitsFor(t, x)
      BY <2>3, <2>7 DEF Free, InFlight
    <3>. QED
      BY <2>2, <2>4, <2>5, <3>1 DEF Deadlocked
  <2>. QED
    BY <2>6, <2>7
<1>. QED
  BY <1>1, Invariance, OneLiveChallenge, LocksOfOneUser, PTL

-----------------------------------------------------------------------------
(* PhoneVerification implements OtpContract for every set of users and     *)
(* requests and every policy: each of the four steps that write rows of    *)
(* otp_challenges is a step of the contract, every other step a stutter.   *)

(* What the contract sees of a state. *)

LEMMA CodeIs ==
    ASSUME NEW S, NEW c, S = {c}
    PROVE  (CHOOSE d \in S : TRUE) = c
OBVIOUS

LEMMA NothingPending ==
    ASSUME NEW u, Live(u) = {}
    PROVE  CodeOf(u) = NoRequest /\ TriesOf(u) = 0
BY DEF CodeOf, TriesOf

LEMMA OnePending ==
    ASSUME NEW u, NEW c, Live(u) = {c}
    PROVE  CodeOf(u) = c /\ TriesOf(u) = otp[c].attempts
BY CodeIs DEF CodeOf, TriesOf

(* The same of the next state. *)
LEMMA NothingPendingNext ==
    ASSUME NEW CONSTANT u, Live(u)' = {}
    PROVE  CodeOf(u)' = NoRequest /\ TriesOf(u)' = 0
BY DEF CodeOf, TriesOf

LEMMA OnePendingNext ==
    ASSUME NEW CONSTANT u, NEW CONSTANT c, Live(u)' = {c}
    PROVE  CodeOf(u)' = c /\ TriesOf(u)' = otp'[c].attempts
BY CodeIs DEF CodeOf, TriesOf

LEMMA SamePending ==
    ASSUME AtMostOneLive, NEW CONSTANT u \in Users, Live(u)' = Live(u),
           \A c \in Live(u) : otp'[c].attempts = otp[c].attempts
    PROVE  CodeOf(u)' = CodeOf(u) /\ TriesOf(u)' = TriesOf(u)
<1>1. CASE Live(u) = {}
  BY <1>1, NothingPending, NothingPendingNext
<1>2. ASSUME NEW c \in Live(u)
      PROVE  CodeOf(u)' = CodeOf(u) /\ TriesOf(u)' = TriesOf(u)
  <2>1. Live(u) = {c}
    BY <1>2 DEF AtMostOneLive
  <2>. QED
    BY <1>2, <2>1, OnePending, OnePendingNext
<1>. QED
  BY <1>1, <1>2

(* A step that writes rows leaves the rows of every other user alone. *)
LEMMA OthersKept ==
    ASSUME IInv, RowLocksOwn, AtMostOneLive, NEW r \in Requests,
           \/ InsertChallenge(r) \/ RefuseExpired(r) \/ RefuseWrongCode(r) \/ ActivateUser(r),
           NEW CONSTANT u \in Users, u # target[r]
    PROVE  CodeOf(u)' = CodeOf(u) /\ TriesOf(u)' = TriesOf(u)
<1>. TypeOK /\ RowsKnown
  BY DEF IInv
<1>1. ASSUME NEW c \in Live(u)
      PROVE  c \in DOMAIN otp /\ c \in Requests /\ c # r /\ otp'[c] = otp[c]
  <2>1. c \in DOMAIN otp /\ c \in Requests /\ otp[c].user = u
    BY <1>1 DEF Live, Challenges, TypeOK
  <2>2. c # r
    BY <2>1, FieldsKept
  <2>3. CASE InsertChallenge(r)
    <3>1. rowLock[c] # r
      BY <2>1, NobodyAssumption DEF RowLocksOwn
    <3>. QED
      BY <2>1, <2>2, <2>3, <3>1, InsertedRows
  <2>4. CASE RefuseExpired(r) \/ RefuseWrongCode(r) \/ ActivateUser(r)
    <3>1. otp[picked[r]].user = target[r]
      BY <2>4 DEF RefuseExpired, RefuseWrongCode, ActivateUser, RowsKnown, Challenges, Judging
    <3>. QED
      BY <2>1, <2>2, <2>4, <3>1, ExpiredRow, WrongCodeRow, RightCodeRow DEF OnlyRow
  <2>. QED
    BY <2>1, <2>2, <2>3, <2>4
<1>2. Live(u)' \subseteq Live(u)
  BY LiveAfter
<1>3. Live(u) \subseteq Live(u)'
  <2>1. \A c \in Live(u) : c \in DOMAIN otp'
    BY <1>1, FieldsKept
  <2>. QED
    BY <1>1, <2>1 DEF Live, Challenges, IsLive
<1>. QED
  BY <1>1, <1>2, <1>3, SamePending

(* What Contract!Holds asks, user by user. *)
LEMMA HoldsNow ==
    ASSUME NEW CONSTANT u \in Users, NEW c, NEW n,
           CodeOf(u)' = c, TriesOf(u)' = n,
           \A w \in Users \ {u} : CodeOf(w)' = CodeOf(w) /\ TriesOf(w)' = TriesOf(w)
    PROVE  Contract!Holds(u, c, n)
<1>1. [w \in Users |-> CodeOf(w)]' = [[w \in Users |-> CodeOf(w)] EXCEPT ![u] = c]
  OBVIOUS
<1>2. [w \in Users |-> TriesOf(w)]' = [[w \in Users |-> TriesOf(w)] EXCEPT ![u] = n]
  OBVIOUS
<1>. QED
  BY <1>1, <1>2 DEF Contract!Holds

(* The INSERT of IssueOTP is Issue of the new code. *)
LEMMA IssueMaps ==
    ASSUME IInv, RowLocksOwn, AtMostOneLive, NEW CONSTANT r \in Requests, InsertChallenge(r)
    PROVE  Contract!Next
<1>. TypeOK /\ RowsKnown
  BY DEF IInv
<1>1. PICK u \in Users : u = target[r]
  BY DEF TypeOK
<1>2. r \notin DOMAIN otp
  BY FieldsKept
<1>3. DOMAIN otp' = DOMAIN otp \cup {r} /\ otp'[r] = NewChallenge(r)
  BY InsertedRows
<1>4. Live(u)' = {r} /\ otp'[r].attempts = 0
  <2>1. r \in Live(u)' /\ otp'[r].attempts = 0
    BY <1>1, <1>3 DEF NewChallenge, Live, Challenges, IsLive
  <2>2. r \notin Live(u)
    BY <1>2 DEF Live, Challenges
  <2>. QED
    BY <1>1, <2>1, <2>2, LiveAfter
<1>5. CodeOf(u) # r
  <2>1. CASE Live(u) = {}
    BY <2>1, NothingPending, NobodyAssumption
  <2>2. ASSUME NEW c \in Live(u)
        PROVE  CodeOf(u) # r
    <3>1. Live(u) = {c}
      BY <1>1, <2>2 DEF AtMostOneLive
    <3>. QED
      BY <1>2, <2>2, <3>1, OnePending DEF Live, Challenges
  <2>. QED
    BY <2>1, <2>2
<1>6. CodeOf(u)' = r /\ TriesOf(u)' = 0
  BY <1>4, OnePendingNext
<1>7. \A w \in Users \ {u} : CodeOf(w)' = CodeOf(w) /\ TriesOf(w)' = TriesOf(w)
  BY <1>1, OthersKept
<1>8. Contract!Holds(u, r, 0)
  BY <1>6, <1>7, HoldsNow
<1>9. verifiedAt' = verifiedAt
  BY DEF InsertChallenge, users
<1>10. Contract!Issue(u, r)
  BY <1>5, <1>8, <1>9 DEF Contract!Issue
<1>. QED
  BY <1>10 DEF Contract!Next

(* A challenge VerifyOTP judges is the code of its user; what the step     *)
(* leaves of it is what the contract says.                                 *)
LEMMA JudgedIsPending ==
    ASSUME IInv, AtMostOneLive, NEW CONSTANT r \in Requests, pc[r] \in Judging,
           NEW CONSTANT u \in Users, u = target[r]
    PROVE  /\ Live(u) = {picked[r]} /\ picked[r] \in Requests
           /\ CodeOf(u) = picked[r] /\ CodeOf(u) # NoRequest
           /\ TriesOf(u) = otp[picked[r]].attempts
           /\ otp[picked[r]].user = u
<1>. TypeOK /\ RowsKnown /\ JudgedLive
  BY DEF IInv
<1>1. picked[r] \in Live(u) /\ picked[r] \in Requests /\ otp[picked[r]].user = u
  BY DEF RowsKnown, JudgedLive, Live, Challenges, TypeOK
<1>2. Live(u) = {picked[r]}
  BY <1>1 DEF AtMostOneLive
<1>. QED
  BY <1>1, <1>2, OnePending, NobodyAssumption

LEMMA SettledMaps ==
    ASSUME IInv, RowLocksOwn, AtMostOneLive, NEW CONSTANT r \in Requests,
           RefuseExpired(r) \/ RefuseWrongCode(r) \/ ActivateUser(r),
           NEW CONSTANT u \in Users, u = target[r],
           NEW CONSTANT c, c = picked[r], ~IsLive(c)'
    PROVE  Contract!Holds(u, NoRequest, 0)
<1>. TypeOK /\ RowsKnown
  BY DEF IInv
<1>1. pc[r] \in Judging
  BY DEF RefuseExpired, RefuseWrongCode, ActivateUser, Judging
<1>2. Live(u) = {picked[r]}
  BY <1>1, JudgedIsPending
<1>3. Live(u)' = {}
  <2>1. Live(u)' \subseteq {picked[r]}
    <3>1. ~InsertChallenge(r)
      BY <1>1 DEF InsertChallenge, Judging
    <3>. QED
      BY <1>2, <3>1, LiveAfter
  <2>. QED
    BY <2>1 DEF Live
<1>4. CodeOf(u)' = NoRequest /\ TriesOf(u)' = 0
  BY <1>3, NothingPendingNext
<1>5. \A w \in Users \ {u} : CodeOf(w)' = CodeOf(w) /\ TriesOf(w)' = TriesOf(w)
  BY OthersKept
<1>. QED
  BY <1>4, <1>5, HoldsNow

(* Expiry is Lapse. *)
LEMMA LapseMaps ==
    ASSUME IInv, RowLocksOwn, AtMostOneLive, NEW CONSTANT r \in Requests, RefuseExpired(r)
    PROVE  Contract!Next
<1>. TypeOK /\ RowsKnown
  BY DEF IInv
<1>1. PICK u \in Users : u = target[r]
  BY DEF TypeOK
<1>2. PICK c : c = picked[r]
  OBVIOUS
<1>3. otp'[c].revoked = "yes"
  BY <1>2, ExpiredRow, RowFields DEF OnlyRow
<1>4. Contract!Holds(u, NoRequest, 0)
  BY <1>1, <1>2, <1>3, SettledMaps DEF IsLive
<1>5. CodeOf(u) # NoRequest
  BY <1>1, JudgedIsPending DEF RefuseExpired, Judging
<1>6. verifiedAt' = verifiedAt
  BY DEF RefuseExpired, users
<1>7. Contract!Lapse(u)
  BY <1>4, <1>5, <1>6 DEF Contract!Lapse
<1>. QED
  BY <1>7 DEF Contract!Next

(* The right code is Redeem. *)
LEMMA RedeemMaps ==
    ASSUME IInv, RowLocksOwn, AtMostOneLive, NEW CONSTANT r \in Requests, ActivateUser(r)
    PROVE  Contract!Next
<1>. TypeOK /\ RowsKnown
  BY DEF IInv
<1>1. PICK u \in Users : u = target[r]
  BY DEF TypeOK
<1>2. PICK c : c = picked[r]
  OBVIOUS
<1>3. otp'[c].verified # Never
  BY <1>2, VerifiedNow
<1>4. Contract!Holds(u, NoRequest, 0)
  BY <1>1, <1>2, <1>3, SettledMaps DEF IsLive
<1>5. CodeOf(u) # NoRequest /\ otp[c].user = u
  BY <1>1, <1>2, JudgedIsPending DEF ActivateUser, Judging
<1>6. verifiedAt' = [verifiedAt EXCEPT ![u] = FirstOf(@, txNow[r])]
  BY <1>2, <1>5 DEF ActivateUser
<1>7. FirstOf(verifiedAt[u], txNow[r]) # Never
  BY DEF FirstOf, TypeOK, Never
<1>8. {w \in Users : verifiedAt[w] # Never}' = {w \in Users : verifiedAt[w] # Never} \cup {u}
  <2>1. verifiedAt'[u] # Never /\ \A w \in Users \ {u} : verifiedAt'[w] = verifiedAt[w]
    BY <1>6, <1>7 DEF TypeOK
  <2>. QED
    BY <2>1 DEF Never
<1>9. Contract!Redeem(u)
  BY <1>4, <1>5, <1>8 DEF Contract!Redeem
<1>. QED
  BY <1>9 DEF Contract!Next

(* A wrong code is Miss: the guess counts, the last one ends the code. *)
LEMMA MissMaps ==
    ASSUME IInv, RowLocksOwn, AtMostOneLive, NEW CONSTANT r \in Requests, RefuseWrongCode(r)
    PROVE  Contract!Next
<1>. TypeOK /\ RowsKnown /\ JudgedLive
  BY DEF IInv
<1>1. PICK u \in Users : u = target[r]
  BY DEF TypeOK
<1>2. PICK c : c = picked[r]
  OBVIOUS
<1>3. pc[r] \in Judging
  BY DEF RefuseWrongCode, Judging
<1>4. /\ Live(u) = {c} /\ c \in Requests
      /\ CodeOf(u) = c /\ CodeOf(u) # NoRequest /\ TriesOf(u) = otp[c].attempts
  BY <1>1, <1>2, <1>3, JudgedIsPending
<1>5. seen[r] = otp[c].attempts /\ otp[c].attempts \in Nat /\ c \in DOMAIN otp
      /\ IsLive(c)
  BY <1>2, <1>3, RowsInRequests DEF JudgedLive, TypeOK, Challenge
<1>6. /\ DOMAIN otp' = DOMAIN otp
      /\ otp'[c] = Row(c, otp[c].attempts + 1, otp[c].verified,
                       IF otp[c].attempts + 1 >= MaxAttempts THEN "yes" ELSE otp[c].revoked)
  BY <1>2, <1>5, WrongCodeRow DEF OnlyRow
<1>7. /\ otp'[c].attempts = otp[c].attempts + 1 /\ otp'[c].verified = otp[c].verified
      /\ otp'[c].revoked = IF otp[c].attempts + 1 >= MaxAttempts THEN "yes" ELSE otp[c].revoked
      /\ otp'[c].user = otp[c].user
  BY <1>6, RowFields
<1>8. verifiedAt' = verifiedAt
  BY DEF RefuseWrongCode, users
<1>9. CASE otp[c].attempts + 1 >= MaxAttempts
  <2>1. Contract!Holds(u, NoRequest, 0)
    BY <1>1, <1>2, <1>7, <1>9, SettledMaps DEF IsLive
  <2>2. ~(TriesOf(u) + 1 < MaxAttempts)
    BY <1>4, <1>5, <1>9, PolicyAssumption
  <2>3. Contract!Miss(u)
    BY <1>4, <1>8, <2>1, <2>2 DEF Contract!Miss
  <2>. QED
    BY <2>3 DEF Contract!Next
<1>10. CASE ~(otp[c].attempts + 1 >= MaxAttempts)
  <2>1. Live(u)' = {c}
    <3>1. c \in Live(u)'
      BY <1>4, <1>5, <1>6, <1>7, <1>10 DEF Live, Challenges, IsLive
    <3>2. ~InsertChallenge(r)
      BY <1>3 DEF InsertChallenge, Judging
    <3>. QED
      BY <1>4, <3>1, <3>2, LiveAfter
  <2>2. CodeOf(u)' = CodeOf(u) /\ TriesOf(u)' = TriesOf(u) + 1
    BY <1>4, <1>7, <2>1, OnePendingNext
  <2>3. \A w \in Users \ {u} : CodeOf(w)' = CodeOf(w) /\ TriesOf(w)' = TriesOf(w)
    BY <1>1, OthersKept
  <2>4. Contract!Holds(u, CodeOf(u), TriesOf(u) + 1)
    BY <2>2, <2>3, HoldsNow
  <2>5. TriesOf(u) + 1 < MaxAttempts
    BY <1>4, <1>5, <1>10, PolicyAssumption
  <2>6. Contract!Miss(u)
    BY <1>4, <1>8, <2>4, <2>5 DEF Contract!Miss
  <2>. QED
    BY <2>6 DEF Contract!Next
<1>. QED
  BY <1>9, <1>10

LEMMA ContractStep ==
    ASSUME IInv, RowLocksOwn, AtMostOneLive, [Next]_vars
    PROVE  [Contract!Next]_(Contract!contract)
<1>. TypeOK /\ RowsKnown /\ TimesKnown
  BY DEF IInv
<1>1. ASSUME NEW r \in Requests,
             \/ InsertChallenge(r) \/ RefuseExpired(r) \/ RefuseWrongCode(r)
             \/ ActivateUser(r)
      PROVE  Contract!Next
  BY <1>1, IssueMaps, LapseMaps, MissMaps, RedeemMaps
<1>2. CASE otp' = otp /\ verifiedAt' = verifiedAt
  BY <1>2 DEF Contract!contract, CodeOf, TriesOf, Live, Challenges, IsLive
<1>. QED
  BY <1>1, <1>2, RowSteps, VerifiedSteps

(* Rows, locks, clocks and transactions implement the contract of the      *)
(* codes.                                                                  *)
THEOREM ContractImplemented == Spec => ImplementsContract
<1>1. Init => Contract!Init
  <2> SUFFICES ASSUME Init
               PROVE  Contract!Init
    OBVIOUS
  <2>1. \A u \in Users : Live(u) = {}
    BY DEF Init, Live, Challenges
  <2>2. \A u \in Users : CodeOf(u) = NoRequest /\ TriesOf(u) = 0
    BY <2>1, NothingPending
  <2>. QED
    BY <2>2 DEF Init, Contract!Init
<1>. QED
  BY <1>1, ContractStep, Invariance, LocksOfOneUser, OneLiveChallenge, PTL
     DEF Spec, ImplementsContract, Contract!Spec
=============================================================================
